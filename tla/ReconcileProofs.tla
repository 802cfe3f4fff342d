-------------------------- MODULE ReconcileProofs --------------------------
(***************************************************************************)
(* Proofs about Reconcile, for any number of pods, users, changes and      *)
(* faults: type correctness; that the status "In progress" is never left   *)
(* without a change that kopf still has to have handled, unless users have *)
(* taken it back; that a changed secret is in effect when it is reported   *)
(* as done; that a rolling reboot waits for the pods it took down; and     *)
(* that an update which counted every pod has started all of them anew.    *)
(***************************************************************************)
EXTENDS Reconcile, FiniteSetTheorems, WellFoundedInduction, TLAPS

\* A handler that is to take the next pod has one to take.
HasNext(q) == q.pc \in {"exec", "clean", "roll"} => q.todo # {}
HasTodo == \A p \in Handlers : HasNext(h[p])

TypeInv == TypeOK /\ HasTodo

\* What a step does to the place and the variables of handler p.
Edited(p, q) == h' = [h EXCEPT ![p] = q]
Stops(p)  == Edited(p, Idle)
Starts(p) == \E q \in Handler : Edited(p, q) /\ HasNext(q) /\ q.seen = desired
Runs(p)   == /\ h[p].pc # "idle"
             /\ \E q \in Handler : Edited(p, q) /\ HasNext(q) /\ q.seen = h[p].seen

\* The kinds of steps a handler takes, by what they do to the objects, the
\* status and the handler.
Begins(p) == /\ Starts(p) /\ desired[p] # handled[p]
             /\ conds' = conds \/ (p = "cr" /\ conds' = "progress")
             /\ UNCHANGED <<objects, cluster, bounds>>
Announces == /\ Runs("secret") /\ conds' = "progress"
             /\ UNCHANGED <<objects, cluster, bounds>>
Works(p)  == Runs(p) /\ UNCHANGED <<objects, conds, bounds>>
Finishes(p) == /\ h[p].pc # "idle" /\ End(p)
               /\ conds' \in Outcomes \/ (p = "config" /\ UNCHANGED conds)
               /\ UNCHANGED <<desired, cluster, bounds>>
Skips == /\ handled' = [handled EXCEPT !.config = desired.config]
         /\ UNCHANGED <<desired, conds, cluster, h, bounds>>
----------------------------------------------------------------------------
\* A set of indices that is not empty has a first one (First).
LEMMA FirstIn ==
  ASSUME NEW S \in SUBSET Indices, S # {}
  PROVE  First(S) \in S
<1>1. S \subseteq Nat
  BY ReconcileAssumption DEF Indices
<1>2. PICK i \in S : \A j \in S : <<j, i>> \notin OpToRel(<, Nat)
  BY <1>1, WFMin, NatLessThanWellFounded, Zenon
<1>3. \A j \in S : ~(j < i)
  BY <1>1, <1>2, Zenon DEF OpToRel
<1>4. \A j \in S : i <= j
  BY <1>1, <1>3
<1> QED
  BY <1>4 DEF First

\* The pods reboot_pods goes through are pods the CR asks for.
LEMMA RebootCountType ==
  ASSUME TypeOK
  PROVE  RebootCount \in 1..MaxPods
<1>1. h["cr"] \in Handler
  BY DEF TypeOK, Handlers
<1>2. h["cr"].old \in SUBSET Indices /\ h["cr"].seen.cr.shape.replicas \in 1..MaxPods
  BY <1>1 DEF Handler, Objects, CR, Shape
<1>3. IsFiniteSet(h["cr"].old)
  <2>1. IsFiniteSet(0..(MaxPods - 1))
    BY FS_Interval, ReconcileAssumption
  <2> QED
    BY <2>1, <1>2, FS_Subset DEF Indices
<1>4. Cardinality(h["cr"].old) \in Nat
  BY <1>3, FS_CardinalityType
<1> QED
  BY <1>2, <1>4, ReconcileAssumption DEF RebootCount

\* The constants of the initial states have their types.
LEMMA InstalledType == Installed \in Objects
<1>1. (CHOOSE s \in Shapes : TRUE) \in Shape
  BY ReconcileAssumption
<1>2. (CHOOSE u \in Users : TRUE) \in Users
  BY ReconcileAssumption
<1> QED
  BY <1>1, <1>2 DEF Installed, Objects, CR, Secret

LEMMA IdleType == Idle \in Handler /\ Idle.pc = "idle" /\ Idle.todo = {}
<1>1. Idle = [pc |-> "idle", seen |-> Installed, creds |-> Installed.secret,
              old |-> {}, was |-> 0, existed |-> FALSE, todo |-> {}, taken |-> {},
              steady |-> TRUE]
  BY DEF Idle
<1>2. Installed.secret \in Secret
  BY InstalledType DEF Objects
<1> HIDE DEF Installed
<1> QED
  BY <1>1, <1>2, InstalledType DEF Handler

\* Each kind of step leaves the handlers with their types.
LEMMA EditType ==
  ASSUME TypeInv, NEW p \in Handlers, Stops(p) \/ Starts(p) \/ Runs(p)
  PROVE  h' \in [Handlers -> Handler] /\ HasTodo'
<1>1. PICK q \in Handler : Edited(p, q) /\ HasNext(q)
  BY IdleType DEF Stops, Starts, Runs, HasNext
<1>2. h' \in [Handlers -> Handler]
  BY <1>1 DEF TypeInv, TypeOK, Edited
<1>3. \A r \in Handlers : h'[r] = IF r = p THEN q ELSE h[r]
  BY <1>1 DEF TypeInv, TypeOK, Edited
<1> QED
  BY <1>1, <1>2, <1>3 DEF TypeInv, HasTodo, HasNext

\* Goto moves a handler on.
LEMMA GotoRuns ==
  ASSUME TypeInv, NEW p \in Handlers, h[p].pc # "idle",
         NEW pc \in {"change", "list", "apply", "create", "present", "running",
                     "roll", "check", "enable", "finish"},
         pc = "roll" => h[p].todo # {}, Goto(p, pc)
  PROVE  Runs(p)
<1> DEFINE q == [h[p] EXCEPT !.pc = pc]
<1>1. q \in Handler /\ q.pc = pc /\ q.todo = h[p].todo /\ q.seen = h[p].seen
  BY DEF TypeInv, TypeOK, Handler
<1>2. Edited(p, q)
  BY DEF Goto, Edited
<1> HIDE DEF q
<1> QED
  BY <1>1, <1>2 DEF Runs, HasNext

\* End stops a handler and keeps the last-handled objects well-formed.
LEMMA EndType ==
  ASSUME TypeInv, NEW p \in Handlers, End(p)
  PROVE  Stops(p) /\ handled' \in Objects
<1>1. Edited(p, Idle) /\ handled' = [handled EXCEPT ![p] = h[p].seen[p]]
  BY DEF End, Edited
<1>2. h[p].seen \in Objects /\ handled \in Objects
  BY DEF TypeInv, TypeOK, Handler
<1>3. handled' \in Objects
  <2>1. CASE p = "cr"
    BY <2>1, <1>1, <1>2 DEF Objects
  <2>2. CASE p = "secret"
    BY <2>2, <1>1, <1>2 DEF Objects
  <2>3. CASE p = "config"
    BY <2>3, <1>1, <1>2 DEF Objects
  <2> QED
    BY <2>1, <2>2, <2>3 DEF Handlers
<1> QED
  BY <1>1, <1>3 DEF Stops

\* Raise stops a handler.
LEMMA RaiseStops == ASSUME NEW p, Raise(p) PROVE Stops(p)
BY DEF Raise, Stops, Edited
----------------------------------------------------------------------------
\* Contents that differ are objects that differ.
LEMMA CauseDiffers == ASSUME NEW p \in Handlers, Cause(p) PROVE desired[p] # handled[p]
BY DEF Cause, Handlers

\* The steps of the handler of the CR by their kinds.
LEMMA CrKinds ==
  ASSUME TypeInv, CrStep
  PROVE  Begins("cr") \/ Works("cr") \/ Raise("cr") \/ Finishes("cr")
<1> DEFINE hc == h["cr"]
<1>0. /\ "cr" \in Handlers /\ hc \in Handler /\ HasNext(hc)
      /\ desired \in Objects /\ hc.todo \in SUBSET Indices
  BY DEF TypeInv, TypeOK, HasTodo, Handlers, Handler
<1>1. CASE CrBegins
  <2> DEFINE q == [Idle EXCEPT !.pc = IF Updating /\ sts.gen > 0 THEN "flags" ELSE "apply",
                               !.seen = desired, !.old = Present, !.was = sts.replicas,
                               !.existed = sts.gen > 0]
  <2>1. Present \in SUBSET Indices /\ sts.replicas \in Nat /\ (sts.gen > 0) \in BOOLEAN
    BY ReconcileAssumption DEF Present, TypeInv, TypeOK
  <2>2. q \in Handler /\ q.seen = desired /\ q.pc \in {"flags", "apply"}
    BY <2>1, <1>0, IdleType DEF Handler
  <2>3. Edited("cr", q)
    BY <1>1 DEF CrBegins, Edited
  <2> HIDE DEF q
  <2>4. Starts("cr")
    BY <2>2, <2>3 DEF Starts, HasNext
  <2>5. desired["cr"] # handled["cr"]
    BY <1>0, <1>1, CauseDiffers DEF CrBegins
  <2> QED
    BY <2>4, <2>5, <1>1 DEF Begins, CrBegins
<1>2. CASE FlagsChecked
  <2> DEFINE pc == IF Present = {} THEN "apply" ELSE "exec"
             q == [hc EXCEPT !.todo = Present, !.pc = pc]
  <2>1. Present \in SUBSET Indices
    BY DEF Present
  <2>2. pc \in {"apply", "exec"} /\ (pc = "exec" => Present # {})
    OBVIOUS
  <2>3. Edited("cr", q)
    BY <1>2 DEF FlagsChecked, Edited
  <2> HIDE DEF pc
  <2>4. q \in Handler /\ HasNext(q) /\ q.seen = hc.seen
    BY <2>1, <2>2, <1>0 DEF Handler, HasNext
  <2> HIDE DEF q
  <2> QED
    BY <2>3, <2>4, <1>2 DEF FlagsChecked, Works, Runs, cluster
<1>12. CASE FlagsEnabled
  <2> DEFINE i == First(hc.todo)
             q == [hc EXCEPT !.todo = @ \ {i}, !.pc = IF hc.todo = {i} THEN "apply" ELSE "exec"]
  <2>1. hc.todo # {}
    BY <1>0, <1>12 DEF FlagsEnabled, HasNext
  <2>2. i \in hc.todo
    BY <2>1, <1>0, FirstIn
  <2>3. Edited("cr", q)
    BY <1>12 DEF FlagsEnabled, Edited
  <2> HIDE DEF i
  <2>4. q \in Handler /\ HasNext(q) /\ q.seen = hc.seen
    BY <2>1, <2>2, <1>0 DEF Handler, HasNext
  <2> HIDE DEF q
  <2> QED
    BY <2>3, <2>4, <1>12 DEF FlagsEnabled, Works, Runs, cluster
<1>3. CASE WaitsForTests
  BY <1>0, <1>3, GotoRuns DEF WaitsForTests, Works, cluster
<1>4. CASE Orphans
  BY <1>0, <1>4, GotoRuns DEF Orphans, Works
<1>5. CASE Applies
  <2> DEFINE replicas == hc.seen.cr.shape.replicas
  <2>1. hc.pc # "idle" /\ UNCHANGED <<objects, conds, bounds>>
    BY <1>5 DEF Applies
  <2>2. replicas \in 1..MaxPods
    BY <1>0 DEF Handler, Objects, CR, Shape
  <2>3. ASSUME NEW n \in 1..MaxPods, NEW pc \in {"clean", "roll"},
               h' = [h EXCEPT !["cr"].pc = pc, !["cr"].todo = 0..(n - 1)]
        PROVE  Runs("cr")
    <3> DEFINE q == [hc EXCEPT !.pc = pc, !.todo = 0..(n - 1)]
    <3>1. 0..(n - 1) \in SUBSET Indices /\ 0..(n - 1) # {}
      <4>1. \A i \in 0..(n - 1) : i \in 0..(MaxPods - 1)
        BY ReconcileAssumption
      <4>2. 0 \in 0..(n - 1)
        BY ReconcileAssumption
      <4> QED
        BY <4>1, <4>2 DEF Indices
    <3>2. q \in Handler /\ HasNext(q) /\ q.seen = hc.seen
      BY <3>1, <1>0 DEF Handler, HasNext
    <3>3. Edited("cr", q)
      BY <2>3 DEF Edited
    <3> HIDE DEF q
    <3> QED
      BY <3>2, <3>3, <2>1 DEF Runs
  <2>4. CASE h' = [h EXCEPT !["cr"].pc = "clean", !["cr"].todo = 0..(replicas - 1)]
    BY <2>1, <2>2, <2>3, <2>4 DEF Works
  <2>5. CASE h' = [h EXCEPT !["cr"].pc = "roll", !["cr"].todo = 0..(RebootCount - 1)]
    BY <2>1, <2>3, <2>5, RebootCountType DEF Works, TypeInv
  <2>6. CASE Goto("cr", "present")
    BY <2>1, <2>6, <1>0, GotoRuns DEF Works
  <2> QED
    BY <2>4, <2>5, <2>6, <1>5 DEF Applies
<1>6. CASE CleansPod
  <2> DEFINE i == First(hc.todo)
             q == [hc EXCEPT !.todo = @ \ {i}, !.pc = IF hc.todo = {i} THEN "present" ELSE "clean"]
  <2>1. hc.todo # {}
    BY <1>0, <1>6 DEF CleansPod, HasNext
  <2>2. i \in hc.todo
    BY <2>1, <1>0, FirstIn
  <2> HIDE DEF i
  <2>3. q \in Handler /\ HasNext(q) /\ q.seen = hc.seen
    BY <2>1, <2>2, <1>0 DEF Handler, HasNext
  <2>4. Edited("cr", q)
    BY <1>6 DEF CleansPod, Edited, i
  <2> HIDE DEF q
  <2> QED
    BY <2>3, <2>4, <1>6 DEF CleansPod, Works, Runs
<1>7. CASE PodsPresent
  BY <1>0, <1>7, GotoRuns DEF PodsPresent, Works
<1>8. CASE PodsRunning
  <2> DEFINE pc == IF hc.seen.cr.shape.reboot THEN "enable" ELSE "check"
             q == [hc EXCEPT !.creds = desired.secret, !.pc = pc]
  <2>1. desired.secret \in Secret
    BY <1>0 DEF Objects
  <2>2. pc \in {"enable", "check"}
    OBVIOUS
  <2>3. Edited("cr", q)
    BY <1>8 DEF PodsRunning, Edited
  <2> HIDE DEF pc
  <2>4. q \in Handler /\ HasNext(q) /\ q.seen = hc.seen
    BY <2>1, <2>2, <1>0 DEF Handler, HasNext
  <2> HIDE DEF q
  <2> QED
    BY <2>3, <2>4, <1>8 DEF PodsRunning, Works, Runs
<1>9. CASE Enables
  BY <1>0, <1>9, GotoRuns DEF Enables, Works
<1>10. CASE FlagsRaise \/ CleanRaises \/ EnableRaises
  BY <1>10 DEF FlagsRaise, CleanRaises, EnableRaises
<1>11. CASE FlagsFail \/ Rejects \/ PodsNotReady \/ CrFinishes
  BY <1>11 DEF FlagsFail, Rejects, PodsNotReady, CrFinishes, Finishes, Outcomes
<1> QED
  BY <1>1, <1>2, <1>3, <1>4, <1>5, <1>6, <1>7, <1>8, <1>9, <1>10, <1>11, <1>12 DEF CrStep

\* The steps of the handlers of the secret and the ConfigMap.
LEMMA SecretKinds ==
  ASSUME TypeInv, SecretStep
  PROVE  \/ Begins("secret") \/ Announces \/ Works("secret")
         \/ Raise("secret") \/ Finishes("secret")
<1>0. "secret" \in Handlers /\ desired \in Objects
  BY DEF TypeInv, TypeOK, Handlers
<1>1. CASE SecretBegins
  <2> DEFINE q == [Idle EXCEPT !.pc = "wait", !.seen = desired]
  <2>1. q \in Handler /\ HasNext(q) /\ q.seen = desired
    BY <1>0, IdleType DEF Handler, HasNext
  <2>2. Edited("secret", q)
    BY <1>1 DEF SecretBegins, Edited
  <2> HIDE DEF q
  <2> QED
    BY <2>1, <2>2, <1>0, <1>1, CauseDiffers DEF SecretBegins, Starts, Begins
<1>2. CASE SecretWaited
  BY <1>0, <1>2, GotoRuns DEF SecretWaited, Announces
<1>3. CASE ChangesAccount
  BY <1>0, <1>3, GotoRuns DEF ChangesAccount, Works
<1>4. CASE ChangeRaises
  BY <1>4 DEF ChangeRaises
<1>5. CASE SecretFinishes
  BY <1>5 DEF SecretFinishes, Finishes, Outcomes
<1> QED
  BY <1>1, <1>2, <1>3, <1>4, <1>5 DEF SecretStep

LEMMA ConfigKinds ==
  ASSUME TypeInv, ConfigBegins \/ ConfigFinishes
  PROVE  Begins("config") \/ Skips \/ Finishes("config")
<1>0. "config" \in Handlers /\ desired \in Objects
  BY DEF TypeInv, TypeOK, Handlers
<1>1. CASE ConfigBegins /\ UNCHANGED handled
  <2> DEFINE q == [Idle EXCEPT !.pc = "list", !.seen = desired]
  <2>1. q \in Handler /\ HasNext(q) /\ q.seen = desired
    BY <1>0, IdleType DEF Handler, HasNext
  <2>2. CASE Edited("config", q)
    <3> HIDE DEF q
    <3> QED
      BY <2>1, <2>2, <1>0, <1>1, CauseDiffers DEF ConfigBegins, Starts, Begins, objects
  <2>3. CASE handled' = [handled EXCEPT !.config = desired.config] /\ UNCHANGED h
    BY <2>3, <1>1 DEF ConfigBegins, Skips
  <2> QED
    BY <2>2, <2>3, <1>1 DEF ConfigBegins, Edited
<1>2. CASE ConfigBegins /\ ~UNCHANGED handled
  BY <1>2 DEF ConfigBegins, Skips
<1>3. CASE ConfigFinishes
  BY <1>3 DEF ConfigFinishes, Finishes
<1> QED
  BY <1>1, <1>2, <1>3

\* The steps of the rolling reboots, which the handlers share.
LEMMA RollKinds ==
  ASSUME TypeInv, NEW p \in Handlers,
         ListsPods(p) \/ RebootsPod(p) \/ RebootRaises(p) \/ CheckPasses(p) \/ CheckFails(p)
  PROVE  Works(p) \/ Raise(p) \/ Finishes(p)
<1> DEFINE hp == h[p]
<1>0. hp \in Handler /\ HasNext(hp) /\ hp.todo \in SUBSET Indices /\ desired.secret \in Secret
  BY DEF TypeInv, TypeOK, HasTodo, Handler, Objects
<1>1. CASE ListsPods(p)
  <2> DEFINE q == [hp EXCEPT !.todo = Present, !.pc = IF Present = {} THEN "finish" ELSE "roll"]
  <2>1. Present \in SUBSET Indices
    BY DEF Present
  <2>2. Edited(p, q)
    BY <1>1 DEF ListsPods, Edited
  <2>3. q \in Handler /\ HasNext(q) /\ q.seen = hp.seen
    BY <2>1, <1>0 DEF Handler, HasNext
  <2> HIDE DEF q
  <2> QED
    BY <2>2, <2>3, <1>1 DEF ListsPods, Works, Runs
<1>2. CASE RebootsPod(p)
  <2> DEFINE i == First(hp.todo)
             q == [hp EXCEPT !.pc = "check", !.todo = @ \ {i},
                             !.taken = @ \cup {i}, !.creds = desired.secret]
  <2>1. hp.todo # {}
    BY <1>0, <1>2 DEF RebootsPod, HasNext
  <2>2. i \in Indices
    BY <2>1, <1>0, FirstIn
  <2>3. Edited(p, q)
    BY <1>2 DEF RebootsPod, Edited
  <2> HIDE DEF i
  <2>4. q \in Handler /\ HasNext(q) /\ q.seen = hp.seen
    BY <2>2, <1>0 DEF Handler, HasNext
  <2> HIDE DEF q
  <2> QED
    BY <2>3, <2>4, <1>2 DEF RebootsPod, Works, Runs
<1>3. CASE RebootRaises(p)
  BY <1>3 DEF RebootRaises
<1>4. CASE CheckPasses(p)
  <2> DEFINE pc == IF hp.todo # {} THEN "roll" ELSE AfterReboots(p)
             steady == hp.steady /\ hp.seen.cr.shape.replicas = sts.replicas
             q == [hp EXCEPT !.pc = pc, !.steady = steady]
  <2>1. pc \in {"roll", "enable", "finish"} /\ (pc = "roll" => hp.todo # {}) /\ steady \in BOOLEAN
    BY <1>0 DEF AfterReboots, Handler
  <2>2. Edited(p, q)
    BY <1>4 DEF CheckPasses, GoesOn, Edited
  <2> HIDE DEF pc, steady
  <2>3. q \in Handler /\ HasNext(q) /\ q.seen = hp.seen
    BY <2>1, <1>0 DEF Handler, HasNext
  <2> HIDE DEF q
  <2> QED
    BY <2>2, <2>3, <1>4 DEF CheckPasses, Works, Runs
<1>5. CASE CheckFails(p)
  BY <1>5 DEF CheckFails, Finishes, Outcomes
<1> QED
  BY <1>1, <1>2, <1>3, <1>4, <1>5

\* Every step of a handler is of one of the kinds.
LEMMA HandlerKinds ==
  ASSUME TypeInv, NEW p \in Handlers, HandlerStep(p)
  PROVE  \/ Begins(p) \/ Works(p) \/ Raise(p) \/ Finishes(p)
         \/ (p = "secret" /\ Announces) \/ (p = "config" /\ Skips)
BY CrKinds, SecretKinds, ConfigKinds, RollKinds DEF HandlerStep
----------------------------------------------------------------------------
\* A pod taken down is a pod still.
LEMMA TakeDownType ==
  ASSUME TypeInv, NEW p \in Handlers \cup {"none"}, NEW i \in Indices, TakeDown(p, i)
  PROVE  pods' \in [Indices -> Pod]
<1> DEFINE new == [pods[i] EXCEPT !.state = "absent", !.by = p]
<1>1. new \in Pod
  <2>1. pods[i] \in Pod
    BY DEF TypeInv, TypeOK
  <2> QED
    BY <2>1 DEF Pod
<1>2. pods' = [pods EXCEPT ![i] = new]
  BY DEF TakeDown
<1> HIDE DEF new
<1> QED
  BY <1>1, <1>2 DEF TypeInv, TypeOK

\* What handlers do to the StatefulSet, the pods and the accounts.
ClusterType == /\ sts \in [gen : Nat, replicas : 0..MaxPods, claims : {1, 2}]
               /\ pods \in [Indices -> Pod] /\ accounts \in [Users -> Nat]

LEMMA HandlerCluster ==
  ASSUME TypeInv, NEW p \in Handlers, HandlerStep(p)
  PROVE  ClusterType'
<1>0. ClusterType /\ desired.secret \in Secret
  BY DEF TypeInv, TypeOK, ClusterType, Objects
<1>1. CASE UNCHANGED cluster
  BY <1>0, <1>1 DEF cluster, ClusterType
<1>2. CASE Orphans
  BY <1>0, <1>2, ReconcileAssumption DEF Orphans, NoSet, ClusterType
<1>3. CASE Applies
  <2> DEFINE seen == h["cr"].seen.cr
             new == [gen |-> seen.gen, replicas |-> seen.shape.replicas,
                     claims |-> seen.shape.claims]
             lost(i) == [pods[i] EXCEPT !.state = "absent", !.by = "none"]
  <2>1. h["cr"] \in Handler
    BY DEF TypeInv, TypeOK, Handlers
  <2>2. seen \in CR
    BY <2>1 DEF Handler, Objects
  <2>3. new \in [gen : Nat, replicas : 0..MaxPods, claims : {1, 2}]
    BY <2>2, ReconcileAssumption DEF CR, Shape
  <2>4. \A i \in Indices : lost(i) \in Pod
    BY <1>0 DEF ClusterType, Pod
  <2>5. /\ sts' = new /\ UNCHANGED accounts
        /\ pods' = [i \in Indices |-> IF i < seen.shape.replicas THEN pods[i] ELSE lost(i)]
    BY <1>3 DEF Applies
  <2> HIDE DEF seen, new, lost
  <2> QED
    BY <2>3, <2>4, <2>5, <1>0 DEF ClusterType
<1>4. CASE CleansPod
  <2>1. h["cr"].todo \in SUBSET Indices /\ h["cr"].todo # {} /\ "cr" \in Handlers
    BY <1>4 DEF CleansPod, TypeInv, TypeOK, HasTodo, HasNext, Handlers, Handler
  <2>2. pods' \in [Indices -> Pod]
    BY <1>4, <2>1, FirstIn, TakeDownType DEF CleansPod
  <2> QED
    BY <2>2, <1>0, <1>4 DEF CleansPod, ClusterType
<1>5. CASE ChangesAccount
  <2> DEFINE old == handled.secret.user
             now == desired.secret
  <2>1. old \in Users /\ now.user \in Users /\ now.password \in Nat
    BY <1>0 DEF TypeInv, TypeOK, Objects, Secret
  <2>2. UNCHANGED <<sts, pods>>
    BY <1>5 DEF ChangesAccount
  <2>3. \/ accounts' = accounts \/ accounts' = [accounts EXCEPT ![old] = 0]
        \/ accounts' = [accounts EXCEPT ![now.user] = IF @ = 0 THEN 0 ELSE now.password]
    BY <1>5 DEF ChangesAccount
  <2> HIDE DEF old, now
  <2>4. accounts' \in [Users -> Nat]
    BY <2>1, <2>3, <1>0 DEF ClusterType
  <2> QED
    BY <2>2, <2>4, <1>0 DEF ClusterType
<1>6. CASE RebootsPod(p)
  <2>1. h[p].todo \in SUBSET Indices /\ h[p].todo # {}
    BY <1>6 DEF RebootsPod, TypeInv, TypeOK, HasTodo, HasNext, Handler
  <2>2. pods' \in [Indices -> Pod]
    BY <1>0, <1>6, <2>1, FirstIn, TakeDownType DEF RebootsPod, ClusterType
  <2> QED
    BY <2>2, <1>0, <1>6 DEF RebootsPod, ClusterType
<1>7. CrStep => Orphans \/ Applies \/ CleansPod \/ UNCHANGED cluster
  BY DEF CrStep, CrBegins, FlagsChecked, FlagsEnabled, FlagsFail, FlagsRaise,
     WaitsForTests, Rejects, CleanRaises,
     PodsPresent, PodsRunning, PodsNotReady, Enables, EnableRaises, CrFinishes, Raise
<1>8. SecretStep => ChangesAccount \/ UNCHANGED cluster
  BY DEF SecretStep, SecretBegins, SecretWaited, ChangeRaises, SecretFinishes, Raise
<1>9. ConfigBegins \/ ConfigFinishes \/ ListsPods(p) \/ RebootRaises(p) \/ CheckPasses(p)
      \/ CheckFails(p) => UNCHANGED cluster
  BY DEF ConfigBegins, ConfigFinishes, ListsPods, RebootRaises, CheckPasses, CheckFails, Raise
<1> QED
  BY <1>1, <1>2, <1>3, <1>4, <1>5, <1>6, <1>7, <1>8, <1>9 DEF HandlerStep
----------------------------------------------------------------------------
\* A handler's step keeps all types.
LEMMA HandlerType ==
  ASSUME TypeInv, NEW p \in Handlers, HandlerStep(p)
  PROVE  TypeInv'
<1>1. ClusterType'
  BY HandlerCluster
<1>2. CASE Begins(p)
  BY <1>1, <1>2, EditType DEF Begins, TypeInv, TypeOK, ClusterType, objects, bounds
<1>3. CASE Works(p)
  BY <1>1, <1>3, EditType DEF Works, TypeInv, TypeOK, ClusterType, objects, bounds
<1>4. CASE Raise(p)
  BY <1>1, <1>4, EditType, RaiseStops DEF Raise, TypeInv, TypeOK, ClusterType, objects, bounds
<1>5. CASE Finishes(p)
  <2>1. Stops(p) /\ handled' \in Objects
    BY <1>5, EndType DEF Finishes
  <2> QED
    BY <1>1, <1>5, <2>1, EditType DEF Finishes, TypeInv, TypeOK, ClusterType, bounds
<1>6. CASE p = "secret" /\ Announces
  BY <1>1, <1>6, EditType DEF Announces, TypeInv, TypeOK, ClusterType, objects, bounds
<1>7. CASE Skips
  <2>1. handled' \in Objects
    BY <1>7 DEF Skips, TypeInv, TypeOK, Objects
  <2> QED
    BY <1>1, <1>7, <2>1 DEF Skips, TypeInv, TypeOK, ClusterType, bounds, HasTodo, HasNext
<1> QED
  BY <1>2, <1>3, <1>4, <1>5, <1>6, <1>7, HandlerKinds

\* What users write: a version newer than the one before, with any content.
LEMMA CrChanged ==
  ASSUME TypeInv, UserChangesCr
  PROVE  \E cr \in CR : /\ cr.gen = desired.cr.gen + 1
                        /\ Change([desired EXCEPT !.cr = cr])
<1> DEFINE gen == desired.cr.gen + 1
<1>1. desired.cr \in CR /\ handled.cr \in CR /\ h["cr"].seen.cr \in CR
  BY DEF TypeInv, TypeOK, Handlers, Handler, Objects
<1>2. gen \in Nat
  BY <1>1 DEF CR
<1>3. PICK new \in [gen : {0}, text : {gen}, shape : Shapes] \cup {handled.cr, h["cr"].seen.cr} :
        Change([desired EXCEPT !.cr = [new EXCEPT !.gen = gen]])
  BY DEF UserChangesCr
<1> HIDE DEF gen
<1>4. new \in CR
  BY <1>1, <1>2, <1>3, ReconcileAssumption DEF CR
<1>5. [new EXCEPT !.gen = gen] \in CR /\ [new EXCEPT !.gen = gen].gen = gen
  BY <1>2, <1>4 DEF CR
<1> QED
  BY <1>3, <1>5 DEF gen

LEMMA SecretChanged ==
  ASSUME TypeInv, UserChangesSecret
  PROVE  \E secret \in Secret : /\ secret.ver = desired.secret.ver + 1
                                /\ Change([desired EXCEPT !.secret = secret])
<1> DEFINE ver == desired.secret.ver + 1
<1>1. /\ desired.secret \in Secret /\ handled.secret \in Secret
      /\ h["secret"].seen.secret \in Secret
  BY DEF TypeInv, TypeOK, Handlers, Handler, Objects
<1>2. ver \in Nat
  BY <1>1 DEF Secret
<1>3. PICK new \in [user : Users, password : {ver}, ver : {0}]
                    \cup {handled.secret, h["secret"].seen.secret} :
        Change([desired EXCEPT !.secret = [new EXCEPT !.ver = ver]])
  BY DEF UserChangesSecret
<1> HIDE DEF ver
<1>4. new \in Secret
  BY <1>1, <1>2, <1>3 DEF Secret
<1>5. [new EXCEPT !.ver = ver] \in Secret /\ [new EXCEPT !.ver = ver].ver = ver
  BY <1>2, <1>4 DEF Secret
<1> QED
  BY <1>3, <1>5 DEF ver

LEMMA ConfigChanged ==
  ASSUME TypeInv, UserChangesConfig
  PROVE  \E config \in Nat : Change([desired EXCEPT !.config = config])
<1>1. /\ updates + 2 \in Nat /\ handled.config \in Nat
      /\ h["config"].seen.config \in Nat
  BY ReconcileAssumption DEF TypeInv, TypeOK, Handlers, Handler, Objects
<1> QED
  BY <1>1 DEF UserChangesConfig

\* Changes of users, faults and the StatefulSet controller keep all types.
LEMMA EnvironmentType ==
  ASSUME TypeInv, Environment
  PROVE  TypeInv'
<1>0. /\ desired \in Objects /\ handled \in Objects
      /\ conds \in {"none", "progress"} \cup Outcomes
      /\ sts \in [gen : Nat, replicas : 0..MaxPods, claims : {1, 2}]
      /\ pods \in [Indices -> Pod] /\ accounts \in [Users -> Nat]
      /\ h \in [Handlers -> Handler] /\ HasTodo
      /\ updates \in 0..MaxUpdates /\ faults \in 0..MaxFaults
  BY DEF TypeInv, TypeOK
<1>1. ASSUME NEW i \in Indices, PodCreated(i) PROVE TypeInv'
  <2> DEFINE new == [state |-> "starting", gen |-> sts.gen, by |-> pods[i].by,
                     config |-> desired.config, secret |-> desired.secret]
  <2>1. new \in Pod
    <3>1. pods[i] \in Pod
      BY <1>0
    <3> QED
      BY <3>1, <1>0 DEF Pod, Objects
  <2>2. pods' = [pods EXCEPT ![i] = new]
    BY <1>1 DEF PodCreated
  <2> HIDE DEF new
  <2>3. pods' \in [Indices -> Pod]
    BY <2>1, <2>2, <1>0
  <2> QED
    BY <2>3, <1>0, <1>1 DEF PodCreated, TypeInv, TypeOK, HasTodo, HasNext, objects, bounds
<1>2. ASSUME NEW i \in Indices, PodUp(i) PROVE TypeInv'
  <2> DEFINE new == [pods[i] EXCEPT !.state = "up"]
             s   == pods[i].secret
  <2>1. new \in Pod /\ s.user \in Users /\ s.password \in Nat
    <3>1. pods[i] \in Pod
      BY <1>0
    <3> QED
      BY <3>1 DEF Pod, Secret
  <2>2. pods' = [pods EXCEPT ![i] = new] /\ accounts' = [accounts EXCEPT ![s.user] = s.password]
    BY <1>2 DEF PodUp
  <2> HIDE DEF new, s
  <2>3. pods' \in [Indices -> Pod] /\ accounts' \in [Users -> Nat]
    BY <2>1, <2>2, <1>0
  <2> QED
    BY <2>3, <1>0, <1>2 DEF PodUp, TypeInv, TypeOK, HasTodo, HasNext, objects, bounds
<1>3. ASSUME NEW i \in Indices, PodLost(i) PROVE TypeInv'
  <2>1. pods' \in [Indices -> Pod]
    BY <1>3, TakeDownType DEF PodLost
  <2>2. faults' \in 0..MaxFaults
    BY <1>0, <1>3, ReconcileAssumption DEF PodLost
  <2> QED
    BY <2>1, <2>2, <1>0, <1>3 DEF PodLost, TypeInv, TypeOK, HasTodo, HasNext, objects
<1>4. ASSUME NEW p \in Handlers, Interrupted(p) PROVE TypeInv'
  <2>1. h' \in [Handlers -> Handler] /\ HasTodo'
    BY <1>4, EditType DEF Interrupted, Stops, Edited
  <2>2. faults' \in 0..MaxFaults
    BY <1>0, <1>4, ReconcileAssumption DEF Interrupted
  <2> QED
    BY <2>1, <2>2, <1>0, <1>4 DEF Interrupted, TypeInv, TypeOK, objects, cluster
<1>5. CASE MonitorReports
  BY <1>0, <1>5 DEF MonitorReports, TypeInv, TypeOK, HasTodo, HasNext, objects, cluster, bounds, Outcomes
<1>6. CASE OperatorRestarts
  <2>1. h' \in [Handlers -> Handler] /\ HasTodo'
    BY <1>6, IdleType DEF OperatorRestarts, HasTodo, HasNext
  <2>2. faults' \in 0..MaxFaults
    BY <1>0, <1>6, ReconcileAssumption DEF OperatorRestarts
  <2> QED
    BY <2>1, <2>2, <1>0, <1>6 DEF OperatorRestarts, TypeInv, TypeOK, objects, cluster
<1>7. ASSUME NEW new \in Objects, Change(new) PROVE TypeInv'
  <2>1. updates' \in 0..MaxUpdates
    BY <1>0, <1>7, ReconcileAssumption DEF Change
  <2> QED
    BY <2>1, <1>0, <1>7 DEF Change, TypeInv, TypeOK, HasTodo, HasNext, cluster
<1>8. CASE UserChangesCr
  <2>1. PICK cr \in CR : Change([desired EXCEPT !.cr = cr])
    BY <1>8, CrChanged
  <2>2. [desired EXCEPT !.cr = cr] \in Objects
    BY <2>1, <1>0 DEF Objects
  <2> QED
    BY <2>1, <2>2, <1>7
<1>9. CASE UserChangesSecret
  <2>1. PICK secret \in Secret : Change([desired EXCEPT !.secret = secret])
    BY <1>9, SecretChanged
  <2>2. [desired EXCEPT !.secret = secret] \in Objects
    BY <2>1, <1>0 DEF Objects
  <2> QED
    BY <2>1, <2>2, <1>7
<1>10. CASE UserChangesConfig
  <2>1. PICK config \in Nat : Change([desired EXCEPT !.config = config])
    BY <1>10, ConfigChanged
  <2>2. [desired EXCEPT !.config = config] \in Objects
    BY <2>1, <1>0 DEF Objects
  <2> QED
    BY <2>1, <2>2, <1>7
<1> QED
  BY <1>1, <1>2, <1>3, <1>4, <1>5, <1>6, <1>8, <1>9, <1>10 DEF Environment

\* A cluster that runs as its CR asks.
Deployed == \E s \in Shapes : Settled(s) /\ desired = handled

LEMMA InitType == Init => TypeInv
<1> SUFFICES ASSUME Init PROVE TypeInv
  OBVIOUS
<1>1. h = [p \in Handlers |-> Idle] /\ updates = 0 /\ faults = 0
  BY DEF Init
<1>2. h \in [Handlers -> Handler] /\ HasTodo
  BY <1>1, IdleType DEF HasTodo, HasNext
<1>3. updates \in 0..MaxUpdates /\ faults \in 0..MaxFaults
  BY <1>1, ReconcileAssumption
<1>4. Installed.secret \in Secret /\ Installed.secret.user \in Users
  BY InstalledType DEF Installed, Objects, Secret
<1>5. NoPod \in Pod
  BY <1>4 DEF NoPod, Pod
<1>6. ASSUME NEW s \in Shapes
      PROVE  [Installed EXCEPT !.cr = [gen |-> 1, text |-> 1, shape |-> s]] \in Objects
  <2> DEFINE cr == [gen |-> 1, text |-> 1, shape |-> s]
  <2>1. cr \in CR
    BY ReconcileAssumption DEF CR
  <2> HIDE DEF cr, Installed
  <2>2. [Installed EXCEPT !.cr = cr] \in Objects
    BY <2>1, InstalledType DEF Objects
  <2> QED
    BY <2>2 DEF cr
<1>7. CASE Fresh
  <2>1. desired \in Objects
    BY <1>6, <1>7 DEF Fresh
  <2>2. handled \in Objects /\ conds = "none"
    BY <1>7, InstalledType DEF Fresh
  <2>3. sts \in [gen : Nat, replicas : 0..MaxPods, claims : {1, 2}]
    BY <1>7, ReconcileAssumption DEF Fresh, NoSet
  <2>4. pods \in [Indices -> Pod] /\ accounts \in [Users -> Nat]
    BY <1>5, <1>7 DEF Fresh
  <2> QED
    BY <1>2, <1>3, <2>1, <2>2, <2>3, <2>4 DEF TypeInv, TypeOK
<1>8. CASE Deployed
  <2>1. PICK s \in Shapes :
          /\ handled = [Installed EXCEPT !.cr = [gen |-> 1, text |-> 1, shape |-> s]]
          /\ desired = handled /\ conds = "ok"
          /\ sts = [gen |-> 1, replicas |-> s.replicas, claims |-> s.claims]
          /\ pods = [i \in Indices |-> IF i < s.replicas
                       THEN [NoPod EXCEPT !.state = "up", !.gen = 1] ELSE NoPod]
          /\ accounts = [u \in Users |-> IF u = handled.secret.user THEN 1 ELSE 0]
    BY <1>8 DEF Deployed, Settled
  <2>2. desired \in Objects /\ handled \in Objects
    BY <1>6, <2>1
  <2>3. s.replicas \in 1..MaxPods /\ s.claims \in {1, 2}
    BY ReconcileAssumption DEF Shape
  <2>4. sts \in [gen : Nat, replicas : 0..MaxPods, claims : {1, 2}]
    BY <2>1, <2>3, ReconcileAssumption
  <2>5. [NoPod EXCEPT !.state = "up", !.gen = 1] \in Pod
    <3> HIDE DEF NoPod
    <3> QED
      BY <1>5 DEF Pod
  <2>6. pods \in [Indices -> Pod] /\ accounts \in [Users -> Nat]
    <3> HIDE DEF NoPod
    <3> QED
      BY <1>5, <2>1, <2>5
  <2> QED
    BY <1>2, <1>3, <2>1, <2>2, <2>4, <2>6 DEF TypeInv, TypeOK, Outcomes
<1> QED
  BY <1>7, <1>8 DEF Init, Deployed

LEMMA TypeStep == TypeInv /\ [Next]_vars => TypeInv'
<1> SUFFICES ASSUME TypeInv, [Next]_vars PROVE TypeInv'
  OBVIOUS
<1>1. CASE UNCHANGED vars
  BY <1>1 DEF TypeInv, TypeOK, HasTodo, HasNext, vars, objects, cluster, bounds
<1> QED
  BY <1>1, HandlerType, EnvironmentType DEF Next

\* Every place, object, pod and counter stays what Reconcile says it is, for
\* any number of pods, users, changes and faults; and a handler that goes on
\* to "the next pod" always has one.
THEOREM ReconcileTypeCorrect == Spec => []TypeOK
<1>1. TypeInv => TypeOK
  BY DEF TypeInv
<1> QED
  BY <1>1, InitType, TypeStep, PTL DEF Spec
----------------------------------------------------------------------------
\* What kopf has recorded as handled, and what a handler has read, is never
\* newer than the object; for the secret, a handler at work has read a version
\* newer than the recorded one, and equal versions are equal secrets.
CrKept ==
    /\ handled.cr.gen <= desired.cr.gen
    /\ h["cr"].pc # "idle" => h["cr"].seen.cr.gen <= desired.cr.gen

SecretKept ==
    /\ handled.secret.ver <= desired.secret.ver
    /\ handled.secret.ver = desired.secret.ver => handled.secret = desired.secret
    /\ h["secret"].pc # "idle" =>
         /\ handled.secret.ver < h["secret"].seen.secret.ver
         /\ h["secret"].seen.secret.ver <= desired.secret.ver
         /\ h["secret"].seen.secret.ver = desired.secret.ver =>
              h["secret"].seen.secret = desired.secret

\* In terms of versions: users have written the CR or the secret since kopf has
\* last recorded it as handled.
Owned == conds = "progress" =>
           desired.cr # handled.cr \/ desired.secret # handled.secret

OwnInv == TypeInv /\ CrKept /\ SecretKept /\ Owned

LEMMA OwnedMeans == Owned => ProgressIsOwned
<1>1. \A p \in {"cr", "secret"} : Cause(p) \/ TakenBack(p) <=> desired[p] # handled[p]
  BY CauseDiffers DEF TakenBack, Handlers
<1> QED
  BY <1>1 DEF Owned, ProgressIsOwned

\* The handlers after a step of one of them.
LEMMA HandlersAfter ==
  ASSUME TypeInv, NEW p \in Handlers
  PROVE  /\ Stops(p) => h'[p].pc = "idle"
         /\ Starts(p) => h'[p].seen = desired
         /\ Runs(p) => h[p].pc # "idle" /\ h'[p].seen = h[p].seen
         /\ Stops(p) \/ Starts(p) \/ Runs(p) => \A r \in Handlers \ {p} : h'[r] = h[r]
<1>1. ASSUME NEW q, Edited(p, q)
      PROVE  h'[p] = q /\ \A r \in Handlers \ {p} : h'[r] = h[r]
  BY <1>1 DEF Edited, TypeInv, TypeOK
<1> QED
  BY <1>1, IdleType DEF Stops, Starts, Runs

\* The versions, as numbers.
LEMMA Versions ==
  ASSUME TypeInv
  PROVE  /\ desired.cr.gen \in Nat /\ handled.cr.gen \in Nat /\ h["cr"].seen.cr.gen \in Nat
         /\ desired.secret.ver \in Nat /\ handled.secret.ver \in Nat
         /\ h["secret"].seen.secret.ver \in Nat
         /\ desired.secret \in Secret /\ handled.secret \in Secret
<1>1. h["cr"].seen \in Objects /\ h["secret"].seen \in Objects
  BY DEF TypeInv, TypeOK, Handlers, Handler
<1> QED
  BY <1>1 DEF TypeInv, TypeOK, Objects, CR, Secret

\* What a finished handler has recorded.
LEMMA EndRecords ==
  ASSUME TypeInv, NEW p \in Handlers, End(p)
  PROVE  /\ handled'.cr = IF p = "cr" THEN h["cr"].seen.cr ELSE handled.cr
         /\ handled'.secret = IF p = "secret" THEN h["secret"].seen.secret ELSE handled.secret
<1>1. handled \in Objects /\ handled' = [handled EXCEPT ![p] = h[p].seen[p]]
  BY DEF End, TypeInv, TypeOK
<1> QED
  BY <1>1 DEF Objects, Handlers

LEMMA CrKeptStep ==
  ASSUME OwnInv, NEW p \in Handlers, HandlerStep(p)
  PROVE  CrKept'
<1>0. TypeInv /\ CrKept /\ "cr" \in Handlers
  BY DEF OwnInv, Handlers
<1>1. CASE Begins(p)
  BY <1>0, <1>1, HandlersAfter, Versions DEF Begins, objects, CrKept
<1>2. CASE Works(p)
  BY <1>0, <1>2, HandlersAfter DEF Works, objects, CrKept
<1>3. CASE Raise(p)
  BY <1>0, <1>3, RaiseStops, HandlersAfter DEF Raise, objects, CrKept
<1>4. CASE Finishes(p)
  BY <1>0, <1>4, EndType, EndRecords, HandlersAfter DEF Finishes, CrKept
<1>5. CASE p = "secret" /\ Announces
  BY <1>0, <1>5, HandlersAfter DEF Announces, objects, CrKept
<1>6. CASE Skips
  BY <1>0, <1>6 DEF Skips, CrKept, TypeInv, TypeOK, Objects
<1> QED
  BY <1>0, <1>1, <1>2, <1>3, <1>4, <1>5, <1>6, HandlerKinds

LEMMA SecretKeptStep ==
  ASSUME OwnInv, NEW p \in Handlers, HandlerStep(p)
  PROVE  SecretKept'
<1>0. TypeInv /\ SecretKept /\ "secret" \in Handlers
  BY DEF OwnInv, Handlers
<1>1. CASE Begins(p)
  <2>1. CASE p = "secret"
    <3>1. h'["secret"].seen = desired /\ desired.secret # handled.secret
      BY <1>0, <1>1, <2>1, HandlersAfter DEF Begins
    <3>2. handled.secret.ver < desired.secret.ver
      BY <1>0, <3>1, Versions DEF SecretKept
    <3> QED
      BY <1>0, <1>1, <3>1, <3>2, Versions DEF Begins, objects, SecretKept
  <2>2. CASE p # "secret"
    BY <1>0, <1>1, <2>2, HandlersAfter DEF Begins, objects, SecretKept
  <2> QED
    BY <2>1, <2>2
<1>2. CASE Works(p)
  BY <1>0, <1>2, HandlersAfter DEF Works, objects, SecretKept
<1>3. CASE Raise(p)
  BY <1>0, <1>3, RaiseStops, HandlersAfter DEF Raise, objects, SecretKept
<1>4. CASE Finishes(p)
  BY <1>0, <1>4, EndType, EndRecords, HandlersAfter DEF Finishes, SecretKept
<1>5. CASE p = "secret" /\ Announces
  BY <1>0, <1>5, HandlersAfter DEF Announces, objects, SecretKept
<1>6. CASE Skips
  BY <1>0, <1>6 DEF Skips, SecretKept, TypeInv, TypeOK, Objects
<1> QED
  BY <1>0, <1>1, <1>2, <1>3, <1>4, <1>5, <1>6, HandlerKinds

\* A handler that writes "In progress" has a change that is not handled, and
\* one that records its change has written an outcome, or handled the ConfigMap.
LEMMA OwnedStep ==
  ASSUME OwnInv, NEW p \in Handlers, HandlerStep(p)
  PROVE  Owned'
<1>0. TypeInv /\ SecretKept /\ Owned
  BY DEF OwnInv
<1>1. CASE Begins(p)
  BY <1>0, <1>1 DEF Begins, objects, Owned
<1>2. CASE Works(p)
  BY <1>0, <1>2 DEF Works, objects, Owned
<1>3. CASE Raise(p)
  BY <1>0, <1>3 DEF Raise, objects, Owned
<1>4. CASE Finishes(p)
  BY <1>0, <1>4, EndRecords DEF Finishes, Owned, Outcomes
<1>5. CASE Announces
  <2>1. h["secret"].pc # "idle"
    BY <1>5 DEF Announces, Runs
  <2>2. handled.secret.ver < desired.secret.ver
    BY <1>0, <2>1, Versions DEF SecretKept
  <2> QED
    BY <1>0, <1>5, <2>2, Versions DEF Announces, objects, Owned
<1>6. CASE Skips
  BY <1>0, <1>6 DEF Skips, Owned, TypeInv, TypeOK, Objects
<1> QED
  BY <1>0, <1>1, <1>2, <1>3, <1>4, <1>5, <1>6, HandlerKinds

\* A change makes its object newer than all that was read and handled before.
LEMMA ChangeKeeps ==
  ASSUME OwnInv, UserChangesCr \/ UserChangesSecret \/ UserChangesConfig
  PROVE  CrKept' /\ SecretKept' /\ Owned'
<1>0. /\ CrKept /\ SecretKept /\ Owned /\ TypeInv /\ desired \in Objects
      /\ UNCHANGED <<handled, conds, h>>
  BY DEF OwnInv, TypeInv, TypeOK, UserChangesCr, UserChangesSecret, UserChangesConfig, Change
<1>1. CASE UserChangesCr
  <2>1. desired'.cr.gen = desired.cr.gen + 1 /\ desired'.secret = desired.secret
    BY <1>0, <1>1, CrChanged DEF Change, Objects
  <2>2. desired'.cr # handled.cr
    BY <2>1, <1>0, Versions DEF CrKept
  <2> QED
    BY <2>1, <2>2, <1>0, Versions DEF CrKept, SecretKept, Owned
<1>2. CASE UserChangesSecret
  <2>1. desired'.secret.ver = desired.secret.ver + 1 /\ desired'.cr = desired.cr
    BY <1>0, <1>2, SecretChanged DEF Change, Objects
  <2>2. desired'.secret # handled.secret
    BY <2>1, <1>0, Versions DEF SecretKept
  <2> QED
    BY <2>1, <2>2, <1>0, Versions DEF CrKept, SecretKept, Owned
<1>3. CASE UserChangesConfig
  <2>1. desired'.secret = desired.secret /\ desired'.cr = desired.cr
    BY <1>0, <1>3, ConfigChanged DEF Change, Objects
  <2> QED
    BY <2>1, <1>0 DEF CrKept, SecretKept, Owned
<1> QED
  BY <1>1, <1>2, <1>3

LEMMA EnvironmentKeeps ==
  ASSUME OwnInv, Environment
  PROVE  CrKept' /\ SecretKept' /\ Owned'
<1>0. CrKept /\ SecretKept /\ Owned /\ TypeInv
  BY DEF OwnInv
<1>1. CASE \E i \in Indices : PodCreated(i) \/ PodUp(i) \/ PodLost(i)
  BY <1>0, <1>1 DEF PodCreated, PodUp, PodLost, objects, CrKept, SecretKept, Owned
<1>2. ASSUME NEW p \in Handlers, Interrupted(p)
      PROVE  CrKept' /\ SecretKept' /\ Owned'
  <2>1. Stops(p) /\ UNCHANGED <<objects, conds>>
    BY <1>2 DEF Interrupted, Stops, Edited
  <2>2. \A r \in Handlers : h'[r].pc = "idle" \/ h'[r] = h[r]
    BY <1>0, <2>1, HandlersAfter
  <2> QED
    BY <1>0, <2>1, <2>2 DEF Handlers, objects, CrKept, SecretKept, Owned
<1>3. CASE MonitorReports
  BY <1>0, <1>3 DEF MonitorReports, objects, CrKept, SecretKept, Owned
<1>4. CASE OperatorRestarts
  <2>1. \A r \in Handlers : h'[r].pc = "idle"
    BY <1>4, IdleType DEF OperatorRestarts
  <2> QED
    BY <1>0, <1>4, <2>1 DEF OperatorRestarts, Handlers, objects, CrKept, SecretKept, Owned
<1> QED
  BY <1>1, <1>2, <1>3, <1>4, ChangeKeeps DEF Environment

LEMMA InitOwns == Init => OwnInv
<1> SUFFICES ASSUME Init PROVE OwnInv
  OBVIOUS
<1>1. TypeInv /\ h["cr"].pc = "idle" /\ h["secret"].pc = "idle"
  BY InitType, IdleType DEF Init, Handlers
<1>2. handled.cr.gen <= desired.cr.gen /\ handled.secret = desired.secret /\ conds # "progress"
  <2>1. CASE Fresh
    <3>1. PICK s \in Shapes : desired = [Installed EXCEPT !.cr = [gen |-> 1, text |-> 1, shape |-> s]]
      BY <2>1 DEF Fresh
    <3> QED
      BY <2>1, <3>1 DEF Fresh, Installed
  <2>2. CASE Deployed
    BY <1>1, <2>2, Versions DEF Deployed, Settled
  <2> QED
    BY <2>1, <2>2 DEF Init, Deployed
<1> QED
  BY <1>1, <1>2, Versions DEF OwnInv, CrKept, SecretKept, Owned

LEMMA OwnStep == OwnInv /\ [Next]_vars => OwnInv'
<1> SUFFICES ASSUME OwnInv, [Next]_vars PROVE OwnInv'
  OBVIOUS
<1>1. CASE UNCHANGED vars
  BY <1>1 DEF OwnInv, CrKept, SecretKept, Owned, TypeInv, TypeOK, HasTodo, HasNext,
     vars, objects, cluster, bounds
<1>2. ASSUME NEW p \in Handlers, HandlerStep(p) PROVE OwnInv'
  BY <1>2, HandlerType, CrKeptStep, SecretKeptStep, OwnedStep DEF OwnInv
<1>3. CASE Environment
  BY <1>3, EnvironmentType, EnvironmentKeeps DEF OwnInv
<1> QED
  BY <1>1, <1>2, <1>3 DEF Next

\* While the status says "In progress", kopf has a change of the CR or of the
\* secret that is not recorded as handled, so that a handler is called again
\* and replaces it, unless users have taken that change back: for any number of
\* pods, users, changes and faults, and wherever handlers are interrupted.
THEOREM ProgressOwned == Spec => []ProgressIsOwned
<1>1. OwnInv => ProgressIsOwned
  BY OwnedMeans DEF OwnInv
<1> QED
  BY <1>1, InitOwns, OwnStep, PTL DEF Spec
----------------------------------------------------------------------------
\* What a step does to the pods: one is taken down, by a handler that reboots
\* or cleans it or by nobody, the StatefulSet loses some, one is created, or
\* one comes up.
Takes(q, i) ==
    /\ TakeDown(q, i)
    /\ \/ q = "none"
       \/ q \in Handlers /\ RebootsPod(q) /\ i = First(h[q].todo)
       \/ q = "cr" /\ CleansPod /\ i = First(h["cr"].todo)

LEMMA PodSteps ==
  ASSUME TypeInv, Next
  PROVE  \/ UNCHANGED pods
         \/ \E i \in Indices, q \in Handlers \cup {"none"} : Takes(q, i)
         \/ Applies
         \/ \E i \in Indices : PodCreated(i) \/ PodUp(i)
<1>1. ASSUME NEW p \in Handlers, RebootsPod(p), ~UNCHANGED pods
      PROVE  \E i \in Indices, q \in Handlers \cup {"none"} : Takes(q, i)
  <2>1. h[p].todo \in SUBSET Indices /\ h[p].todo # {}
    BY <1>1 DEF RebootsPod, TypeInv, TypeOK, HasTodo, HasNext, Handler
  <2>2. First(h[p].todo) \in Indices
    BY <2>1, FirstIn
  <2> QED
    BY <1>1, <2>2 DEF RebootsPod, Takes
<1>2. ASSUME CleansPod
      PROVE  \E i \in Indices, q \in Handlers \cup {"none"} : Takes(q, i)
  <2>1. h["cr"].todo \in SUBSET Indices /\ h["cr"].todo # {} /\ "cr" \in Handlers
    BY <1>2 DEF CleansPod, TypeInv, TypeOK, HasTodo, HasNext, Handlers, Handler
  <2>2. First(h["cr"].todo) \in Indices
    BY <2>1, FirstIn
  <2> QED
    BY <1>2, <2>1, <2>2 DEF CleansPod, Takes
<1>3. ASSUME NEW p \in Handlers, HandlerStep(p), ~UNCHANGED pods
      PROVE  Applies \/ CleansPod \/ RebootsPod(p)
  BY <1>3 DEF HandlerStep, CrStep, SecretStep, CrBegins, FlagsChecked, FlagsEnabled, FlagsFail,
     FlagsRaise, WaitsForTests,
     Rejects, Orphans, CleanRaises, PodsPresent, PodsRunning, PodsNotReady, Enables, EnableRaises,
     CrFinishes, SecretBegins, SecretWaited, ChangesAccount, ChangeRaises, SecretFinishes,
     ConfigBegins, ConfigFinishes, ListsPods, RebootRaises, CheckPasses, CheckFails, Raise, cluster
<1>4. CASE Environment /\ ~\E i \in Indices : PodCreated(i) \/ PodUp(i)
  BY <1>4 DEF Environment, PodLost, Takes, Interrupted, MonitorReports, OperatorRestarts, UserChangesCr,
     UserChangesSecret, UserChangesConfig, Change, cluster
<1> QED
  BY <1>1, <1>2, <1>3, <1>4 DEF Next

\* So a pod is absent after a step, or it was there before and is what it was
\* started as, or it has just been created as the objects ask.
SameStart(i) == pods'[i].secret = pods[i].secret /\ pods'[i].gen = pods[i].gen
Gone(i)  == pods'[i].state = "absent" /\ SameStart(i)
Stays(i) == pods[i].state # "absent" /\ SameStart(i)
Made(i)  == /\ i < sts.replicas /\ pods[i].state = "absent"
            /\ pods'[i].secret = desired.secret /\ pods'[i].gen = sts.gen

LEMMA PodAfter ==
  ASSUME TypeInv, Next, NEW i \in Indices
  PROVE  Gone(i) \/ Stays(i) \/ Made(i)
<1>0. pods \in [Indices -> Pod] /\ pods[i] \in Pod
  BY DEF TypeInv, TypeOK
<1>1. CASE UNCHANGED pods
  BY <1>1 DEF Gone, Stays, SameStart
<1>2. ASSUME NEW j \in Indices, NEW q, TakeDown(q, j) PROVE Gone(i) \/ Stays(i)
  <2>1. CASE i = j
    BY <1>0, <1>2, <2>1 DEF TakeDown, Pod, Gone, SameStart
  <2>2. CASE i # j
    BY <1>0, <1>2, <2>2 DEF TakeDown, Gone, Stays, SameStart
  <2> QED
    BY <2>1, <2>2
<1>3. CASE Applies
  <2>1. \/ pods'[i] = pods[i]
        \/ pods'[i] = [pods[i] EXCEPT !.state = "absent", !.by = "none"]
    BY <1>3 DEF Applies
  <2> QED
    BY <1>0, <2>1 DEF Pod, Gone, Stays, SameStart
<1>4. ASSUME NEW j \in Indices, PodCreated(j) PROVE Gone(i) \/ Stays(i) \/ Made(i)
  <2>1. CASE i = j
    <3>1. pods'[i] = [state |-> "starting", gen |-> sts.gen, by |-> pods[i].by,
                      config |-> desired.config, secret |-> desired.secret]
      BY <1>0, <1>4, <2>1 DEF PodCreated
    <3> QED
      BY <1>4, <2>1, <3>1 DEF PodCreated, Made
  <2>2. CASE i # j
    BY <1>0, <1>4, <2>2 DEF PodCreated, Gone, Stays, SameStart
  <2> QED
    BY <2>1, <2>2
<1>5. ASSUME NEW j \in Indices, PodUp(j) PROVE Gone(i) \/ Stays(i)
  <2>1. CASE i = j
    BY <1>0, <1>5, <2>1 DEF PodUp, Pod, Stays, SameStart
  <2>2. CASE i # j
    BY <1>0, <1>5, <2>2 DEF PodUp, Gone, Stays, SameStart
  <2> QED
    BY <2>1, <2>2
<1> QED
  BY <1>1, <1>2, <1>3, <1>4, <1>5, PodSteps DEF Takes

\* A handler stays where it is while another one takes a step.
LEMMA OthersStay ==
  ASSUME TypeInv, NEW p \in Handlers, HandlerStep(p), NEW r \in Handlers \ {p}
  PROVE  h'[r] = h[r]
BY HandlerKinds, HandlersAfter, EndType, RaiseStops
   DEF Begins, Works, Finishes, Announces, Skips

\* What the environment does to a handler: nothing, or it is interrupted.
LEMMA EnvironmentStops ==
  ASSUME TypeInv, Environment, NEW p \in Handlers
  PROVE  h'[p] = h[p] \/ h'[p].pc = "idle"
<1>1. ASSUME NEW r \in Handlers, Interrupted(r) PROVE h'[p] = h[p] \/ h'[p].pc = "idle"
  BY <1>1, IdleType DEF Interrupted, TypeInv, TypeOK
<1>2. CASE OperatorRestarts
  BY <1>2, IdleType DEF OperatorRestarts
<1> QED
  BY <1>1, <1>2 DEF Environment, PodCreated, PodUp, PodLost, MonitorReports, UserChangesCr,
     UserChangesSecret, UserChangesConfig, Change

\* Users only make objects newer, and nobody else changes them.
LEMMA DesiredGrows ==
  ASSUME TypeInv, Next
  PROVE  /\ desired.cr.gen <= desired'.cr.gen
         /\ desired.secret.ver <= desired'.secret.ver
         /\ desired'.secret.ver = desired.secret.ver => desired'.secret = desired.secret
<1>0. desired \in Objects /\ desired.cr.gen \in Nat /\ desired.secret.ver \in Nat
  BY Versions DEF TypeInv, TypeOK
<1>1. CASE UNCHANGED desired
  BY <1>0, <1>1
<1>2. ASSUME NEW p \in Handlers, HandlerStep(p) PROVE UNCHANGED desired
  BY <1>2, HandlerKinds DEF Begins, Announces, Works, Raise, Finishes, Skips, objects
<1>3. CASE UserChangesCr
  <2>1. desired'.cr.gen = desired.cr.gen + 1 /\ desired'.secret = desired.secret
    BY <1>0, <1>3, CrChanged DEF Change, Objects
  <2> QED
    BY <1>0, <2>1
<1>4. CASE UserChangesSecret
  <2>1. desired'.secret.ver = desired.secret.ver + 1 /\ desired'.cr = desired.cr
    BY <1>0, <1>4, SecretChanged DEF Change, Objects
  <2> QED
    BY <1>0, <2>1
<1>5. CASE UserChangesConfig
  <2>1. desired'.secret = desired.secret /\ desired'.cr = desired.cr
    BY <1>0, <1>5, ConfigChanged DEF Change, Objects
  <2> QED
    BY <1>0, <2>1
<1>6. CASE Environment /\ ~(UserChangesCr \/ UserChangesSecret \/ UserChangesConfig)
  BY <1>1, <1>6 DEF Environment, PodCreated, PodUp, PodLost, Interrupted, MonitorReports,
     OperatorRestarts, objects
<1> QED
  BY <1>1, <1>2, <1>3, <1>4, <1>5, <1>6 DEF Next
----------------------------------------------------------------------------
\* A secret that is no newer than the one users want, and is that one if it is
\* as new: those the pods were started with and those a check has read.
Known(s, newest) == s.ver <= newest.ver /\ (s.ver = newest.ver => s = newest)

PodSecrets == \A i \in Indices : Known(pods[i].secret, desired.secret)

\* While the handler of the secret reboots, a pod was started with what it has
\* read or a later secret, or is still to be rebooted; what its check reads is
\* not older either; in the end none is left and the account is open, unless no
\* pod is up that could have opened it, or the secret has changed again.
SecretRun ==
    LET q == h["secret"]  new == q.seen.secret IN
    /\ q.pc \in {"roll", "check", "finish"} =>
         \A i \in Present : pods[i].secret.ver >= new.ver \/ i \in q.todo
    /\ q.pc = "check"  => q.creds.ver >= new.ver /\ Known(q.creds, desired.secret)
    /\ q.pc = "finish" => q.todo = {}
    /\ q.pc = "finish" /\ Up # {} /\ desired.secret = new =>
         accounts[new.user] = new.password

SecretInv == OwnInv /\ PodSecrets /\ SecretRun

LEMMA KnownStays ==
  ASSUME TypeInv, Next, NEW s \in Secret, Known(s, desired.secret)
  PROVE  Known(s, desired'.secret)
<1>1. /\ s.ver \in Nat /\ desired.secret.ver \in Nat
      /\ desired.secret.ver <= desired'.secret.ver
      /\ desired'.secret.ver = desired.secret.ver => desired'.secret = desired.secret
  BY DesiredGrows, Versions DEF Secret
<1>2. desired'.secret.ver \in Nat
  BY TypeStep DEF TypeInv, TypeOK, Objects, Secret
<1> QED
  BY <1>1, <1>2 DEF Known

LEMMA PodSecretsStep == ASSUME SecretInv, Next PROVE PodSecrets'
<1>0. TypeInv /\ PodSecrets /\ desired.secret \in Secret /\ \A i \in Indices : pods[i].secret \in Secret
  BY Versions DEF SecretInv, OwnInv, TypeInv, TypeOK, Pod
<1>1. ASSUME NEW i \in Indices PROVE Known(pods'[i].secret, desired'.secret)
  <2>1. pods'[i].secret \in {pods[i].secret, desired.secret}
    BY <1>0, PodAfter DEF Gone, Stays, Made, SameStart
  <2>2. Known(pods[i].secret, desired.secret) /\ Known(desired.secret, desired.secret)
    BY <1>0, Versions DEF PodSecrets, Known
  <2> QED
    BY <1>0, <2>1, <2>2, KnownStays
<1> QED
  BY <1>1 DEF PodSecrets

\* The steps after which the handler of the secret is at its reboots.
LEMMA SecretMoves ==
  ASSUME TypeInv, Next
  PROVE  \/ h'["secret"] = h["secret"]
         \/ h'["secret"].pc \in {"idle", "wait", "change", "list"}
         \/ ListsPods("secret") \/ RebootsPod("secret") \/ CheckPasses("secret")
<1>0. "secret" \in Handlers
  BY DEF Handlers
<1>1. CASE Environment
  BY <1>0, <1>1, EnvironmentStops
<1>2. ASSUME NEW p \in Handlers, HandlerStep(p), p # "secret" PROVE h'["secret"] = h["secret"]
  BY <1>0, <1>2, OthersStay
<1>3. CASE HandlerStep("secret")
  <2> DEFINE q == h'["secret"]
  <2>1. CASE Raise("secret") \/ SecretFinishes \/ CheckFails("secret")
    BY <1>0, <2>1, EndType, RaiseStops, HandlersAfter DEF SecretFinishes, CheckFails
  <2>2. CASE SecretBegins
    <3> DEFINE new == [Idle EXCEPT !.pc = "wait", !.seen = desired]
    <3>1. q = new
      BY <1>0, <2>2 DEF SecretBegins, TypeInv, TypeOK
    <3>2. new.pc = "wait"
      BY IdleType DEF Handler
    <3> HIDE DEF new
    <3> QED
      BY <3>1, <3>2
  <2>3. ASSUME NEW pc \in {"change", "list"}, Goto("secret", pc) PROVE q.pc = pc
    BY <1>0, <2>3 DEF Goto, TypeInv, TypeOK, Handler
  <2> QED
    BY <1>3, <2>1, <2>2, <2>3
       DEF HandlerStep, SecretStep, SecretWaited, ChangesAccount, ChangeRaises, RebootRaises
<1> QED
  BY <1>1, <1>2, <1>3 DEF Next

\* Accounts change by the command in the first pod and when a pod comes up.
LEMMA AccountSteps ==
  ASSUME Next
  PROVE  UNCHANGED accounts \/ ChangesAccount \/ \E i \in Indices : PodUp(i)
BY DEF Next, Environment, HandlerStep, CrStep, SecretStep, CrBegins, FlagsChecked, FlagsEnabled, FlagsFail,
   FlagsRaise, WaitsForTests, Rejects, Orphans, Applies, CleansPod, CleanRaises, PodsPresent, PodsRunning,
   PodsNotReady, Enables, EnableRaises, CrFinishes, SecretBegins, SecretWaited, ChangeRaises,
   SecretFinishes, ConfigBegins, ConfigFinishes, ListsPods, RebootsPod, RebootRaises, CheckPasses,
   CheckFails, Raise, PodCreated, PodLost, Interrupted, MonitorReports, OperatorRestarts,
   UserChangesCr, UserChangesSecret, UserChangesConfig, Change, cluster

\* Only a pod that comes up makes the set of those that are up larger.
LEMMA UpGrows ==
  ASSUME TypeInv, Next, ~\E i \in Indices : PodUp(i)
  PROVE  Up' \subseteq Up
<1>0. pods \in [Indices -> Pod]
  BY DEF TypeInv, TypeOK
<1>1. ASSUME NEW j \in Indices, NEW q, TakeDown(q, j) PROVE Up' \subseteq Up
  <2>1. \A i \in Indices : pods'[i].state = "absent" \/ pods'[i] = pods[i]
    BY <1>0, <1>1 DEF TakeDown, Pod
  <2> QED
    BY <2>1 DEF Up
<1>2. CASE Applies
  <2>1. \A i \in Indices : pods'[i].state = "absent" \/ pods'[i] = pods[i]
    BY <1>0, <1>2 DEF Applies, Pod
  <2> QED
    BY <2>1 DEF Up
<1>3. ASSUME NEW j \in Indices, PodCreated(j) PROVE Up' \subseteq Up
  <2>1. \A i \in Indices : pods'[i].state = "starting" \/ pods'[i] = pods[i]
    BY <1>0, <1>3 DEF PodCreated
  <2> QED
    BY <2>1 DEF Up
<1>4. CASE UNCHANGED pods
  BY <1>4 DEF Up
<1> QED
  BY <1>1, <1>2, <1>3, <1>4, PodSteps DEF Takes

\* A step of somebody else, and an account that is open stays open.
LEMMA SecretUndisturbed ==
  ASSUME SecretInv, Next, h'["secret"] = h["secret"]
  PROVE  SecretRun'
<1> DEFINE q == h["secret"]
           new == q.seen.secret
<1>0. /\ TypeInv /\ PodSecrets /\ SecretKept /\ SecretRun /\ q \in Handler
      /\ \A i \in Indices : pods[i] \in Pod
  BY DEF SecretInv, OwnInv, TypeInv, TypeOK, Handlers
<1>1. /\ new \in Secret /\ q.creds \in Secret /\ desired.secret \in Secret
      /\ new.ver \in Nat /\ desired.secret.ver \in Nat /\ desired'.secret.ver >= desired.secret.ver
  <2>1. new \in Secret /\ q.creds \in Secret
    BY <1>0 DEF Handler, Objects
  <2> QED
    BY <1>0, <2>1, Versions, DesiredGrows DEF Secret
<1>2. q.pc # "idle" => new.ver <= desired.secret.ver
  BY <1>0 DEF SecretKept
<1>3. ASSUME q.pc \in {"roll", "check", "finish"}, NEW i \in Present'
      PROVE  pods'[i].secret.ver >= new.ver \/ i \in q.todo
  <2>1. i \in Indices /\ pods'[i].state # "absent"
    BY DEF Present
  <2>2. CASE Stays(i)
    BY <1>0, <1>3, <2>1, <2>2 DEF Stays, SameStart, Present, SecretRun
  <2>3. CASE Made(i)
    BY <1>1, <1>2, <1>3, <2>3 DEF Made
  <2> QED
    BY <1>0, <2>1, <2>2, <2>3, PodAfter DEF Gone
<1>4. q.pc = "check" => q.creds.ver >= new.ver /\ Known(q.creds, desired'.secret)
  <2>1. q.pc = "check" => q.creds.ver >= new.ver /\ Known(q.creds, desired.secret)
    BY <1>0 DEF SecretRun
  <2> QED
    BY <1>0, <1>1, <2>1, KnownStays
<1>5. ASSUME q.pc = "finish", Up' # {}, desired'.secret = new
      PROVE  accounts'[new.user] = new.password
  <2>1. desired.secret = new
    <3>1. desired.secret.ver = new.ver
      BY <1>1, <1>2, <1>5
    <3> QED
      BY <1>0, <1>5, <3>1 DEF SecretKept
  <2>2. \A i \in Present : pods[i].secret = new
    <3>1. \A i \in Present : pods[i].secret.ver >= new.ver /\ Known(pods[i].secret, desired.secret)
      BY <1>0, <1>5 DEF SecretRun, PodSecrets, Present
    <3>2. \A i \in Present : pods[i].secret.ver \in Nat
      BY <1>0 DEF Present, Pod, Secret
    <3> QED
      BY <1>1, <2>1, <3>1, <3>2 DEF Known
  <2>3. ASSUME NEW i \in Indices, PodUp(i) PROVE accounts'[new.user] = new.password
    <3>1. pods[i].secret = new
      BY <2>2, <2>3 DEF PodUp, Present
    <3>2. accounts' = [accounts EXCEPT ![new.user] = new.password]
      BY <2>3, <3>1 DEF PodUp
    <3> QED
      BY <1>0, <1>1, <3>2 DEF TypeInv, TypeOK, Secret
  <2>4. CASE ~\E i \in Indices : PodUp(i)
    <3>1. Up # {}
      BY <1>0, <1>5, <2>4, UpGrows
    <3>2. accounts' = accounts
      BY <1>5, <2>4, AccountSteps DEF ChangesAccount
    <3> QED
      BY <1>0, <1>5, <2>1, <3>1, <3>2 DEF SecretRun
  <2> QED
    BY <2>3, <2>4
<1>6. q.pc = "finish" => q.todo = {}
  BY <1>0 DEF SecretRun
<1> QED
  BY <1>3, <1>4, <1>5, <1>6 DEF SecretRun

\* The handler's own steps.
LEMMA SecretRunStep == ASSUME SecretInv, Next PROVE SecretRun'
<1> DEFINE q == h["secret"]
           new == q.seen.secret
<1>0. /\ TypeInv /\ SecretKept /\ SecretRun /\ PodSecrets /\ q \in Handler /\ "secret" \in Handlers
      /\ pods \in [Indices -> Pod]
  BY DEF SecretInv, OwnInv, TypeInv, TypeOK, Handlers
<1>1. /\ new.ver \in Nat /\ desired.secret.ver \in Nat /\ desired.secret \in Secret
      /\ q.pc # "idle" => new.ver <= desired.secret.ver /\ (new.ver = desired.secret.ver => new = desired.secret)
  BY <1>0, Versions DEF SecretKept
<1>2. CASE h'["secret"].pc \in {"idle", "wait", "change", "list"}
  BY <1>2 DEF SecretRun
<1>3. CASE ListsPods("secret")
  <2> DEFINE pc == IF Present = {} THEN "finish" ELSE "roll"
  <2>1. h' = [h EXCEPT !["secret"].todo = Present, !["secret"].pc = pc]
        /\ UNCHANGED <<desired, pods, accounts>>
    BY <1>3 DEF ListsPods, objects, cluster
  <2>2. pc = "finish" => Present = {} /\ Up = {}
    BY DEF Present, Up
  <2>3. pc \in {"finish", "roll"}
    OBVIOUS
  <2> HIDE DEF pc
  <2>4. h'["secret"] = [q EXCEPT !.todo = Present, !.pc = pc]
    BY <1>0, <2>1 DEF TypeInv, TypeOK
  <2>5. h'["secret"].todo = Present /\ h'["secret"].pc = pc
    BY <1>0, <2>4 DEF Handler
  <2>6. Present' = Present /\ Up' = Up
    BY <2>1 DEF Present, Up
  <2> QED
    BY <2>2, <2>3, <2>5, <2>6 DEF SecretRun
<1>4. CASE RebootsPod("secret")
  <2> DEFINE i == First(q.todo)
  <2>1. /\ q.pc = "roll" /\ TakeDown("secret", i) /\ UNCHANGED desired
        /\ h' = [h EXCEPT !["secret"].pc = "check", !["secret"].todo = @ \ {i},
                         !["secret"].taken = @ \cup {i}, !["secret"].creds = desired.secret]
    BY <1>4 DEF RebootsPod, objects
  <2>2. i \in Indices
    BY <1>0, <2>1, FirstIn DEF TypeInv, HasTodo, HasNext, Handler
  <2> HIDE DEF i
  <2>3. h'["secret"] = [q EXCEPT !.pc = "check", !.todo = @ \ {i}, !.taken = @ \cup {i}, !.creds = desired.secret]
    BY <1>0, <2>1 DEF TypeInv, TypeOK
  <2>4. /\ h'["secret"].pc = "check" /\ h'["secret"].todo = q.todo \ {i}
        /\ h'["secret"].creds = desired.secret /\ h'["secret"].seen = q.seen
    BY <1>0, <2>3 DEF Handler
  <2>5. Present' = Present \ {i} /\ \A j \in Present' : pods'[j] = pods[j]
    BY <1>0, <2>1, <2>2 DEF TakeDown, Present, Pod
  <2>6. \A j \in Present : pods[j].secret.ver >= new.ver \/ j \in q.todo
    BY <1>0, <2>1 DEF SecretRun
  <2>7. desired.secret.ver >= new.ver /\ Known(desired.secret, desired'.secret)
    BY <1>1, <2>1 DEF Known
  <2> QED
    BY <2>4, <2>5, <2>6, <2>7 DEF SecretRun
<1>5. CASE CheckPasses("secret")
  <2> DEFINE pc == IF q.todo # {} THEN "roll" ELSE "finish"
             steady == q.steady /\ q.seen.cr.shape.replicas = sts.replicas
  <2>1. /\ q.pc = "check" /\ Alive("secret") /\ UNCHANGED <<desired, pods, accounts>>
        /\ h' = [h EXCEPT !["secret"].pc = pc, !["secret"].steady = steady]
    BY <1>5 DEF CheckPasses, GoesOn, AfterReboots, objects, cluster
  <2>2. pc \in {"roll", "finish"} /\ (pc = "finish" => q.todo = {})
    OBVIOUS
  <2> HIDE DEF pc, steady
  <2>3. h'["secret"] = [q EXCEPT !.pc = pc, !.steady = steady]
    BY <1>0, <2>1 DEF TypeInv, TypeOK
  <2>4. h'["secret"].pc = pc /\ h'["secret"].todo = q.todo /\ h'["secret"].seen = q.seen
    BY <1>0, <2>3 DEF Handler
  <2>5. Present' = Present /\ Up' = Up
    BY <2>1 DEF Present, Up
  <2>6. /\ \A i \in Present : pods[i].secret.ver >= new.ver \/ i \in q.todo
        /\ q.creds.ver >= new.ver /\ Known(q.creds, desired.secret)
    BY <1>0, <2>1 DEF SecretRun
  <2>7. desired.secret = new =>
         accounts[new.user] = new.password
    <3>1. accounts[q.creds.user] = q.creds.password
      BY <2>1 DEF Alive
    <3>2. q.creds.ver \in Nat
      BY <1>0 DEF Handler, Secret
    <3> QED
      BY <1>1, <2>6, <3>1, <3>2 DEF Known
  <2> QED
    BY <2>1, <2>2, <2>4, <2>5, <2>6, <2>7 DEF SecretRun
<1> QED
  BY <1>0, <1>2, <1>3, <1>4, <1>5, SecretMoves, SecretUndisturbed

LEMMA InitSecret == Init => SecretInv
<1> SUFFICES ASSUME Init PROVE SecretInv
  OBVIOUS
<1>1. OwnInv /\ h["secret"].pc = "idle"
  BY InitOwns, IdleType DEF Init, Handlers
<1>2. desired.secret = Installed.secret /\ Installed.secret \in Secret
  BY InstalledType DEF Init, Fresh, Settled, Objects
<1>3. \A i \in Indices : pods[i].secret = Installed.secret
  <2> DEFINE up == [NoPod EXCEPT !.state = "up", !.gen = 1]
  <2>1. NoPod.secret = Installed.secret /\ up.secret = Installed.secret
    BY DEF NoPod
  <2>2. \A i \in Indices : pods[i] = NoPod \/ pods[i] = up
    BY DEF Init, Fresh, Settled
  <2> HIDE DEF up
  <2> QED
    BY <2>1, <2>2
<1> QED
  BY <1>1, <1>2, <1>3 DEF SecretInv, PodSecrets, Known, SecretRun, Secret

\* When on_update_secret is about to report a changed secret as done, every pod
\* was started with it or a later one, and unless it has changed again the
\* broker opens to it: whatever other handlers, pods and users do meanwhile.
THEOREM SecretEffective == Spec => []SecretTakesEffect
<1>1. SecretInv /\ [Next]_vars => SecretInv'
  <2> SUFFICES ASSUME SecretInv, [Next]_vars PROVE SecretInv'
    OBVIOUS
  <2>1. OwnInv'
    BY OwnStep DEF SecretInv
  <2>2. CASE UNCHANGED vars
    BY <2>1, <2>2 DEF SecretInv, PodSecrets, SecretRun, Present, Up, vars, objects, cluster, bounds
  <2>3. CASE Next
    BY <2>1, <2>3, PodSecretsStep, SecretRunStep DEF SecretInv
  <2> QED
    BY <2>2, <2>3
<1>2. SecretInv => SecretTakesEffect
  BY DEF SecretInv, SecretRun, SecretTakesEffect
<1> QED
  BY <1>1, <1>2, InitSecret, PTL DEF Spec
----------------------------------------------------------------------------
\* The pods that a run of p has rebooted and nobody else since, not up again,
\* as far as the handler knows the cluster.
Own(p) == {i \in h[p].taken : i < h[p].seen.cr.shape.replicas
                              /\ pods[i].by = p /\ pods[i].state # "up"}

\* A StatefulSet with replicas has no pods beyond them.
SetPods == sts.replicas > 0 => \A i \in Present : i < sts.replicas

\* Nothing is rebooted before the StatefulSet is as the CR asks; and as long as
\* each check was made with the replicas the handler knows, it has at most one
\* pod down, and that only until the check that follows.
Early == {"flags", "exec", "apply", "create", "clean"}
Rolls(p) ==
    /\ h[p].steady /\ h[p].pc # "check" => Own(p) = {}
    /\ h[p].steady => \A i, j \in Own(p) : i = j
    /\ h[p].pc \in Early => h[p].taken = {}

RollInv == TypeInv /\ SetPods /\ \A p \in Handlers : Rolls(p)

LEMMA StsSteps == ASSUME Next PROVE UNCHANGED sts \/ Orphans \/ Applies
BY DEF Next, Environment, HandlerStep, CrStep, SecretStep, CrBegins, FlagsChecked, FlagsEnabled, FlagsFail,
   FlagsRaise, WaitsForTests, Rejects, CleansPod, CleanRaises, PodsPresent, PodsRunning, ChangesAccount,
   PodsNotReady, Enables, EnableRaises, CrFinishes, SecretBegins, SecretWaited, ChangeRaises,
   SecretFinishes, ConfigBegins, ConfigFinishes, ListsPods, RebootsPod, RebootRaises, CheckPasses,
   CheckFails, Raise, PodCreated, PodUp, PodLost, Interrupted, MonitorReports, OperatorRestarts,
   UserChangesCr, UserChangesSecret, UserChangesConfig, Change, cluster

LEMMA SetPodsStep == ASSUME TypeInv, SetPods, Next PROVE SetPods'
<1>1. CASE UNCHANGED sts
  <2>1. ASSUME NEW i \in Present', sts.replicas > 0 PROVE i < sts.replicas
    <3>1. i \in Indices /\ (i \in Present \/ i < sts.replicas)
      BY PodAfter DEF Present, Gone, Stays, Made
    <3> QED
      BY <2>1, <3>1 DEF SetPods
  <2> QED
    BY <1>1, <2>1 DEF SetPods
<1>2. CASE Orphans
  BY <1>2 DEF Orphans, NoSet, SetPods
<1>3. CASE Applies
  <2> DEFINE n == h["cr"].seen.cr.shape.replicas
  <2>1. sts'.replicas = n
    BY <1>3 DEF Applies
  <2>2. \A i \in Indices : i < n \/ pods'[i].state = "absent"
    BY <1>3 DEF Applies, TypeInv, TypeOK, Pod
  <2> QED
    BY <2>1, <2>2 DEF SetPods, Present
<1> QED
  BY <1>1, <1>2, <1>3, StsSteps

\* Who has deleted a pod that is not up.
LEMMA DownPods ==
  ASSUME TypeInv, Next, NEW p \in Handlers, NEW i \in Indices,
         pods'[i].by = p, pods'[i].state # "up",
         ~RebootsPod(p), ~(p = "cr" /\ CleansPod)
  PROVE  pods[i].by = p /\ pods[i].state # "up"
<1>0. pods \in [Indices -> Pod] /\ pods[i] \in Pod /\ p # "none"
  BY DEF TypeInv, TypeOK, Handlers
<1>1. CASE UNCHANGED pods
  BY <1>1
<1>2. ASSUME NEW j \in Indices, NEW q, Takes(q, j) PROVE pods[i].by = p /\ pods[i].state # "up"
  <2>1. q # p
    BY <1>0, <1>2 DEF Takes
  <2>2. CASE i = j
    <3>1. pods'[i].by = q
      BY <1>0, <1>2, <2>2 DEF Takes, TakeDown, Pod
    <3> QED
      BY <2>1, <3>1
  <2>3. CASE i # j
    BY <1>0, <1>2, <2>3 DEF Takes, TakeDown
  <2> QED
    BY <2>2, <2>3
<1>3. CASE Applies
  <2>1. \/ pods'[i] = pods[i]
        \/ pods'[i] = [pods[i] EXCEPT !.state = "absent", !.by = "none"]
    BY <1>3 DEF Applies
  <2>2. [pods[i] EXCEPT !.state = "absent", !.by = "none"].by = "none"
    BY <1>0 DEF Pod
  <2> QED
    BY <1>0, <2>1, <2>2
<1>4. ASSUME NEW j \in Indices, PodCreated(j) PROVE pods[i].by = p /\ pods[i].state # "up"
  <2>1. CASE i = j
    <3>1. pods'[i] = [state |-> "starting", gen |-> sts.gen, by |-> pods[i].by,
                      config |-> desired.config, secret |-> desired.secret]
      BY <1>0, <1>4, <2>1 DEF PodCreated
    <3> QED
      BY <1>4, <2>1, <3>1 DEF PodCreated
  <2>2. CASE i # j
    BY <1>0, <1>4, <2>2 DEF PodCreated
  <2> QED
    BY <2>1, <2>2
<1>5. ASSUME NEW j \in Indices, PodUp(j) PROVE pods[i].by = p /\ pods[i].state # "up"
  BY <1>0, <1>5 DEF PodUp, Pod
<1> QED
  BY <1>1, <1>2, <1>3, <1>4, <1>5, PodSteps

\* What a step of a handler leaves of its reboots.
Forgets(p) == h'[p].taken = {}
Moves(p) ==
    /\ h'[p].taken = h[p].taken /\ h'[p].steady = h[p].steady /\ h'[p].seen = h[p].seen
    /\ \/ h'[p].pc = h[p].pc
       \/ h[p].pc # "check" /\ (h'[p].pc \in Early => h[p].pc \in Early)

LEMMA IdleTakes == Idle.taken = {}
BY DEF Idle

LEMMA GotoMoves ==
  ASSUME TypeInv, NEW p \in Handlers, NEW pc, Goto(p, pc), h[p].pc # "check",
         pc \in Early => h[p].pc \in Early
  PROVE  Moves(p)
<1>1. h[p] \in Handler /\ h'[p] = [h[p] EXCEPT !.pc = pc]
  BY DEF Goto, TypeInv, TypeOK
<1> QED
  BY <1>1 DEF Moves, Handler

LEMMA CrMoves ==
  ASSUME TypeInv, CrStep
  PROVE  Forgets("cr") \/ Moves("cr")
<1> DEFINE q == h["cr"]
<1>0. "cr" \in Handlers /\ q \in Handler /\ h \in [Handlers -> Handler]
  BY DEF TypeInv, TypeOK, Handlers
<1>1. CASE CrBegins
  <2> DEFINE pc == IF Updating /\ sts.gen > 0 THEN "flags" ELSE "apply"
             was == sts.replicas
             existed == sts.gen > 0
  <2>1. h' = [h EXCEPT !["cr"] = [Idle EXCEPT !.pc = pc, !.seen = desired, !.old = Present,
                                              !.was = was, !.existed = existed]]
    BY <1>1 DEF CrBegins
  <2>2. h["cr"].pc = "idle"
    BY <1>1 DEF CrBegins
  <2> HIDE DEF pc, was, existed
  <2>3. h'["cr"] = [Idle EXCEPT !.pc = pc, !.seen = desired, !.old = Present,
                                !.was = was, !.existed = existed]
    BY <2>1, <1>0
  <2>4. h'["cr"].taken = {}
    BY <2>3, IdleType, IdleTakes DEF Handler
  <2> QED
    BY <2>2, <2>4 DEF Forgets
<1>2. CASE WaitsForTests \/ Orphans \/ PodsPresent \/ Enables
  BY <1>0, <1>2, GotoMoves DEF WaitsForTests, Orphans, PodsPresent, Enables, Early
<1>3. CASE Applies
  <2>1. q.pc \in {"apply", "create"}
    BY <1>3 DEF Applies
  <2>2. ASSUME NEW pc, NEW todo, h' = [h EXCEPT !["cr"].pc = pc, !["cr"].todo = todo]
        PROVE  Moves("cr")
    <3>1. h'["cr"] = [q EXCEPT !.pc = pc, !.todo = todo]
      BY <2>2, <1>0
    <3> QED
      BY <3>1, <2>1, <1>0 DEF Moves, Handler, Early
  <2> QED
    BY <1>0, <1>3, <2>1, <2>2, GotoMoves DEF Applies, Early
<1>4. CASE CleansPod
  <2> DEFINE todo == q.todo \ {First(q.todo)}
             pc == IF q.todo = {First(q.todo)} THEN "present" ELSE "clean"
  <2>1. q.pc = "clean" /\ h' = [h EXCEPT !["cr"].todo = todo, !["cr"].pc = pc]
    BY <1>4 DEF CleansPod
  <2> HIDE DEF todo, pc
  <2>2. h'["cr"] = [q EXCEPT !.todo = todo, !.pc = pc]
    BY <2>1, <1>0
  <2> QED
    BY <2>1, <2>2, <1>0 DEF Moves, Handler, Early
<1>5. CASE PodsRunning
  <2> DEFINE pc == IF q.seen.cr.shape.reboot THEN "enable" ELSE "check"
  <2>1. q.pc = "running" /\ h' = [h EXCEPT !["cr"].creds = desired.secret, !["cr"].pc = pc]
    BY <1>5 DEF PodsRunning
  <2>2. pc \in {"enable", "check"}
    OBVIOUS
  <2> HIDE DEF pc
  <2>3. h'["cr"] = [q EXCEPT !.creds = desired.secret, !.pc = pc]
    BY <2>1, <1>0
  <2> QED
    BY <2>1, <2>2, <2>3, <1>0 DEF Moves, Handler, Early
<1>6. ASSUME Stops("cr") PROVE Forgets("cr")
  BY <1>0, <1>6, IdleTakes, IdleType DEF Stops, Edited, Forgets
<1>7. CASE \/ FlagsFail \/ FlagsRaise \/ Rejects \/ CleanRaises \/ PodsNotReady
           \/ EnableRaises \/ CrFinishes
  BY <1>0, <1>6, <1>7, EndType, RaiseStops
     DEF FlagsFail, FlagsRaise, Rejects, CleanRaises, PodsNotReady, EnableRaises, CrFinishes
<1>8. CASE FlagsChecked
  <2> DEFINE pc == IF Present = {} THEN "apply" ELSE "exec"
  <2>1. q.pc = "flags" /\ h' = [h EXCEPT !["cr"].todo = Present, !["cr"].pc = pc]
    BY <1>8 DEF FlagsChecked
  <2> HIDE DEF pc
  <2>2. h'["cr"] = [q EXCEPT !.todo = Present, !.pc = pc]
    BY <2>1, <1>0
  <2> QED
    BY <2>1, <2>2, <1>0 DEF Moves, Handler, Early
<1>9. CASE FlagsEnabled
  <2> DEFINE todo == q.todo \ {First(q.todo)}
             pc == IF q.todo = {First(q.todo)} THEN "apply" ELSE "exec"
  <2>1. q.pc = "exec" /\ h' = [h EXCEPT !["cr"].todo = todo, !["cr"].pc = pc]
    BY <1>9 DEF FlagsEnabled
  <2> HIDE DEF todo, pc
  <2>2. h'["cr"] = [q EXCEPT !.todo = todo, !.pc = pc]
    BY <2>1, <1>0
  <2> QED
    BY <2>1, <2>2, <1>0 DEF Moves, Handler, Early
<1> QED
  BY <1>1, <1>2, <1>3, <1>4, <1>5, <1>7, <1>8, <1>9 DEF CrStep

LEMMA RollMoves ==
  ASSUME TypeInv, Next, NEW p \in Handlers, ~RebootsPod(p), ~CheckPasses(p)
  PROVE  Forgets(p) \/ Moves(p)
<1>0. h[p] \in Handler /\ h \in [Handlers -> Handler]
  BY DEF TypeInv, TypeOK
<1>1. ASSUME Stops(p) PROVE Forgets(p)
  BY <1>0, <1>1, IdleTakes, IdleType DEF Stops, Edited, Forgets
<1>2. CASE Environment
  <2>1. ASSUME NEW r \in Handlers, Interrupted(r) PROVE Forgets(p) \/ Moves(p)
    BY <1>0, <2>1, IdleType, IdleTakes DEF Interrupted, Forgets, Moves
  <2>2. CASE OperatorRestarts
    BY <2>2, IdleType, IdleTakes DEF OperatorRestarts, Forgets
  <2> QED
    BY <1>2, <2>1, <2>2 DEF Environment, PodCreated, PodUp, PodLost, MonitorReports,
       UserChangesCr, UserChangesSecret, UserChangesConfig, Change, Moves
<1>3. ASSUME NEW r \in Handlers, HandlerStep(r), r # p PROVE Moves(p)
  BY <1>3, OthersStay DEF Moves
<1>4. CASE HandlerStep(p)
  <2>1. ASSUME NEW pc, h[p].pc = "idle", h' = [h EXCEPT ![p] = [Idle EXCEPT !.pc = pc, !.seen = desired]]
        PROVE  Forgets(p)
    <3>1. h'[p] = [Idle EXCEPT !.pc = pc, !.seen = desired]
      BY <1>0, <2>1
    <3>2. h'[p].taken = {}
      BY <3>1, IdleType, IdleTakes DEF Handler
    <3> QED
      BY <2>1, <3>2 DEF Forgets
  <2>2. CASE SecretBegins /\ p = "secret"
    BY <2>1, <2>2 DEF SecretBegins
  <2>3. CASE ConfigBegins /\ p = "config"
    BY <2>1, <2>3 DEF ConfigBegins, Moves
  <2>4. CASE p = "secret" /\ (SecretWaited \/ ChangesAccount)
    BY <2>4, GotoMoves DEF SecretWaited, ChangesAccount, Early
  <2>5. CASE ListsPods(p)
    <3> DEFINE pc == IF Present = {} THEN "finish" ELSE "roll"
    <3>1. h[p].pc = "list" /\ h' = [h EXCEPT ![p].todo = Present, ![p].pc = pc]
      BY <2>5 DEF ListsPods
    <3>2. pc \in {"finish", "roll"}
      OBVIOUS
    <3> HIDE DEF pc
    <3>3. h'[p] = [h[p] EXCEPT !.todo = Present, !.pc = pc]
      BY <1>0, <3>1
    <3> QED
      BY <1>0, <3>1, <3>2, <3>3 DEF Moves, Handler, Early
  <2>6. CASE \/ Raise(p) \/ CheckFails(p)
             \/ p = "secret" /\ SecretFinishes
             \/ p = "config" /\ ConfigFinishes
    BY <1>1, <2>6, EndType, RaiseStops DEF CheckFails, SecretFinishes, ConfigFinishes
  <2> QED
    BY <1>4, <2>2, <2>3, <2>4, <2>5, <2>6, CrMoves
       DEF HandlerStep, SecretStep, ChangeRaises, RebootRaises
<1> QED
  BY <1>2, <1>3, <1>4 DEF Next

\* When every check was made with the replicas of the StatefulSet, a check that
\* passes means that all its pods are up.
LEMMA AllUp ==
  ASSUME TypeInv, SetPods, NEW p \in Handlers, Alive(p),
         h[p].seen.cr.shape.replicas = sts.replicas
  PROVE  Own(p) = {}
<1> DEFINE n == h[p].seen.cr.shape.replicas
           all == 0..(n - 1)
<1>1. n \in 1..MaxPods /\ n = sts.replicas /\ MaxPods \in Nat
  BY ReconcileAssumption DEF TypeInv, TypeOK, Handler, Objects, CR, Shape
<1> HIDE DEF n
<1>2. Up \subseteq all
  <2>1. \A i \in Up : i \in Indices /\ i < n
    BY <1>1 DEF Up, Present, SetPods
  <2> QED
    BY <1>1, <2>1, ReconcileAssumption DEF Indices
<1>3. IsFiniteSet(all) /\ Cardinality(all) = n
  BY <1>1, FS_Interval
<1>4. Cardinality(Up) = n
  BY DEF Alive, n
<1>5. Up = all
  BY <1>2, <1>3, <1>4, FS_Subset
<1>6. h[p].taken \subseteq Indices
  BY DEF TypeInv, TypeOK, Handler
<1> QED
  BY <1>1, <1>5, <1>6, ReconcileAssumption DEF Own, Up, Indices, n

LEMMA RollsStep ==
  ASSUME RollInv, Next, NEW p \in Handlers
  PROVE  Rolls(p)'
<1>0. /\ TypeInv /\ SetPods /\ Rolls(p) /\ h[p] \in Handler /\ h \in [Handlers -> Handler]
      /\ pods \in [Indices -> Pod] /\ h[p].taken \subseteq Indices
  BY DEF RollInv, TypeInv, TypeOK, Handler
<1>1. CASE RebootsPod(p)
  <2> DEFINE i == First(h[p].todo)
  <2>1. /\ h[p].pc = "roll" /\ (UNCHANGED pods \/ TakeDown(p, i))
        /\ h' = [h EXCEPT ![p].pc = "check", ![p].todo = @ \ {i},
                         ![p].taken = @ \cup {i}, ![p].creds = desired.secret]
    BY <1>1 DEF RebootsPod
  <2> HIDE DEF i
  <2>2. h'[p] = [h[p] EXCEPT !.pc = "check", !.todo = @ \ {i}, !.taken = @ \cup {i}, !.creds = desired.secret]
    BY <1>0, <2>1
  <2>3. /\ h'[p].pc = "check" /\ h'[p].taken = h[p].taken \cup {i}
        /\ h'[p].seen = h[p].seen /\ h'[p].steady = h[p].steady
    BY <1>0, <2>2 DEF Handler
  <2>4. \A j \in Indices : j # i => pods'[j] = pods[j]
    BY <1>0, <2>1 DEF TakeDown
  <2>5. h[p].steady => \A j \in Own(p)' : j = i
    BY <1>0, <2>1, <2>3, <2>4 DEF Rolls, Own
  <2> QED
    BY <2>3, <2>5 DEF Rolls, Early
<1>2. CASE CheckPasses(p)
  <2> DEFINE pc == IF h[p].todo # {} THEN "roll" ELSE AfterReboots(p)
             steady == h[p].steady /\ h[p].seen.cr.shape.replicas = sts.replicas
  <2>1. /\ Alive(p) /\ UNCHANGED pods
        /\ h' = [h EXCEPT ![p].pc = pc, ![p].steady = steady]
    BY <1>2 DEF CheckPasses, GoesOn, cluster
  <2>2. pc \in {"roll", "enable", "finish"}
    BY DEF AfterReboots
  <2>3. steady => Own(p) = {}
    BY <1>0, <2>1, AllUp
  <2> HIDE DEF pc, steady
  <2>4. h'[p] = [h[p] EXCEPT !.pc = pc, !.steady = steady]
    BY <1>0, <2>1
  <2>5. /\ h'[p].pc = pc /\ h'[p].steady = steady
        /\ h'[p].taken = h[p].taken /\ h'[p].seen = h[p].seen
    BY <1>0, <2>4 DEF Handler
  <2> QED
    BY <2>1, <2>2, <2>3, <2>5 DEF Rolls, Own, Early
<1>3. CASE Forgets(p)
  BY <1>3 DEF Forgets, Rolls, Own
<1>4. CASE p = "cr" /\ CleansPod
  <2>1. h[p].taken = {} /\ (Moves(p) \/ Forgets(p))
    BY <1>0, <1>4, CrMoves DEF CleansPod, Rolls, Early, CrStep
  <2> QED
    BY <1>3, <2>1 DEF Moves, Rolls, Own
<1>5. CASE Moves(p) /\ ~RebootsPod(p) /\ ~(p = "cr" /\ CleansPod)
  <2>1. /\ h'[p].taken = h[p].taken /\ h'[p].steady = h[p].steady /\ h'[p].seen = h[p].seen
        /\ h'[p].pc # "check" => h[p].pc # "check"
        /\ h'[p].pc \in Early => h[p].pc \in Early
    BY <1>5 DEF Moves
  <2>2. Own(p)' \subseteq Own(p)
    BY <1>0, <1>5, <2>1, DownPods DEF Own
  <2> QED
    BY <1>0, <2>1, <2>2 DEF Rolls
<1> QED
  BY <1>0, <1>1, <1>2, <1>3, <1>4, <1>5, RollMoves

LEMMA InitRolls == Init => RollInv
<1> SUFFICES ASSUME Init PROVE RollInv
  OBVIOUS
<1>1. TypeInv /\ \A p \in Handlers : h[p].taken = {}
  BY InitType, IdleTakes DEF Init
<1>2. SetPods
  <2>1. CASE Fresh
    BY <2>1 DEF Fresh, NoSet, SetPods
  <2>2. CASE Deployed
    <3>1. PICK n : /\ sts.replicas = n
                   /\ \A i \in Indices : i < n \/ pods[i] = NoPod
      BY <2>2 DEF Deployed, Settled
    <3> QED
      BY <3>1 DEF SetPods, Present, NoPod
  <2> QED
    BY <2>1, <2>2 DEF Init, Deployed
<1> QED
  BY <1>1, <1>2 DEF RollInv, Rolls, Own

\* reboot_pods takes a pod down only when those it took down before are up
\* again, although it relies on the number of running nodes alone: for any
\* number of pods, as long as the StatefulSet has the replicas the handler
\* knows and had them whenever a check of it passed.
THEOREM SteadyRolling == Spec => []SteadyRolls
<1>1. RollInv /\ [Next]_vars => RollInv'
  <2> SUFFICES ASSUME RollInv, [Next]_vars PROVE RollInv'
    OBVIOUS
  <2>1. TypeInv'
    BY TypeStep DEF RollInv
  <2>2. CASE UNCHANGED vars
    BY <2>1, <2>2 DEF RollInv, SetPods, Rolls, Own, Present, vars, cluster
  <2>3. CASE Next
    BY <2>1, <2>3, SetPodsStep, RollsStep DEF RollInv
  <2> QED
    BY <2>2, <2>3
<1>2. RollInv => SteadyRolls
  <2> SUFFICES ASSUME RollInv, NEW p \in Handlers, h[p].steady,
                      h[p].seen.cr.shape.replicas = sts.replicas
               PROVE  Cardinality(DownBy(p)) <= 1
    BY DEF SteadyRolls
  <2>1. \A i, j \in DownBy(p) : i = j
    BY DEF RollInv, Rolls, Own, DownBy
  <2>2. CASE DownBy(p) = {}
    BY <2>2, FS_EmptySet
  <2>3. CASE DownBy(p) # {}
    <3>1. PICK i : DownBy(p) = {i}
      BY <2>1, <2>3
    <3> QED
      BY <3>1, FS_Singleton
  <2> QED
    BY <2>2, <2>3
<1> QED
  BY <1>1, <1>2, InitRolls, PTL DEF Spec
----------------------------------------------------------------------------
\* Versions of the CR start at 1, version 0 of the StatefulSet means none.
Versioned ==
    /\ desired.cr.gen > 0
    /\ sts.gen = 0 => sts.replicas = 0
    /\ h["cr"].pc # "idle" => h["cr"].seen.cr.gen > 0

\* Until the StatefulSet is applied it has no more replicas than on_update
\* found, so that if every one of them had its pod there are no other pods.
Counted == h["cr"].old = 0..(h["cr"].was - 1)
Counting ==
    LET q == h["cr"] IN
    q.pc \in {"flags", "exec", "apply", "create"} =>
        /\ q.pc = "exec" \/ q.todo = {}
        /\ sts.replicas <= q.was /\ (~q.existed => q.was = 0)
        /\ Counted => \A i \in Present : i < q.was

\* After that, a pod was started from the template of this update or a later
\* one, or is still to be rebooted.
Covering ==
    LET q == h["cr"] IN
    /\ q.pc \in {"clean", "present", "running", "roll", "check", "enable"} =>
         /\ sts.gen = q.seen.cr.gen
         /\ Counted /\ q.seen.cr.shape.reboot =>
              \A i \in Present : pods[i].gen >= q.seen.cr.gen \/ i \in q.todo
    /\ q.pc \in {"present", "running", "enable"} => q.todo = {}

CountInv == TypeInv /\ SetPods /\ Versioned /\ Counting /\ Covering

LEMMA KeptPods ==
  ASSUME TypeInv, Next, NEW i \in Present'
  PROVE  \/ i \in Present /\ pods'[i].gen = pods[i].gen
         \/ i < sts.replicas /\ pods'[i].gen = sts.gen
BY PodAfter DEF Present, Gone, Stays, Made, SameStart

\* The steps of the handler of the CR that leave the pods it has counted and
\* those still to be rebooted as they are.
SameCounts(q, r) == /\ r.old = q.old /\ r.was = q.was /\ r.existed = q.existed
                    /\ r.todo = q.todo /\ r.seen = q.seen

LEMMA GotoCounts ==
  ASSUME TypeInv, NEW pc, Goto("cr", pc)
  PROVE  h'["cr"].pc = pc /\ SameCounts(h["cr"], h'["cr"])
<1>1. h["cr"] \in Handler /\ h'["cr"] = [h["cr"] EXCEPT !.pc = pc]
  BY DEF Goto, TypeInv, TypeOK, Handlers
<1> QED
  BY <1>1 DEF SameCounts, Handler

\* What applying the StatefulSet does: to it, to the pods, to the handler.
LEMMA AppliesFacts ==
  ASSUME TypeInv, Applies,
         NEW q, q = h["cr"], NEW r, r = h'["cr"], NEW n, n = q.seen.cr.shape.replicas
  PROVE  /\ q.pc \in {"apply", "create"} /\ n \in 1..MaxPods
         /\ r.seen = q.seen /\ r.old = q.old /\ r.was = q.was /\ r.existed = q.existed
         /\ sts'.gen = q.seen.cr.gen /\ sts'.replicas = n
         /\ Present' = {i \in Present : i < n}
         /\ \/ r.pc = "clean" /\ r.todo = 0..(n - 1)
            \/ r.pc = "roll" /\ r.todo = 0..(RebootCount - 1)
            \/ r.pc = "present" /\ r.todo = q.todo /\ (~q.existed \/ ~q.seen.cr.shape.reboot)
<1>0. /\ q \in Handler /\ h \in [Handlers -> Handler] /\ "cr" \in Handlers
      /\ n \in 1..MaxPods /\ pods \in [Indices -> Pod]
  BY DEF TypeInv, TypeOK, Handlers, Handler, Objects, CR, Shape
<1>1. /\ q.pc \in {"apply", "create"}
      /\ sts' = [gen |-> q.seen.cr.gen, replicas |-> n, claims |-> q.seen.cr.shape.claims]
      /\ pods' = [i \in Indices |-> IF i < n THEN pods[i]
                     ELSE [pods[i] EXCEPT !.state = "absent", !.by = "none"]]
      /\ \/ h' = [h EXCEPT !["cr"].pc = "clean", !["cr"].todo = 0..(n - 1)]
         \/ h' = [h EXCEPT !["cr"].pc = "roll", !["cr"].todo = 0..(RebootCount - 1)]
         \/ Goto("cr", "present") /\ (~q.existed \/ ~q.seen.cr.shape.reboot)
  BY Zenon DEF Applies
<1>2. sts'.gen = q.seen.cr.gen /\ sts'.replicas = n
  BY <1>1
<1>3. Present' = {i \in Present : i < n}
  <2>1. \A i \in Indices : pods'[i] = IF i < n THEN pods[i]
                              ELSE [pods[i] EXCEPT !.state = "absent", !.by = "none"]
    BY <1>1
  <2>2. \A i \in Indices : [pods[i] EXCEPT !.state = "absent", !.by = "none"].state = "absent"
    BY <1>0 DEF Pod
  <2> QED
    BY <2>1, <2>2 DEF Present
<1>4. ASSUME NEW pc, NEW todo, h' = [h EXCEPT !["cr"].pc = pc, !["cr"].todo = todo]
      PROVE  /\ r.pc = pc /\ r.todo = todo
             /\ r.seen = q.seen /\ r.old = q.old /\ r.was = q.was /\ r.existed = q.existed
  <2>1. r = [q EXCEPT !.pc = pc, !.todo = todo]
    BY <1>0, <1>4
  <2> QED
    BY <1>0, <2>1 DEF Handler
<1>5. CASE h' = [h EXCEPT !["cr"].pc = "clean", !["cr"].todo = 0..(n - 1)]
  <2> DEFINE todo == 0..(n - 1)
  <2>1. h' = [h EXCEPT !["cr"].pc = "clean", !["cr"].todo = todo]
    BY <1>5
  <2> HIDE DEF todo
  <2>2. /\ r.pc = "clean" /\ r.todo = todo
        /\ r.seen = q.seen /\ r.old = q.old /\ r.was = q.was /\ r.existed = q.existed
    BY <1>4, <2>1
  <2> QED
    BY <1>0, <1>1, <1>2, <1>3, <2>2 DEF todo
<1>6. CASE h' = [h EXCEPT !["cr"].pc = "roll", !["cr"].todo = 0..(RebootCount - 1)]
  <2> DEFINE todo == 0..(RebootCount - 1)
  <2>1. h' = [h EXCEPT !["cr"].pc = "roll", !["cr"].todo = todo]
    BY <1>6
  <2> HIDE DEF todo
  <2>2. /\ r.pc = "roll" /\ r.todo = todo
        /\ r.seen = q.seen /\ r.old = q.old /\ r.was = q.was /\ r.existed = q.existed
    BY <1>4, <2>1
  <2> QED
    BY <1>0, <1>1, <1>2, <1>3, <2>2 DEF todo
<1>7. CASE Goto("cr", "present") /\ (~q.existed \/ ~q.seen.cr.shape.reboot)
  BY <1>0, <1>1, <1>2, <1>3, <1>7, GotoCounts DEF SameCounts
<1> QED
  BY <1>1, <1>5, <1>6, <1>7

LEMMA VersionedStep == ASSUME CountInv, Next PROVE Versioned'
<1>0. /\ TypeInv /\ TypeInv' /\ Versioned /\ "cr" \in Handlers
      /\ desired.cr.gen \in Nat /\ desired'.cr.gen \in Nat /\ desired.cr.gen <= desired'.cr.gen
  <2>1. TypeInv /\ TypeInv'
    BY TypeStep DEF CountInv
  <2>2. desired'.cr.gen \in Nat
    BY <2>1 DEF TypeInv, TypeOK, Objects, CR
  <2> QED
    BY <2>1, <2>2, Versions, DesiredGrows DEF CountInv, Handlers
<1>1. sts'.gen = 0 => sts'.replicas = 0
  <2>1. Orphans => sts'.replicas = 0
    BY DEF Orphans, NoSet
  <2>2. Applies => sts'.gen > 0
    BY <1>0, AppliesFacts DEF Versioned
  <2> QED
    BY <1>0, <2>1, <2>2, StsSteps DEF Versioned
<1>2. h'["cr"].pc # "idle" => h'["cr"].seen.cr.gen > 0
  <2>1. CASE h'["cr"] = h["cr"] \/ h'["cr"].pc = "idle"
    BY <1>0, <2>1 DEF Versioned
  <2>2. CASE HandlerStep("cr")
    BY <1>0, <2>2, HandlerKinds, HandlersAfter, EndType, RaiseStops
       DEF Begins, Works, Finishes, Versioned
  <2> QED
    BY <1>0, <2>1, <2>2, OthersStay, EnvironmentStops DEF Next
<1> QED
  BY <1>0, <1>1, <1>2 DEF Versioned

\* A step of somebody else: a pod created meanwhile is of the StatefulSet.
LEMMA CountUndisturbed ==
  ASSUME CountInv, Next, h'["cr"] = h["cr"]
  PROVE  Counting' /\ Covering'
<1> DEFINE q == h["cr"]
<1>0. /\ TypeInv /\ Counting /\ Covering /\ q \in Handler /\ q.was \in Nat
      /\ sts.replicas \in Nat /\ sts.gen \in Nat /\ \A i \in Indices : i \in Nat
  BY ReconcileAssumption DEF CountInv, TypeInv, TypeOK, Handlers, Handler, Indices
<1>1. UNCHANGED sts
  <2>1. ~Orphans
    BY <1>0, GotoCounts DEF Orphans
  <2>2. ~Applies
    BY <1>0, AppliesFacts
  <2> QED
    BY <2>1, <2>2, StsSteps
<1>2. ASSUME q.pc \in {"flags", "exec", "apply", "create"}, Counted, NEW i \in Present'
      PROVE  i < q.was
  <2>1. i \in Nat
    BY <1>0 DEF Present
  <2> QED
    BY <1>0, <1>2, <2>1, KeptPods DEF Counting
<1>3. ASSUME q.pc \in {"clean", "present", "running", "roll", "check", "enable"},
             Counted, q.seen.cr.shape.reboot, NEW i \in Present'
      PROVE  pods'[i].gen >= q.seen.cr.gen \/ i \in q.todo
  BY <1>0, <1>3, KeptPods DEF Covering
<1> QED
  BY <1>0, <1>1, <1>2, <1>3 DEF Counting, Covering, Counted

\* The StatefulSet is applied, and what is to be rebooted is determined.
LEMMA AppliesCovers == ASSUME CountInv, Applies PROVE Counting' /\ Covering'
<1> DEFINE q == h["cr"]
           n == q.seen.cr.shape.replicas
           new == h'["cr"]
<1>0. /\ TypeInv /\ Counting /\ q.was \in Nat /\ n \in Nat /\ \A i \in Indices : i \in Nat
      /\ q.pc \in {"apply", "create"} /\ sts'.gen = q.seen.cr.gen
      /\ new.seen = q.seen /\ new.old = q.old /\ new.was = q.was
      /\ Present' = {i \in Present : i < n}
  <2>1. TypeInv /\ Counting /\ q \in Handler /\ n \in 1..MaxPods
    BY DEF CountInv, TypeInv, TypeOK, Handlers, Handler, Objects, CR, Shape
  <2>2. q.was \in Nat /\ n \in Nat /\ \A i \in Indices : i \in Nat
    BY <2>1, ReconcileAssumption DEF Handler, Indices
  <2> QED
    BY <2>1, <2>2, AppliesFacts
<1>1. \A i \in Present' : i \in Nat /\ i < n
  BY <1>0 DEF Present
<1>2. /\ q.todo = {} /\ (~q.existed => q.was = 0)
      /\ Counted => \A i \in Present' : i < q.was
  BY <1>0 DEF Counting
<1>3. CASE new.pc = "clean" /\ new.todo = 0..(n - 1)
  <2>1. \A i \in Present' : i \in 0..(n - 1)
    BY <1>0, <1>1
  <2> QED
    BY <1>0, <1>3, <2>1 DEF Counting, Covering
<1>4. CASE new.pc = "roll" /\ new.todo = 0..(RebootCount - 1)
  <2>1. ASSUME Counted PROVE RebootCount = n \/ RebootCount = q.was
    <3>1. Cardinality(q.old) = q.was
      <4>1. q.was - 1 \in Int /\ (q.was = 0 <=> 0 > q.was - 1) /\ q.was - 1 - 0 + 1 = q.was
        BY <1>0
      <4> QED
        BY <1>0, <2>1, <4>1, FS_Interval DEF Counted
    <3> QED
      BY <3>1 DEF RebootCount
  <2>2. ASSUME Counted, NEW i \in Present' PROVE i \in 0..(RebootCount - 1)
    BY <1>0, <1>1, <1>2, <2>1, <2>2
  <2> QED
    BY <1>0, <1>4, <2>2 DEF Counting, Covering, Counted
<1>5. CASE new.pc = "present" /\ new.todo = q.todo /\ (~q.existed \/ ~q.seen.cr.shape.reboot)
  <2>1. ASSUME Counted, q.seen.cr.shape.reboot PROVE Present' = {}
    BY <1>1, <1>2, <1>5, <2>1
  <2> QED
    BY <1>0, <1>2, <1>5, <2>1 DEF Counting, Covering, Counted
<1> QED
  BY <1>0, <1>3, <1>4, <1>5, AppliesFacts

\* The handler's other steps.
LEMMA CountStep == ASSUME CountInv, Next PROVE Counting' /\ Covering'
<1> DEFINE q == h["cr"]
           new == h'["cr"]
<1>0. /\ TypeInv /\ SetPods /\ Versioned /\ Counting /\ Covering /\ q \in Handler
      /\ h \in [Handlers -> Handler] /\ "cr" \in Handlers
      /\ q.was \in Nat /\ sts.replicas \in Nat /\ sts.gen \in Nat /\ pods \in [Indices -> Pod]
  BY ReconcileAssumption DEF CountInv, TypeInv, TypeOK, Handlers, Handler
<1>1. CASE new.pc \in {"idle", "finish"}
  BY <1>1 DEF Counting, Covering
<1>2. CASE new = q
  BY <1>2, CountUndisturbed
<1>3. CASE CrBegins
  <2> DEFINE pc == IF Updating /\ sts.gen > 0 THEN "flags" ELSE "apply"
             was == sts.replicas
             existed == sts.gen > 0
  <2>1. /\ h' = [h EXCEPT !["cr"] = [Idle EXCEPT !.pc = pc, !.seen = desired, !.old = Present,
                                                 !.was = was, !.existed = existed]]
        /\ UNCHANGED <<sts, pods>>
    BY <1>3 DEF CrBegins, cluster
  <2>2. pc \in {"flags", "apply"}
    OBVIOUS
  <2>3. /\ existed \/ was = 0
        /\ Present = 0..(was - 1) => \A i \in Present : i < was
    BY <1>0 DEF Versioned
  <2>4. was = sts.replicas
    OBVIOUS
  <2> HIDE DEF pc, was, existed
  <2>5. new = [Idle EXCEPT !.pc = pc, !.seen = desired, !.old = Present,
                           !.was = was, !.existed = existed]
    BY <1>0, <2>1
  <2>6. new.pc = pc /\ new.todo = {} /\ new.old = Present /\ new.was = was /\ new.existed = existed
    BY <2>5, IdleType DEF Handler
  <2>7. Present' = Present
    BY <2>1 DEF Present
  <2> QED
    BY <1>0, <2>1, <2>2, <2>3, <2>4, <2>6, <2>7 DEF Counting, Covering, Counted
<1>4. CASE FlagsChecked \/ FlagsEnabled
  <2>1. PICK todo, pc :
          /\ q.pc \in {"flags", "exec"} /\ UNCHANGED <<sts, pods>>
          /\ h' = [h EXCEPT !["cr"].todo = todo, !["cr"].pc = pc]
          /\ pc = "exec" \/ (pc = "apply" /\ todo = {})
    <3>1. CASE FlagsChecked
      BY <3>1 DEF FlagsChecked, cluster
    <3>2. CASE FlagsEnabled
      BY <3>2 DEF FlagsEnabled, cluster
    <3> QED
      BY <1>4, <3>1, <3>2
  <2>2. new = [q EXCEPT !.todo = todo, !.pc = pc]
    BY <1>0, <2>1
  <2>3. /\ new.pc = pc /\ new.todo = todo /\ new.old = q.old
        /\ new.was = q.was /\ new.existed = q.existed
    BY <1>0, <2>2 DEF Handler
  <2>4. Present' = Present
    BY <2>1 DEF Present
  <2> QED
    BY <1>0, <2>1, <2>3, <2>4 DEF Counting, Covering, Counted
<1>5. CASE Orphans
  <2>1. q.pc = "apply" /\ new.pc = "create" /\ SameCounts(q, new) /\ sts'.replicas = 0 /\ UNCHANGED pods
    BY <1>0, <1>5, GotoCounts DEF Orphans, NoSet
  <2> QED
    BY <1>0, <2>1 DEF SameCounts, Counting, Covering, Counted, Present
<1>6. CASE CleansPod
  <2> DEFINE i == First(q.todo)
             todo == q.todo \ {i}
             pc == IF q.todo = {i} THEN "present" ELSE "clean"
  <2>1. /\ q.pc = "clean" /\ h' = [h EXCEPT !["cr"].todo = todo, !["cr"].pc = pc]
        /\ TakeDown("cr", i) /\ UNCHANGED sts
    BY <1>6 DEF CleansPod
  <2>2. pc \in {"present", "clean"} /\ todo = q.todo \ {i} /\ (pc = "present" => todo = {})
    OBVIOUS
  <2>3. i \in Indices
    BY <1>0, <2>1, FirstIn DEF TypeInv, HasTodo, HasNext, Handler
  <2> HIDE DEF i, todo, pc
  <2>4. new = [q EXCEPT !.todo = todo, !.pc = pc]
    BY <1>0, <2>1
  <2>5. new.pc = pc /\ new.todo = todo /\ new.seen = q.seen /\ new.old = q.old /\ new.was = q.was
    BY <1>0, <2>4 DEF Handler
  <2>6. Present' = Present \ {i} /\ \A j \in Present' : pods'[j] = pods[j]
    BY <1>0, <2>1, <2>3 DEF TakeDown, Present, Pod
  <2> QED
    BY <1>0, <2>1, <2>2, <2>5, <2>6 DEF Counting, Covering, Counted
<1>7. CASE PodsPresent
  BY <1>0, <1>7, GotoCounts DEF PodsPresent, cluster, SameCounts, Counting, Covering, Counted, Present
<1>8. CASE PodsRunning
  <2> DEFINE pc == IF q.seen.cr.shape.reboot THEN "enable" ELSE "check"
  <2>1. /\ q.pc = "running" /\ h' = [h EXCEPT !["cr"].creds = desired.secret, !["cr"].pc = pc]
        /\ UNCHANGED <<sts, pods>>
    BY <1>8 DEF PodsRunning, cluster
  <2>2. pc \in {"enable", "check"}
    OBVIOUS
  <2> HIDE DEF pc
  <2>3. new = [q EXCEPT !.creds = desired.secret, !.pc = pc]
    BY <1>0, <2>1
  <2>4. new.pc = pc /\ SameCounts(q, new)
    BY <1>0, <2>3 DEF Handler, SameCounts
  <2> QED
    BY <1>0, <2>1, <2>2, <2>4 DEF SameCounts, Counting, Covering, Counted, Present
<1>9. CASE RebootsPod("cr")
  <2> DEFINE i == First(q.todo)
  <2>1. /\ q.pc = "roll" /\ (TakeDown("cr", i) \/ (pods[i].state = "absent" /\ UNCHANGED pods))
        /\ h' = [h EXCEPT !["cr"].pc = "check", !["cr"].todo = @ \ {i},
                         !["cr"].taken = @ \cup {i}, !["cr"].creds = desired.secret]
        /\ UNCHANGED sts
    BY <1>9 DEF RebootsPod
  <2>2. i \in Indices
    BY <1>0, <2>1, FirstIn DEF TypeInv, HasTodo, HasNext, Handler
  <2> HIDE DEF i
  <2>3. new = [q EXCEPT !.pc = "check", !.todo = @ \ {i}, !.taken = @ \cup {i}, !.creds = desired.secret]
    BY <1>0, <2>1
  <2>4. /\ new.pc = "check" /\ new.todo = q.todo \ {i} /\ new.seen = q.seen
        /\ new.old = q.old /\ new.was = q.was
    BY <1>0, <2>3 DEF Handler
  <2>5. Present' = Present \ {i} /\ \A j \in Present' : pods'[j] = pods[j]
    BY <1>0, <2>1, <2>2 DEF TakeDown, Present, Pod
  <2> QED
    BY <1>0, <2>1, <2>4, <2>5 DEF Counting, Covering, Counted
<1>10. CASE CheckPasses("cr")
  <2> DEFINE pc == IF q.todo # {} THEN "roll" ELSE "enable"
             steady == q.steady /\ q.seen.cr.shape.replicas = sts.replicas
  <2>1. /\ q.pc = "check" /\ UNCHANGED <<sts, pods>>
        /\ h' = [h EXCEPT !["cr"].pc = pc, !["cr"].steady = steady]
    BY <1>10 DEF CheckPasses, GoesOn, AfterReboots, cluster
  <2>2. pc \in {"roll", "enable"} /\ (pc = "enable" => q.todo = {})
    OBVIOUS
  <2> HIDE DEF pc, steady
  <2>3. new = [q EXCEPT !.pc = pc, !.steady = steady]
    BY <1>0, <2>1
  <2>4. new.pc = pc /\ SameCounts(q, new)
    BY <1>0, <2>3 DEF Handler, SameCounts
  <2> QED
    BY <1>0, <2>1, <2>2, <2>4 DEF SameCounts, Counting, Covering, Counted, Present
<1>11. CASE Applies
  BY <1>11, AppliesCovers
<1>12. CASE HandlerStep("cr")
  <2>1. ASSUME Stops("cr") \/ Goto("cr", "finish") PROVE new.pc \in {"idle", "finish"}
    BY <1>0, <2>1, HandlersAfter, GotoCounts
  <2>2. CASE \/ FlagsFail \/ FlagsRaise \/ Rejects \/ CleanRaises \/ PodsNotReady
             \/ EnableRaises \/ CrFinishes \/ RebootRaises("cr") \/ CheckFails("cr")
    BY <1>0, <1>1, <2>1, <2>2, EndType, RaiseStops
       DEF FlagsFail, FlagsRaise, Rejects, CleanRaises, PodsNotReady, EnableRaises, CrFinishes,
           RebootRaises, CheckFails
  <2>3. CASE WaitsForTests \/ Enables
    BY <1>1, <2>1, <2>3 DEF WaitsForTests, Enables
  <2> QED
    BY <1>3, <1>4, <1>5, <1>6, <1>7, <1>8, <1>9, <1>10, <1>11, <1>12, <2>2, <2>3
       DEF HandlerStep, CrStep
<1> QED
  BY <1>0, <1>1, <1>2, <1>12, OthersStay, EnvironmentStops DEF Next

LEMMA InitCounts == Init => CountInv
<1> SUFFICES ASSUME Init PROVE CountInv
  OBVIOUS
<1>1. RollInv /\ h["cr"].pc = "idle"
  BY InitRolls, IdleType DEF Init, Handlers
<1>2. desired.cr.gen = 1 /\ (sts.gen = 0 => sts.replicas = 0)
  <2>1. PICK s \in Shapes : desired = [Installed EXCEPT !.cr = [gen |-> 1, text |-> 1, shape |-> s]]
    BY DEF Init, Fresh, Settled
  <2>2. sts = NoSet \/ sts.gen = 1
    BY DEF Init, Fresh, Settled
  <2> QED
    BY <2>1, <2>2 DEF Installed, NoSet
<1> QED
  BY <1>1, <1>2 DEF CountInv, RollInv, Versioned, Counting, Covering

\* An update with auto_reboot that found every pod of the StatefulSet when it
\* counted them has started all of them from the new template when it is about
\* to enable the flags, also if it adds or removes pods: reboot_pods deletes
\* those that were counted, and the others are new.
THEOREM CountedUpdated == Spec => []CountedPodsUpdated
<1>1. CountInv /\ [Next]_vars => CountInv'
  <2> SUFFICES ASSUME CountInv, [Next]_vars PROVE CountInv'
    OBVIOUS
  <2>1. TypeInv'
    BY TypeStep DEF CountInv
  <2>2. CASE UNCHANGED vars
    BY <2>1, <2>2 DEF CountInv, SetPods, Versioned, Counting, Covering, Counted, Present,
       vars, objects, cluster
  <2>3. CASE Next
    BY <2>1, <2>3, SetPodsStep, VersionedStep, CountStep DEF CountInv
  <2> QED
    BY <2>2, <2>3
<1>2. CountInv => CountedPodsUpdated
  BY DEF CountInv, Covering, Counted, CountedPodsUpdated
<1> QED
  BY <1>1, <1>2, InitCounts, PTL DEF Spec
=============================================================================
