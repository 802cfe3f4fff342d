------------------------ MODULE NodeLifecycleProofs ------------------------
(***************************************************************************)
(* Type correctness of NodeLifecycle, and that the marker is earned, for   *)
(* any number of nodes, deletions, kills and cleanups.                     *)
(***************************************************************************)
EXTENDS NodeLifecycle, FiniteSetTheorems, TLAPS

LEMMA Nodes == /\ N \in Nat \ {0} /\ N \notin Node /\ IsFiniteSet(Node)
               /\ \A i \in Node : i + 1 \in 0..N
<1>1. N \in Nat \ {0} BY LifecycleAssumption
<1>2. IsFiniteSet(0..(N - 1)) BY <1>1, FS_Interval
<1> QED BY <1>1, <1>2 DEF Node

\* A volume that is emptied, and a node that joins another, keep the types.
LEMMA JoinedType ==
    ASSUME TypeOK, NEW i \in Node, NEW p \in Node, Joined(i, p)
    PROVE  /\ data' \in [Node -> SUBSET Node] /\ \A j \in Node : data'[j] # {} => j \in data'[j]
           /\ old' \in [kept : SUBSET Node, joined : SUBSET Node]
<1>1. data \in [Node -> SUBSET Node] /\ \A j \in Node : data[j] # {} => j \in data[j]
  BY DEF TypeOK
<1>2. data' = [j \in Node |-> IF j = i THEN data[p] \cup {i}
                              ELSE IF j \in data[p] /\ p \in data[j] THEN data[j] \cup {i}
                              ELSE data[j]]
  BY DEF Joined
<1>3. data' \in [Node -> SUBSET Node] BY <1>1, <1>2
<1>4. \A j \in Node : data'[j] # {} => j \in data'[j] BY <1>1, <1>2
<1>5. old' \in [kept : SUBSET Node, joined : SUBSET Node] BY DEF Joined, TypeOK
<1> QED BY <1>3, <1>4, <1>5

LEMMA EmptiedType ==
    ASSUME TypeOK, NEW i \in Node, Emptied(i)
    PROVE  /\ data' \in [Node -> SUBSET Node] /\ \A j \in Node : data'[j] # {} => j \in data'[j]
           /\ old' \in [kept : SUBSET Node, joined : SUBSET Node]
BY DEF Emptied, TypeOK

LEMMA AtType ==
    ASSUME TypeOK, NEW i \in Node, NEW place \in Places, Goes(i, place)
    PROVE  at' \in [Node -> Places]
BY DEF TypeOK, Goes

LEMMA StoppedType ==
    ASSUME TypeOK, NEW i \in Node, Stopped(i)
    PROVE  at' \in [Node -> Places]
BY AtType DEF Stopped, Places

LEMMA ContainerType ==
    ASSUME TypeOK, NEW i \in Node, Container(i)
    PROVE  TypeOK'
<1>0. N \notin Node BY Nodes
<1>1. CASE Entry(i)
  <2>1. at' \in [Node -> Places] BY <1>1, AtType DEF Entry, Places
  <2> QED BY <1>1, <2>1 DEF Entry, TypeOK, ghosts
<1>2. CASE WipeData(i)
  <2>1. at' \in [Node -> Places] BY <1>2, AtType DEF WipeData, Places
  <2> QED BY <1>2, <2>1, EmptiedType DEF WipeData, TypeOK
<1>3. CASE WipeMarker(i)
  <2>1. at' \in [Node -> Places] BY <1>3, AtType DEF WipeMarker, Places
  <2> QED BY <1>3, <2>1 DEF WipeMarker, TypeOK
<1>4. CASE Discovers(i)
  <2>1. at' \in [Node -> Places] BY <1>4, AtType DEF Discovers, Places
  <2>2. PICK p \in Node \cup {N} : peer' = [peer EXCEPT ![i] = p] BY <1>4 DEF Discovers, Up
  <2> QED BY <1>4, <2>1, <2>2 DEF Discovers, TypeOK, volumes, ghosts
<1>5. CASE Forms(i)
  <2>1. at' \in [Node -> Places] BY <1>5, AtType DEF Forms, Places
  <2> QED BY <1>5, <2>1 DEF Forms, TypeOK, ghosts
<1>6. CASE Joins(i)
  <2>1. at' \in [Node -> Places] BY <1>6, AtType DEF Joins, Places
  <2>2. peer[i] \in Node BY <1>6 DEF Joins, Up
  <2>3. peer' \in [Node -> Node \cup {N}] BY <1>6 DEF Joins, TypeOK
  <2> QED BY <1>6, <2>1, <2>2, <2>3, JoinedType DEF Joins, TypeOK
<1>7. CASE MissesPeer(i)
  <2>1. at' \in [Node -> Places] BY <1>7, AtType DEF MissesPeer, Places
  <2> QED BY <1>7, <2>1 DEF MissesPeer, TypeOK, volumes, ghosts
<1>8. CASE Boots(i)
  <2>1. at' \in [Node -> Places] BY <1>8, AtType DEF Boots, Places
  <2> QED BY <1>8, <2>1 DEF Boots, TypeOK, volumes, ghosts
<1>9. CASE Awaits(i) BY <1>9 DEF Awaits, TypeOK, volumes, ghosts
<1>10. CASE Touches(i) BY <1>10 DEF Touches, TypeOK
<1>11. CASE JoinsZero(i)
  <2>1. 0 \in Node BY Nodes DEF Node
  <2>2. CASE UNCHANGED <<data, old>> BY <1>11, <2>2 DEF JoinsZero, TypeOK
  <2>3. CASE Joined(i, 0) BY <1>11, <2>1, <2>3, JoinedType DEF JoinsZero, TypeOK
  <2> QED BY <1>11, <2>2, <2>3 DEF JoinsZero
<1>12. CASE LivenessKills(i)
  <2>1. at' \in [Node -> Places] BY <1>12, StoppedType DEF LivenessKills
  <2> QED BY <1>12, <2>1 DEF LivenessKills, TypeOK, volumes, ghosts
<1>13. CASE HookChecks(i)
  <2>1. at' \in [Node -> Places] BY <1>13, AtType DEF HookChecks, Places
  <2> QED BY <1>13, <2>1 DEF HookChecks, TypeOK, volumes, ghosts
<1>14. CASE HookPurges(i)
  <2>1. at' \in [Node -> Places] BY <1>14, AtType DEF HookPurges, Places
  <2> QED BY <1>14, <2>1, EmptiedType DEF HookPurges, TypeOK
<1> QED BY <1>1, <1>2, <1>3, <1>4, <1>5, <1>6, <1>7, <1>8, <1>9, <1>10, <1>11, <1>12, <1>13, <1>14 DEF Container

LEMMA CleanupType ==
    ASSUME TypeOK, NEW i \in Node, Cleanup(i) \/ CleanBegins \/ PodDeleted(i) \/ Killed(i)
    PROVE  TypeOK'
<1>1. CASE CleanBegins
  <2>1. clean' \in [next : 0..N, flagged : BOOLEAN] BY <1>1, Nodes DEF CleanBegins
  <2>2. bounds' \in [deletes : 0..MaxDeletes, kills : 0..MaxKills, cleans : 0..MaxCleans]
    <3> DEFINE n == bounds.cleans + 1
    <3>0. bounds.cleans \in 0..MaxCleans /\ bounds.cleans < MaxCleans BY <1>1 DEF CleanBegins, TypeOK
    <3>1. n \in 0..MaxCleans BY <3>0, LifecycleAssumption
    <3>2. bounds' = [bounds EXCEPT !.cleans = n] BY <1>1 DEF CleanBegins, Spends
    <3> HIDE DEF n
    <3> QED BY <3>1, <3>2 DEF TypeOK
  <2> QED BY <1>1, <2>1, <2>2 DEF CleanBegins, TypeOK, volumes
<1>2. CASE Flags(i)
  <2>1. clean' \in [next : 0..N, flagged : BOOLEAN] BY <1>2 DEF Flags, TypeOK
  <2> QED BY <1>2, <2>1 DEF Flags, TypeOK, ghosts
<1>3. CASE FlagFails(i)
  <2>0. 0 \in 0..N BY Nodes
  <2>1. clean' \in [next : 0..N, flagged : BOOLEAN] BY <1>3, <2>0 DEF FlagFails, TypeOK
  <2> QED BY <1>3, <2>1 DEF FlagFails, TypeOK, volumes, ghosts
<1>4. CASE Deletes(i)
  <2>1. clean' \in [next : 0..N, flagged : BOOLEAN] BY <1>4, Nodes DEF Deletes
  <2>2. at' \in [Node -> Places] BY <1>4, StoppedType, AtType DEF Deletes, TypeOK, Places
  <2>3. cut' \in SUBSET Node BY <1>4 DEF Deletes, TypeOK
  <2> QED BY <1>4, <2>1, <2>2, <2>3 DEF Deletes, TypeOK, volumes
<1>5. CASE PodDeleted(i)
  <2>1. at' \in [Node -> Places] BY <1>5, StoppedType DEF PodDeleted
  <2>2. bounds' \in [deletes : 0..MaxDeletes, kills : 0..MaxKills, cleans : 0..MaxCleans]
    <3> DEFINE n == bounds.deletes + 1
    <3>0. bounds.deletes \in 0..MaxDeletes /\ bounds.deletes < MaxDeletes BY <1>5 DEF PodDeleted, TypeOK
    <3>1. n \in 0..MaxDeletes BY <3>0, LifecycleAssumption
    <3>2. bounds' = [bounds EXCEPT !.deletes = n] BY <1>5 DEF PodDeleted, Spends
    <3> HIDE DEF n
    <3> QED BY <3>1, <3>2 DEF TypeOK
  <2> QED BY <1>5, <2>1, <2>2 DEF PodDeleted, TypeOK, volumes, ghosts
<1>6. CASE Killed(i)
  <2>1. at' \in [Node -> Places] BY <1>6, AtType DEF Killed, Places
  <2>2. bounds' \in [deletes : 0..MaxDeletes, kills : 0..MaxKills, cleans : 0..MaxCleans]
    <3> DEFINE n == bounds.kills + 1
    <3>0. bounds.kills \in 0..MaxKills /\ bounds.kills < MaxKills BY <1>6 DEF Killed, TypeOK
    <3>1. n \in 0..MaxKills BY <3>0, LifecycleAssumption
    <3>2. bounds' = [bounds EXCEPT !.kills = n] BY <1>6 DEF Killed, Spends
    <3> HIDE DEF n
    <3> QED BY <3>1, <3>2 DEF TypeOK
  <2> QED BY <1>6, <2>1, <2>2 DEF Killed, TypeOK, volumes
<1> QED BY <1>1, <1>2, <1>3, <1>4, <1>5, <1>6 DEF Cleanup

LEMMA TypeStep == TypeOK /\ [Next]_vars => TypeOK'
<1> SUFFICES ASSUME TypeOK, [Next]_vars PROVE TypeOK' OBVIOUS
<1>1. CASE UNCHANGED vars BY <1>1 DEF vars, volumes, ghosts, TypeOK
<1>2. CASE CleanBegins
  <2>1. 0 \in Node BY Nodes DEF Node
  <2> QED BY <1>2, <2>1, CleanupType
<1>3. ASSUME NEW i \in Node, Container(i) \/ Cleanup(i) \/ PodDeleted(i) \/ Killed(i)
      PROVE  TypeOK'
  BY <1>3, ContainerType, CleanupType
<1> QED BY <1>1, <1>2, <1>3 DEF Next

LEMMA TypeInit == Init => TypeOK
<1> SUFFICES ASSUME Init PROVE TypeOK OBVIOUS
<1>1. at \in [Node -> Places] BY DEF Init, Places
<1>2. clean \in [next : 0..N, flagged : BOOLEAN] BY Nodes DEF Init
<1>3. bounds \in [deletes : 0..MaxDeletes, kills : 0..MaxKills, cleans : 0..MaxCleans]
  BY LifecycleAssumption DEF Init
<1>4. layout \in {"storageclass", "hostpath"} BY LifecycleAssumption DEF Init
<1> QED BY <1>1, <1>2, <1>3, <1>4 DEF Init, TypeOK

\* Every variable of docker-entrypoint.sh's and the probes' model keeps its
\* range, and a node is a member of the cluster its database describes.
THEOREM NodeTypeCorrect == Spec => []TypeOK
<1>1. Init => TypeOK BY TypeInit
<1>2. TypeOK /\ [Next]_vars => TypeOK' BY TypeStep
<1> QED BY <1>1, <1>2, PTL DEF Spec
----------------------------------------------------------------------------
\* What a node must have reached to be marked.
Reached(i) == IF layout = "storageclass" THEN Cardinality(data[i]) >= Need(i)
              ELSE {0, i} \subseteq data[i]

\* A node without data has not; a probe that is to touch the marker has seen
\* enough members, of which only the hook can have deprived it since, and then
\* the container is about to end.
Sound(i) ==
    /\ at[i] = "join" => data[i] = {}
    /\ i \in touching => /\ layout = "storageclass"
                         /\ at[i] \in {"up", "stop", "purge", "down"}
                         /\ IF data[i] = {} THEN at[i] = "down" ELSE Reached(i)
    /\ i \in marker \ cut => at[i] = "wipe marker" \/ Reached(i)

SoundInv == \A i \in Node : Sound(i)

LEMMA NotReached == ASSUME NEW i \in Node, data[i] = {} PROVE ~Reached(i)
<1>1. Cardinality({}) = 0 BY FS_EmptySet
<1>2. Need(i) >= 1 BY Nodes DEF Need, Node
<1>3. Need(i) \in Int BY Nodes DEF Need, Node
<1> QED BY <1>1, <1>2, <1>3 DEF Reached

LEMMA ReachedGrows ==
    ASSUME TypeOK, TypeOK', layout' = layout, NEW i \in Node,
           data[i] \subseteq data'[i], Reached(i)
    PROVE  Reached(i)'
<1>1. IsFiniteSet(data'[i]) BY Nodes, FS_Subset DEF TypeOK
<1>2. Cardinality(data[i]) <= Cardinality(data'[i]) BY <1>1, FS_Subset
<1>3. IsFiniteSet(data[i]) BY Nodes, FS_Subset DEF TypeOK
<1>4. Cardinality(data[i]) \in Nat /\ Cardinality(data'[i]) \in Nat
  BY <1>1, <1>3, FS_CardinalityType
<1>5. Need(i) \in Int BY Nodes DEF Need, Node
<1>6. Need(i)' = Need(i) BY DEF Need
<1> QED BY <1>2, <1>4, <1>5, <1>6 DEF Reached

\* A step that leaves a node's files and probes alone.
LEMMA SoundKept ==
    ASSUME TypeOK, TypeOK', layout' = layout, NEW i \in Node, Sound(i),
           data[i] \subseteq data'[i], data[i] = {} => data'[i] = {}, at'[i] = at[i],
           (i \in touching') => (i \in touching),
           (i \in marker' \ cut') => (i \in marker \ cut)
    PROVE  Sound(i)'
BY ReachedGrows DEF Sound

\* A step of a container, or one that stops it, with its volume as it was.
LEMMA SoundMoves ==
    ASSUME TypeOK, TypeOK', layout' = layout, NEW i \in Node, Sound(i),
           data'[i] = data[i], at[i] # "wipe marker", at'[i] = "join" => data[i] = {},
           (i \in touching') =>
              i \in touching /\ at[i] # "down" /\ at'[i] \in {"up", "stop", "purge", "down"},
           (i \in marker' \ cut') => (i \in marker \ cut)
    PROVE  Sound(i)'
BY ReachedGrows DEF Sound

\* What a node does leaves every other one's place alone; their databases only
\* grow, when it joins them.
LEMMA ElsewhereFrame ==
    ASSUME TypeOK, NEW i \in Node, NEW j \in Node, j # i,
           Container(i) \/ Cleanup(i) \/ PodDeleted(i) \/ Killed(i)
    PROVE  at'[j] = at[j] /\ data[j] \subseteq data'[j] /\ (data[j] = {} => data'[j] = {})
<1>2. at'[j] = at[j]
  <2>1. ASSUME NEW place, Goes(i, place) PROVE at'[j] = at[j] BY <2>1 DEF Goes, TypeOK
  <2>2. Stopped(i) => at'[j] = at[j] BY <2>1 DEF Stopped
  <2>3. CASE Entry(i) \/ WipeData(i) \/ WipeMarker(i) \/ Discovers(i)
    BY <2>1, <2>3 DEF Entry, WipeData, WipeMarker, Discovers
  <2>4. CASE Forms(i) \/ Joins(i) \/ MissesPeer(i) \/ Boots(i)
    BY <2>1, <2>4 DEF Forms, Joins, MissesPeer, Boots
  <2>5. CASE HookChecks(i) \/ HookPurges(i) \/ Killed(i)
    BY <2>1, <2>5 DEF HookChecks, HookPurges, Killed
  <2>6. CASE LivenessKills(i) \/ PodDeleted(i) \/ Deletes(i)
    BY <2>1, <2>2, <2>6 DEF LivenessKills, PodDeleted, Deletes
  <2>7. CASE Awaits(i) \/ Touches(i) \/ JoinsZero(i) \/ Flags(i) \/ FlagFails(i)
    BY <2>7 DEF Awaits, Touches, JoinsZero, Flags, FlagFails
  <2> QED BY <2>3, <2>4, <2>5, <2>6, <2>7 DEF Container, Cleanup
<1>3. data[j] \subseteq data'[j] /\ (data[j] = {} => data'[j] = {})
  <2>1. ASSUME NEW p, Joined(i, p) PROVE data[j] \subseteq data'[j] /\ (data[j] = {} => data'[j] = {})
    BY <2>1 DEF Joined, TypeOK
  <2>2. CASE Joins(i) BY <2>1, <2>2 DEF Joins
  <2>3. CASE JoinsZero(i) BY <2>1, <2>3 DEF JoinsZero
  <2>4. CASE WipeData(i) \/ HookPurges(i)
    <3>1. data' = [data EXCEPT ![i] = {}] BY <2>4 DEF WipeData, HookPurges, Emptied
    <3> QED BY <3>1 DEF TypeOK
  <2>5. CASE Forms(i)
    <3>1. data' = [data EXCEPT ![i] = {i}] BY <2>5 DEF Forms
    <3> QED BY <3>1 DEF TypeOK
  <2>6. CASE Entry(i) \/ WipeMarker(i) \/ Discovers(i) \/ MissesPeer(i) \/ Boots(i) \/ Awaits(i)
    BY <2>6 DEF Entry, WipeMarker, Discovers, MissesPeer, Boots, Awaits, volumes
  <2>7. CASE \/ Touches(i) \/ LivenessKills(i) \/ HookChecks(i)
             \/ Cleanup(i) \/ PodDeleted(i) \/ Killed(i)
    BY <2>7 DEF Touches, LivenessKills, HookChecks, Cleanup, Flags, FlagFails, Deletes, PodDeleted,
                Killed, volumes
  <2> QED BY <2>2, <2>3, <2>4, <2>5, <2>6, <2>7 DEF Container
<1> QED BY <1>2, <1>3

\* So it leaves every other one's volume sound.
LEMMA Elsewhere ==
    ASSUME TypeOK, TypeOK', NEW i \in Node, NEW j \in Node, j # i, Sound(j),
           Container(i) \/ Cleanup(i) \/ PodDeleted(i) \/ Killed(i)
    PROVE  Sound(j)'
<1>1. layout' = layout
  BY DEF Container, Cleanup, PodDeleted, Killed, Entry, WipeData, WipeMarker, Discovers, Forms,
         Joins, MissesPeer, Boots, Awaits, Touches, JoinsZero, LivenessKills, HookChecks,
         HookPurges, Flags, FlagFails, Deletes
<1>4. (j \in touching') => (j \in touching)
  BY DEF Container, Cleanup, PodDeleted, Killed, Entry, WipeData, WipeMarker, Discovers, Forms,
         Joins, MissesPeer, Boots, Awaits, Touches, JoinsZero, LivenessKills, HookChecks,
         HookPurges, Flags, FlagFails, Deletes
<1>5. (j \in marker' \ cut') => (j \in marker \ cut)
  BY DEF Container, Cleanup, PodDeleted, Killed, Entry, WipeData, WipeMarker, Discovers, Forms,
         Joins, MissesPeer, Boots, Awaits, Touches, JoinsZero, LivenessKills, HookChecks,
         HookPurges, Flags, FlagFails, Deletes, volumes, ghosts
<1> QED BY <1>1, <1>4, <1>5, ElsewhereFrame, SoundKept

LEMMA SoundStop ==
    ASSUME TypeOK, TypeOK', NEW i \in Node, Sound(i), at[i] \in {"boot", "join", "up"}, Stopped(i),
           UNCHANGED <<layout, volumes, touching, cut>>
    PROVE  Sound(i)'
<1>1. at'[i] \in {"stop", "down"} BY DEF Stopped, Goes, TypeOK
<1> QED BY <1>1, SoundMoves DEF volumes

LEMMA ContainerSound ==
    ASSUME TypeOK, TypeOK', NEW i \in Node, Sound(i), Container(i)
    PROVE  Sound(i)'
<1>1. CASE Entry(i) BY <1>1, SoundMoves DEF Entry, Goes, TypeOK, ghosts
<1>2. CASE WipeData(i)
  <2>1. at[i] = "wipe data" /\ at'[i] = "wipe marker" /\ touching' = touching
    BY <1>2 DEF WipeData, Goes, TypeOK
  <2> QED BY <2>1 DEF Sound
<1>3. CASE WipeMarker(i)
  <2>1. at[i] = "wipe marker" /\ at'[i] = "boot" /\ touching' = touching /\ i \notin marker'
    BY <1>3 DEF WipeMarker, Goes, TypeOK
  <2> QED BY <2>1 DEF Sound
<1>4. CASE Discovers(i)
  <2>1. at[i] = "boot" /\ at'[i] = "join" /\ data[i] = {} BY <1>4 DEF Discovers, Goes, TypeOK
  <2>2. i \notin touching BY <2>1 DEF Sound
  <2> QED BY <1>4, <2>1, <2>2, SoundMoves DEF Discovers, volumes, ghosts
<1>5. CASE Forms(i) \/ Joins(i)
  <2>1. at[i] = "join" /\ at'[i] = "up" /\ data[i] = {} /\ UNCHANGED <<touching, marker, cut>>
    <3>1. at[i] = "join" /\ Goes(i, "up") BY <1>5 DEF Forms, Joins
    <3>2. UNCHANGED <<touching, marker, cut>> BY <1>5 DEF Forms, Joins, ghosts
    <3> QED BY <3>1, <3>2 DEF Goes, TypeOK, Sound
  <2>2. i \notin marker' \ cut' BY <2>1, NotReached DEF Sound
  <2>3. i \notin touching' BY <2>1 DEF Sound
  <2> QED BY <2>1, <2>2, <2>3 DEF Sound
<1>6. CASE MissesPeer(i) \/ Boots(i)
  <2>1. at[i] \in {"join", "boot"} /\ at'[i] \in {"boot", "up"} /\ UNCHANGED <<layout, volumes, touching, cut>>
    BY <1>6 DEF MissesPeer, Boots, Goes, TypeOK, ghosts
  <2>2. i \notin touching BY <2>1 DEF Sound
  <2> QED BY <2>1, <2>2, SoundMoves DEF volumes
<1>7. CASE Awaits(i)
  <2>1. Online(i) \subseteq data[i] BY DEF Online
  <2>2. IsFiniteSet(data[i]) BY Nodes, FS_Subset DEF TypeOK
  <2>3. /\ Cardinality(Online(i)) <= Cardinality(data[i])
        /\ Cardinality(Online(i)) \in Nat /\ Cardinality(data[i]) \in Nat
    BY <2>1, <2>2, FS_Subset, FS_CardinalityType
  <2>4. Need(i) \in Int BY Nodes DEF Need, Node
  <2>5. layout = "storageclass" /\ Reached(i) BY <1>7, <2>3, <2>4 DEF Awaits, Reached
  <2>6. at[i] = "up" /\ UNCHANGED <<layout, data, marker, at, cut>> BY <1>7 DEF Awaits, volumes, ghosts
  <2>7. Reached(i)' BY <2>5, <2>6, ReachedGrows
  <2>8. data'[i] # {} BY <2>5, <2>6, NotReached
  <2> QED BY <2>5, <2>6, <2>7, <2>8 DEF Sound
<1>8. CASE Touches(i)
  <2>1. i \in touching /\ touching' = touching \ {i} /\ UNCHANGED <<layout, data, at>>
    BY <1>8 DEF Touches
  <2>2. CASE data[i] = {}
    <3>1. i \in cut' BY <1>8, <2>2 DEF Touches
    <3> QED BY <2>1, <3>1 DEF Sound
  <2>3. CASE data[i] # {}
    <3>1. Reached(i)' BY <2>1, <2>3, ReachedGrows DEF Sound
    <3> QED BY <2>1, <3>1 DEF Sound
  <2> QED BY <2>2, <2>3
<1>9. CASE JoinsZero(i)
  <2>1. layout = "hostpath" /\ at[i] = "up" /\ i \notin marker /\ UNCHANGED <<layout, at, touching, cut>>
    BY <1>9 DEF JoinsZero
  <2>2. i \notin touching' BY <2>1 DEF Sound
  <2>3. CASE i \in marker'
    <3>1. 0 \in data[i] /\ data' = data BY <1>9, <2>1, <2>3 DEF JoinsZero
    <3>2. i \in data[i] BY <3>1 DEF TypeOK
    <3>3. Reached(i)' BY <2>1, <3>1, <3>2 DEF Reached
    <3> QED BY <2>1, <2>2, <3>3 DEF Sound
  <2>4. CASE i \notin marker' BY <2>1, <2>2, <2>4 DEF Sound
  <2> QED BY <2>3, <2>4
<1>10. CASE LivenessKills(i) BY <1>10, SoundStop DEF LivenessKills, ghosts
<1>11. CASE HookChecks(i)
  <2>1. at[i] = "stop" /\ at'[i] \in {"down", "purge"} /\ UNCHANGED <<layout, volumes, touching, cut>>
    BY <1>11 DEF HookChecks, Goes, TypeOK, ghosts
  <2> QED BY <2>1, SoundMoves DEF volumes
<1>12. CASE HookPurges(i)
  <2>1. at'[i] = "down" /\ data'[i] = {} /\ i \notin marker' /\ UNCHANGED <<layout, touching>>
    BY <1>12 DEF HookPurges, Emptied, Goes, TypeOK
  <2> QED BY <2>1 DEF Sound
<1> QED BY <1>1, <1>2, <1>3, <1>4, <1>5, <1>6, <1>7, <1>8, <1>9, <1>10, <1>11, <1>12 DEF Container

LEMMA CleanupSound ==
    ASSUME TypeOK, TypeOK', NEW i \in Node, Sound(i), Cleanup(i) \/ PodDeleted(i) \/ Killed(i)
    PROVE  Sound(i)'
<1>1. CASE Flags(i) \/ FlagFails(i) \/ (Deletes(i) /\ ~Stoppable(i) /\ ~Wiping(i))
  <2>1. UNCHANGED <<layout, data, marker, at, touching, cut>>
    BY <1>1 DEF Flags, FlagFails, Deletes, volumes, ghosts
  <2> QED BY <2>1, SoundKept
<1>2. CASE Deletes(i) /\ Stoppable(i) BY <1>2, SoundStop DEF Deletes, Stoppable, Wiping
<1>5. CASE Deletes(i) /\ Wiping(i)
  <2>1. at'[i] = "down" /\ i \in cut' /\ touching' = touching
    BY <1>5 DEF Deletes, Stoppable, Wiping, Goes, TypeOK
  <2>2. i \notin touching BY <1>5 DEF Sound, Wiping
  <2> QED BY <2>1, <2>2 DEF Sound
<1>3. CASE PodDeleted(i) BY <1>3, SoundStop DEF PodDeleted, Stoppable, ghosts
<1>4. CASE Killed(i)
  <2>1. at'[i] = "down" /\ i \notin touching' /\ UNCHANGED <<layout, data, marker>>
    BY <1>4 DEF Killed, Goes, TypeOK, volumes
  <2>2. CASE i \in cut' BY <2>1, <2>2 DEF Sound
  <2>3. CASE i \notin cut'
    <3>1. at[i] # "wipe marker" /\ i \notin cut BY <1>4, <2>3 DEF Killed, Wiping
    <3> QED BY <2>1, <3>1, SoundMoves
  <2> QED BY <2>2, <2>3
<1> QED BY <1>1, <1>2, <1>3, <1>4, <1>5 DEF Cleanup

LEMMA SoundStep == TypeOK /\ SoundInv /\ [Next]_vars => SoundInv'
<1> SUFFICES ASSUME TypeOK, SoundInv, [Next]_vars, NEW j \in Node PROVE Sound(j)'
  BY DEF SoundInv
<1>0. TypeOK' /\ Sound(j) BY TypeStep DEF SoundInv
<1>1. CASE UNCHANGED vars \/ CleanBegins
  <2>1. UNCHANGED <<layout, data, marker, at, touching, cut>>
    BY <1>1 DEF vars, volumes, ghosts, CleanBegins
  <2> QED BY <1>0, <2>1, SoundKept
<1>2. ASSUME NEW i \in Node, Container(i) \/ Cleanup(i) \/ PodDeleted(i) \/ Killed(i)
      PROVE  Sound(j)'
  <2>1. CASE j = i BY <1>0, <1>2, <2>1, ContainerSound, CleanupSound
  <2>2. CASE j # i BY <1>0, <1>2, <2>2, Elsewhere
  <2> QED BY <2>1, <2>2
<1> QED BY <1>1, <1>2 DEF Next

\* started_at_least_once is only on a volume whose node has been in a cluster
\* of as many members as its ordinal asks for (host path: with node 0), unless
\* its end has interrupted rm or a probe has touched it after the hook.
THEOREM MarkerIsEarned == Spec => []MarkerEarned
<1>1. Init => TypeOK /\ SoundInv BY TypeInit DEF Init, SoundInv, Sound
<1>2. TypeOK /\ SoundInv /\ [Next]_vars => (TypeOK /\ SoundInv)' BY TypeStep, SoundStep
<1>3. TypeOK /\ SoundInv => MarkerEarned BY DEF TypeOK, SoundInv, Sound, Reached, MarkerEarned
<1> QED BY <1>1, <1>2, <1>3, PTL DEF Spec
----------------------------------------------------------------------------
\* A node that has its old data: its pod is not running any more, or not again,
\* once the operator is past it, and is on its way to the removal.
Doomed(i) == at[i] = "wipe data" \/ (i \in flag /\ at[i] \in {"down", "stop", "purge"})

Cleaned(i) ==
    /\ at[i] = "wipe marker" => data[i] = {} /\ i \notin old.kept
    /\ i \in old.kept \ cut =>
          /\ clean.next > i => Doomed(i)
          /\ clean = [next |-> i, flagged |-> TRUE] => i \in flag \/ at[i] = "wipe data"

CleanedInv == \A i \in Node : Cleaned(i)

\* A step that leaves the operator's progress, of a node that is as it was.
LEMMA CleanedKept ==
    ASSUME NEW i \in Node, Cleaned(i), at'[i] = at[i],
           data[i] = {} => data'[i] = {}, i \in flag => i \in flag',
           i \in old'.kept => i \in old.kept, i \in cut => i \in cut',
           \/ clean' = clean
           \/ ~(clean'.next > i) /\ clean' # [next |-> i, flagged |-> TRUE]
           \/ clean.next > i /\ clean'.next > i /\ clean' # [next |-> i, flagged |-> TRUE]
    PROVE  Cleaned(i)'
BY DEF Cleaned, Doomed

\* A step to another place, with the files that count as they were.
LEMMA CleanedMoves ==
    ASSUME NEW i \in Node, Cleaned(i), clean' = clean, at'[i] # "wipe marker",
           i \in old'.kept \ cut' => /\ i \in old.kept \ cut
                                     /\ i \in flag => i \in flag' \/ at'[i] = "wipe data"
                                     /\ Doomed(i) => Doomed(i)'
                                     /\ at[i] = "wipe data" => at'[i] = "wipe data"
    PROVE  Cleaned(i)'
BY DEF Cleaned

LEMMA ElsewhereCleaned ==
    ASSUME TypeOK, TypeOK', NEW i \in Node, NEW j \in Node, j # i, Cleaned(j),
           Container(i) \/ Cleanup(i) \/ PodDeleted(i) \/ Killed(i)
    PROVE  Cleaned(j)'
<1>1. at'[j] = at[j] /\ (data[j] = {} => data'[j] = {}) BY ElsewhereFrame
<1>2. j \in flag => j \in flag'
  BY DEF Container, Cleanup, PodDeleted, Killed, Entry, WipeData, WipeMarker, Discovers, Forms,
         Joins, MissesPeer, Boots, Awaits, Touches, JoinsZero, LivenessKills, HookChecks,
         HookPurges, Flags, FlagFails, Deletes, volumes
<1>3. j \in cut => j \in cut'
  BY DEF Container, Cleanup, PodDeleted, Killed, Entry, WipeData, WipeMarker, Discovers, Forms,
         Joins, MissesPeer, Boots, Awaits, Touches, JoinsZero, LivenessKills, HookChecks,
         HookPurges, Flags, FlagFails, Deletes, ghosts
<1>4. j \in old'.kept => j \in old.kept
  <2>1. ASSUME Emptied(i) PROVE j \in old'.kept => j \in old.kept BY <2>1 DEF Emptied
  <2>2. ASSUME NEW p, Joined(i, p) PROVE j \in old'.kept => j \in old.kept
    BY <2>2 DEF Joined, TypeOK
  <2>3. CASE WipeData(i) \/ HookPurges(i) BY <2>1, <2>3 DEF WipeData, HookPurges
  <2>4. CASE Joins(i) \/ JoinsZero(i) BY <2>2, <2>4 DEF Joins, JoinsZero
  <2>5. CASE \/ Entry(i) \/ WipeMarker(i) \/ Discovers(i) \/ Forms(i) \/ MissesPeer(i)
             \/ Boots(i) \/ Awaits(i) \/ Touches(i) \/ LivenessKills(i) \/ HookChecks(i)
    BY <2>5 DEF Entry, WipeMarker, Discovers, Forms, MissesPeer, Boots, Awaits, Touches,
                LivenessKills, HookChecks, ghosts
  <2>6. CASE Cleanup(i) \/ PodDeleted(i) \/ Killed(i)
    BY <2>6 DEF Cleanup, Flags, FlagFails, Deletes, PodDeleted, Killed, ghosts
  <2> QED BY <2>3, <2>4, <2>5, <2>6 DEF Container
<1>5. CASE Container(i) \/ PodDeleted(i) \/ Killed(i)
  <2>1. clean' = clean
    BY <1>5 DEF Container, PodDeleted, Killed, Entry, WipeData, WipeMarker, Discovers, Forms,
         Joins, MissesPeer, Boots, Awaits, Touches, JoinsZero, LivenessKills, HookChecks, HookPurges
  <2> QED BY <1>1, <1>2, <1>3, <1>4, <2>1, CleanedKept
<1>6. CASE Cleanup(i)
  <2>0. i \in Int /\ j \in Int /\ j >= 0 BY DEF Node
  <2>1. CASE Flags(i)
    <3>1. clean.next = i /\ clean'.next = i BY <2>1 DEF Flags, TypeOK
    <3>2. clean' # [next |-> j, flagged |-> TRUE] BY <3>1
    <3> QED BY <1>1, <1>2, <1>3, <1>4, <3>1, <3>2, CleanedKept
  <2>2. CASE FlagFails(i)
    <3>1. clean'.next = 0 /\ clean'.flagged = FALSE BY <2>2 DEF FlagFails, TypeOK
    <3>2. ~(clean'.next > j) /\ clean' # [next |-> j, flagged |-> TRUE] BY <2>0, <3>1
    <3> QED BY <1>1, <1>2, <1>3, <1>4, <3>2, CleanedKept
  <2>3. CASE Deletes(i)
    <3>1. clean.next = i /\ clean'.next = i + 1 /\ clean'.flagged = FALSE BY <2>3 DEF Deletes
    <3>2. /\ clean' # [next |-> j, flagged |-> TRUE]
          /\ ~(clean'.next > j) \/ (clean.next > j /\ clean'.next > j)
      BY <2>0, <3>1
    <3> QED BY <1>1, <1>2, <1>3, <1>4, <3>2, CleanedKept
  <2> QED BY <1>6, <2>1, <2>2, <2>3 DEF Cleanup
<1> QED BY <1>5, <1>6

\* A pod that runs and is stopped keeps its flag.
LEMMA CleanedStop ==
    ASSUME TypeOK, NEW i \in Node, Cleaned(i), Stoppable(i), Stopped(i),
           UNCHANGED <<volumes, clean, ghosts>>
    PROVE  Cleaned(i)'
<1>1. at'[i] \in {"stop", "down"} BY DEF Stopped, Goes, TypeOK
<1>2. ~Doomed(i) BY DEF Stoppable, Doomed
<1> QED BY <1>1, <1>2, CleanedMoves DEF Stoppable, volumes, ghosts

LEMMA ContainerCleaned ==
    ASSUME TypeOK, TypeOK', NEW i \in Node, Cleaned(i), Container(i)
    PROVE  Cleaned(i)'
<1>1. CASE Entry(i)
  <2>1. /\ at[i] = "down" /\ at'[i] = (IF i \in flag THEN "wipe data" ELSE "boot")
        /\ UNCHANGED <<clean, cut, old>>
    BY <1>1 DEF Entry, Goes, TypeOK, ghosts
  <2> QED BY <2>1, CleanedMoves DEF Doomed
<1>2. CASE WipeData(i)
  <2>1. at'[i] = "wipe marker" /\ data'[i] = {} /\ i \notin old'.kept
    BY <1>2 DEF WipeData, Emptied, Goes, TypeOK
  <2> QED BY <2>1 DEF Cleaned
<1>3. CASE WipeMarker(i)
  <2>1. at[i] = "wipe marker" /\ at'[i] = "boot" /\ UNCHANGED <<old, clean>>
    BY <1>3 DEF WipeMarker, Goes, TypeOK
  <2>2. i \notin old'.kept BY <2>1 DEF Cleaned
  <2> QED BY <2>1, <2>2 DEF Cleaned
<1>4. CASE Discovers(i) \/ MissesPeer(i) \/ Boots(i)
  <2>1. at[i] \in {"boot", "join"} /\ at'[i] \in {"boot", "join", "up"}
        /\ UNCHANGED <<flag, clean, cut, old>>
    <3>1. CASE Discovers(i) BY <3>1 DEF Discovers, Goes, TypeOK, volumes, ghosts
    <3>2. CASE MissesPeer(i) BY <3>2 DEF MissesPeer, Goes, TypeOK, volumes, ghosts
    <3>3. CASE Boots(i) BY <3>3 DEF Boots, Goes, TypeOK, volumes, ghosts
    <3> QED BY <1>4, <3>1, <3>2, <3>3
  <2> QED BY <2>1, CleanedMoves DEF Doomed
<1>5. CASE Forms(i)
  <2>1. at[i] = "join" /\ at'[i] = "up" /\ UNCHANGED <<flag, clean, cut, old>>
    BY <1>5 DEF Forms, Goes, TypeOK, ghosts
  <2> QED BY <2>1, CleanedMoves DEF Doomed
<1>6. CASE Joins(i)
  <2>1. at[i] = "join" /\ at'[i] = "up" /\ UNCHANGED <<flag, clean, cut>>
    BY <1>6 DEF Joins, Goes, TypeOK
  <2>2. old'.kept = old.kept BY <1>6 DEF Joins, Joined, TypeOK
  <2> QED BY <2>1, <2>2, CleanedMoves DEF Doomed
<1>7. CASE Awaits(i) BY <1>7, CleanedKept DEF Awaits, volumes, ghosts
<1>8. CASE Touches(i) BY <1>8, CleanedKept DEF Touches
<1>9. CASE JoinsZero(i)
  <2>1. at[i] = "up" /\ UNCHANGED <<at, flag, clean, cut>> BY <1>9 DEF JoinsZero
  <2>2. old'.kept = old.kept BY <1>9 DEF JoinsZero, Joined, TypeOK
  <2> QED BY <2>1, <2>2, CleanedMoves DEF Doomed
<1>10. CASE LivenessKills(i)
  <2>1. Stoppable(i) BY <1>10 DEF LivenessKills, Stoppable
  <2> QED BY <1>10, <2>1, CleanedStop DEF LivenessKills
<1>11. CASE HookChecks(i)
  <2>1. at[i] = "stop" /\ at'[i] \in {"down", "purge"} /\ UNCHANGED <<flag, clean, cut, old>>
    BY <1>11 DEF HookChecks, Goes, TypeOK, volumes, ghosts
  <2> QED BY <2>1, CleanedMoves DEF Doomed
<1>12. CASE HookPurges(i)
  <2>1. at'[i] = "down" /\ i \notin old'.kept BY <1>12 DEF HookPurges, Emptied, Goes, TypeOK
  <2> QED BY <2>1 DEF Cleaned
<1> QED BY <1>1, <1>2, <1>3, <1>4, <1>5, <1>6, <1>7, <1>8, <1>9, <1>10, <1>11, <1>12 DEF Container

LEMMA CleanupCleaned ==
    ASSUME TypeOK, TypeOK', NEW i \in Node, Cleaned(i), Cleanup(i) \/ PodDeleted(i) \/ Killed(i)
    PROVE  Cleaned(i)'
<1>0. i \in Int /\ i >= 0 BY DEF Node
<1>1. CASE Flags(i)
  <2>1. /\ clean.next = i /\ clean'.next = i /\ i \in flag'
        /\ UNCHANGED <<data, at, cut, old>>
    BY <1>1 DEF Flags, TypeOK, ghosts
  <2>2. ~(clean'.next > i) BY <1>0, <2>1
  <2> QED BY <2>1, <2>2 DEF Cleaned
<1>2. CASE FlagFails(i)
  <2>1. clean'.next = 0 /\ clean'.flagged = FALSE /\ UNCHANGED <<data, at, flag, cut, old>>
    BY <1>2 DEF FlagFails, TypeOK, volumes, ghosts
  <2>2. ~(clean'.next > i) /\ clean' # [next |-> i, flagged |-> TRUE] BY <1>0, <2>1
  <2> QED BY <2>1, <2>2, CleanedKept
<1>3. CASE Deletes(i)
  <2>1. /\ clean = [next |-> i, flagged |-> TRUE] /\ clean' = [next |-> i + 1, flagged |-> FALSE]
        /\ UNCHANGED <<data, flag, old>> /\ (i \in cut => i \in cut')
    BY <1>3 DEF Deletes, volumes
  <2>2. clean' # [next |-> i, flagged |-> TRUE] BY <2>1
  <2>3. CASE Stoppable(i)
    <3>1. at'[i] \in {"stop", "down"} BY <1>3, <2>3 DEF Deletes, Stopped, Goes, TypeOK
    <3>2. i \in old.kept \ cut => i \in flag BY <2>1, <2>3 DEF Cleaned, Stoppable
    <3> QED BY <2>1, <2>2, <3>1, <3>2 DEF Cleaned, Doomed
  <2>5. CASE Wiping(i)
    <3>1. at'[i] = "down" /\ i \in cut'
      BY <1>3, <2>5 DEF Deletes, Stoppable, Wiping, Goes, TypeOK
    <3> QED BY <3>1 DEF Cleaned
  <2>4. CASE ~Stoppable(i) /\ ~Wiping(i)
    <3>1. at'[i] = at[i] /\ cut' = cut BY <1>3, <2>4 DEF Deletes
    <3>2. i \in old.kept \ cut => at[i] # "wipe marker" BY DEF Cleaned
    <3>3. at[i] \in {"down", "wipe data", "wipe marker", "stop", "purge"}
      BY <2>4 DEF Stoppable, TypeOK, Places
    <3>4. i \in old.kept \ cut => Doomed(i) BY <2>1, <3>2, <3>3 DEF Cleaned, Doomed
    <3> QED BY <2>1, <2>2, <3>1, <3>4 DEF Cleaned, Doomed
  <2> QED BY <2>3, <2>4, <2>5
<1>4. CASE PodDeleted(i) BY <1>4, CleanedStop DEF PodDeleted
<1>5. CASE Killed(i)
  <2>1. at'[i] = "down" /\ UNCHANGED <<flag, clean, old>> /\ (i \in cut => i \in cut')
    BY <1>5 DEF Killed, Goes, TypeOK, volumes
  <2>2. i \notin cut' => at[i] # "wipe data" BY <1>5 DEF Killed, Wiping
  <2> QED BY <2>1, <2>2, CleanedMoves DEF Doomed
<1> QED BY <1>1, <1>2, <1>3, <1>4, <1>5 DEF Cleanup

LEMMA CleanedStep == TypeOK /\ CleanedInv /\ [Next]_vars => CleanedInv'
<1> SUFFICES ASSUME TypeOK, CleanedInv, [Next]_vars, NEW j \in Node PROVE Cleaned(j)'
  BY DEF CleanedInv
<1>0. TypeOK' /\ Cleaned(j) BY TypeStep DEF CleanedInv
<1>1. CASE UNCHANGED vars BY <1>0, <1>1, CleanedKept DEF vars, volumes, ghosts
<1>2. CASE CleanBegins
  <2>1. /\ UNCHANGED <<data, at, flag, cut>> /\ clean'.next = 0 /\ clean'.flagged = FALSE
        /\ old'.kept = {i \in Node : data[i] # {}}
    BY <1>2 DEF CleanBegins, volumes
  <2>2. ~(clean'.next > j) /\ clean' # [next |-> j, flagged |-> TRUE] BY <2>1 DEF Node
  <2> QED BY <1>0, <2>1, <2>2 DEF Cleaned
<1>3. ASSUME NEW i \in Node, Container(i) \/ Cleanup(i) \/ PodDeleted(i) \/ Killed(i)
      PROVE  Cleaned(j)'
  <2>1. CASE j = i BY <1>0, <1>3, <2>1, ContainerCleaned, CleanupCleaned
  <2>2. CASE j # i BY <1>0, <1>3, <2>2, ElsewhereCleaned
  <2> QED BY <2>1, <2>2
<1> QED BY <1>1, <1>2, <1>3 DEF Next

\* Once clean_rabbitmq_pvs has been through all pods, no pod comes up again with
\* the volume it had: whatever was deleted, killed, failed or retried meanwhile,
\* its flag is still there or its removal has begun.
THEOREM CleanupIsThorough == Spec => []CleanupDeletes
<1>1. Init => TypeOK /\ CleanedInv BY TypeInit DEF Init, CleanedInv, Cleaned
<1>2. TypeOK /\ CleanedInv /\ [Next]_vars => (TypeOK /\ CleanedInv)' BY TypeStep, CleanedStep
<1>3. TypeOK /\ CleanedInv => CleanupDeletes
  <2> SUFFICES ASSUME TypeOK, CleanedInv, clean.next = N, NEW i \in Node, i \in old.kept \ cut
               PROVE  at[i] # "up"
    BY DEF CleanupDeletes
  <2>1. clean.next > i BY Nodes DEF Node
  <2> QED BY <2>1 DEF CleanedInv, Cleaned, Doomed
<1> QED BY <1>1, <1>2, <1>3, PTL DEF Spec
=============================================================================
