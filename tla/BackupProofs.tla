---------------------------- MODULE BackupProofs ----------------------------
(***************************************************************************)
(* What a backup that reports success holds, what a restore from it brings *)
(* back, and what a restore does that stops or cannot read a file, for any *)
(* number of virtual hosts, objects, changes and faults.                   *)
(***************************************************************************)
EXTENDS Clients, TLAPS

Definitions == [VHost -> {None} \cup SUBSET Object]
Ents(s)     == {s[k] : k \in DOMAIN s}

\* The file of an entry holds what there was at a moment of the backup.
Good(e) == /\ Readable(e)
           /\ \E d \in had : folder[e] = Content(e, d) /\ (e \in VHost => d[e] # None)

\* All that is in the file of an entry is in the broker again.
Back(e) == \A v \in VHost \ touched :
              e \in {v, All} /\ v \in DOMAIN folder[e] =>
                 definition[v] # None /\ folder[e][v] \subseteq definition[v]

Shape ==
    /\ definition \in Definitions /\ had \subseteq Definitions
    /\ folder \in [Entry -> {None, Torn} \cup Contents]
    /\ job = [pc |-> job.pc, list |-> job.list, todo |-> job.todo, backup |-> job.backup,
              result |-> job.result]
    /\ job.backup \in {None} \cup Contents
    /\ created = [list |-> created.list, exit |-> created.exit]
    /\ job.list \in Seq(Entry) /\ job.todo \in Seq(Entry) /\ Ents(job.todo) \subseteq Ents(job.list)

\* During the backup the entries are done or still to do.
SavingInv ==
    /\ job.pc \in {"get", "write"} =>
          /\ definition \in had /\ created.exit # 0
          /\ \A e \in Ents(job.list) : Good(e) \/ e \in Ents(job.todo)
    /\ job.pc = "write" =>
          \E d \in had : LET e == Head(job.todo) IN
             job.todo # <<>> /\ job.backup = Content(e, d) /\ (e \in VHost => d[e] # None)
    /\ created.exit = 0 => \A e \in Ents(created.list) : Good(e)

\* So they are during a restore of the entries of a complete backup, which
\* imports the file it has just read.
OfComplete == created.exit = 0 /\ job.list = created.list

RestoringInv ==
    OfComplete =>
       /\ job.pc \in {"read", "put", "post"} =>
             \A e \in Ents(job.list) : Back(e) \/ e \in Ents(job.todo)
       /\ job.pc \in {"put", "post"} => job.todo # <<>> /\ job.backup = folder[Head(job.todo)]
       /\ job.pc = "returned" /\ job.result = 0 => \A e \in Ents(job.list) : Back(e)

BackupInv == Shape /\ SavingInv /\ RestoringInv

\* Entries that are taken from the front of a list.
LEMMA Taken ==
    ASSUME NEW s \in Seq(Entry), s # <<>>
    PROVE  /\ Head(s) \in Entry /\ Tail(s) \in Seq(Entry) /\ Head(s) \in Ents(s)
           /\ Ents(s) = {Head(s)} \cup Ents(Tail(s))
<1>1. Head(s) \in Entry /\ Tail(s) \in Seq(Entry) OBVIOUS
<1>2. Len(s) \in Nat \ {0} /\ DOMAIN s = 1..Len(s) OBVIOUS
<1>3. Len(Tail(s)) = Len(s) - 1 /\ DOMAIN Tail(s) = 1..(Len(s) - 1) BY <1>1, <1>2
<1>4. \A k \in 1..(Len(s) - 1) : Tail(s)[k] = s[k + 1] BY <1>2
<1>5. Head(s) = s[1] OBVIOUS
<1>6. Ents(s) \subseteq {Head(s)} \cup Ents(Tail(s))
  <2> SUFFICES ASSUME NEW k \in 1..Len(s), k # 1 PROVE s[k] \in Ents(Tail(s)) BY <1>2, <1>5 DEF Ents
  <2>1. k - 1 \in 1..(Len(s) - 1) /\ (k - 1) + 1 = k BY <1>2
  <2>2. Tail(s)[k - 1] = s[k] BY <1>4, <2>1
  <2> QED BY <1>3, <2>1, <2>2 DEF Ents
<1>7. Ents(Tail(s)) \subseteq Ents(s)
  <2> SUFFICES ASSUME NEW k \in 1..(Len(s) - 1) PROVE Tail(s)[k] \in Ents(s) BY <1>3 DEF Ents
  <2>1. k + 1 \in 1..Len(s) BY <1>2
  <2> QED BY <1>2, <1>4, <2>1 DEF Ents
<1>8. Head(s) \in Ents(s) BY <1>2, <1>5 DEF Ents
<1> QED BY <1>1, <1>6, <1>7, <1>8

LEMMA ContentType ==
    ASSUME NEW e \in Entry, NEW d \in Definitions
    PROVE  Content(e, d) \in Contents /\ Content(e, d) \notin {None, Torn}
<1> DEFINE V == {w \in VHost : e \in {All, w} /\ d[w] # None}
<1>1. V \in SUBSET VHost OBVIOUS
<1>2. \A v \in V : d[v] \in SUBSET Object BY DEF Definitions
<1>3. Content(e, d) = [v \in V |-> d[v]] BY DEF Content
<1> HIDE DEF V
<1>4. Content(e, d) \in [V -> SUBSET Object] BY <1>2, <1>3
<1> QED BY <1>1, <1>4, BackupAssumption DEF Contents

LEMMA ListType == \A l \in Lists \cup {<<All>>} : l \in Seq(Entry)
<1> SUFFICES ASSUME NEW l \in Lists \cup {<<All>>} PROVE l \in Seq(Entry) OBVIOUS
<1>1. CASE l = <<All>>
  <2>1. All \in Entry BY DEF Entry
  <2> QED BY <1>1, <2>1
<1>2. CASE l \in Seq(VHost)
  <2>1. VHost \subseteq Entry BY DEF Entry
  <2>2. l \in [1..Len(l) -> VHost] /\ Len(l) \in Nat BY <1>2
  <2>3. l \in [1..Len(l) -> Entry] BY <2>1, <2>2
  <2> QED BY <2>2, <2>3
<1> QED BY <1>1, <1>2, BackupAssumption

LEMMA BackupInits == Init => BackupInv
<1> SUFFICES ASSUME Init PROVE BackupInv OBVIOUS
<1>1. definition \in Definitions /\ had = {definition} BY DEF Init, BrokerInit, BackupInit, Definitions
<1>2. folder = [e \in Entry |-> None] /\ created = [list |-> <<>>, exit |-> None]
  BY DEF Init, BackupInit
<1>3. PICK l \in Lists \cup {<<All>>} : job = Started("get", l) BY DEF Init, BackupInit
<1>4. l \in Seq(Entry) BY ListType
<1>5. job.pc = "get" /\ job.list = l /\ job.todo = l BY <1>3 DEF Started
<1>6. Shape BY <1>1, <1>2, <1>3, <1>4, <1>5 DEF Shape, Started
<1>7. created.exit # 0 BY <1>2, BrokerAssumption
<1> QED BY <1>1, <1>5, <1>6, <1>7 DEF BackupInv, SavingInv, RestoringInv, OfComplete
----------------------------------------------------------------------------
\* What others do: users may change definitions, and nothing else that the
\* scripts look at.
LEMMA UsersKeep ==
    ASSUME BackupInv, UNCHANGED <<folder, job, created>>, definition' \in Definitions,
           had' = IF job.pc \in {"get", "write"} THEN had \cup {definition'} ELSE had,
           touched' = touched \cup {v \in VHost : definition'[v] # definition[v]}
    PROVE  BackupInv'
<1>1. Shape' BY DEF BackupInv, Shape
<1>2. \A e : Good(e) => Good(e)' BY DEF Good, Readable
<1>3. SavingInv'
  <2>1. job.pc = "write" =>
          \E d \in had' : LET e == Head(job.todo) IN
             job.todo # <<>> /\ job.backup = Content(e, d) /\ (e \in VHost => d[e] # None)
    BY DEF BackupInv, SavingInv
  <2> QED BY <1>2, <2>1 DEF BackupInv, SavingInv
<1>4. \A e : Back(e) => Back(e)' BY DEF Back
<1>5. RestoringInv' BY <1>4 DEF BackupInv, RestoringInv, OfComplete
<1> QED BY <1>1, <1>3, <1>5 DEF BackupInv

LEMMA NothingKeeps ==
    ASSUME BackupInv, UNCHANGED <<backup, definition>>
    PROVE  BackupInv'
<1>1. Shape' BY DEF BackupInv, Shape, backup
<1>2. \A e : (Good(e) <=> Good(e)') /\ (Back(e) <=> Back(e)') BY DEF Good, Readable, Back, backup
<1>3. SavingInv' BY <1>2 DEF BackupInv, SavingInv, backup
<1>4. RestoringInv' BY <1>2 DEF BackupInv, RestoringInv, OfComplete, backup
<1> QED BY <1>1, <1>3, <1>4 DEF BackupInv

\* A script that ends with exit code n in the middle of a backup, or at its
\* end with all entries done.
LEMMA ExitKeeps ==
    ASSUME BackupInv, job.pc \in {"get", "write"}, NEW n \in {0, 1}, Exits(n),
           n = 0 => folder' = folder /\ \A e \in Ents(job.list) : Good(e),
           folder' \in [Entry -> {None, Torn} \cup Contents]
    PROVE  BackupInv'
<1>1. /\ job' = [job EXCEPT !.pc = "exited", !.result = n]
      /\ created' = [list |-> job.list, exit |-> n] /\ UNCHANGED <<definition, had, touched>>
  BY DEF Exits, Ends
<1>2. /\ job'.pc = "exited" /\ job'.list = job.list /\ job'.todo = job.todo
      /\ created'.exit = n /\ created'.list = job.list
  BY <1>1 DEF BackupInv, Shape
<1>3. Shape' BY <1>1, <1>2 DEF BackupInv, Shape
<1>4. n = 0 => \A e \in Ents(job.list) : Good(e)' BY <1>1 DEF Good, Readable
<1>5. SavingInv' BY <1>2, <1>4 DEF SavingInv
<1>6. RestoringInv' BY <1>2 DEF RestoringInv
<1> QED BY <1>3, <1>5, <1>6 DEF BackupInv

LEMMA BackupRuns ==
    ASSUME BackupInv, NEW e \in Entry, Gets(e) \/ GetFails(e) \/ Writes(e) \/ WriteFails(e)
    PROVE  BackupInv'
<1>0. e = Head(job.todo) /\ job.todo # <<>> /\ job.todo \in Seq(Entry)
  BY DEF Gets, GetFails, Writes, WriteFails, Entering, BackupInv, Shape
<1>1. CASE Gets(e)
  <2>1. /\ job.pc = "get" /\ job' = [job EXCEPT !.pc = "write", !.backup = Content(e, definition)]
        /\ UNCHANGED <<definition, folder, created, had, touched>>
        /\ e \in VHost => definition[e] # None
    BY <1>1 DEF Gets, Exists
  <2>2. /\ job'.pc = "write" /\ job'.list = job.list /\ job'.todo = job.todo
        /\ job'.backup = Content(e, definition)
    BY <2>1 DEF BackupInv, Shape
  <2>3. Shape'
    <3>1. job'.backup \in Contents BY <2>2, ContentType DEF BackupInv, Shape
    <3> QED BY <2>1, <2>2, <3>1 DEF BackupInv, Shape
  <2>4. \A x : Good(x) => Good(x)' BY <2>1 DEF Good, Readable
  <2>5. SavingInv'
    <3>1. definition \in had BY <2>1 DEF BackupInv, SavingInv
    <3>2. \E d \in had' : job'.backup = Content(e, d) /\ (e \in VHost => d[e] # None)
      BY <2>1, <2>2, <3>1
    <3> QED BY <1>0, <2>1, <2>2, <2>4, <3>1, <3>2 DEF BackupInv, SavingInv
  <2>6. RestoringInv' BY <2>2 DEF RestoringInv
  <2> QED BY <2>3, <2>5, <2>6 DEF BackupInv
<1>2. CASE GetFails(e)
  <2>1. job.pc = "get" /\ Exits(1) /\ folder' = folder BY <1>2 DEF GetFails
  <2> QED BY <2>1, ExitKeeps DEF BackupInv, Shape
<1>3. CASE Writes(e)
  <2>1. /\ job.pc = "write" /\ folder' = [folder EXCEPT ![e] = job.backup]
        /\ job' = [job EXCEPT !.pc = "get", !.todo = Tail(@)]
        /\ UNCHANGED <<definition, created, had, touched>>
    BY <1>3 DEF Writes
  <2>2. job'.pc = "get" /\ job'.list = job.list /\ job'.todo = Tail(job.todo) BY <2>1 DEF BackupInv, Shape
  <2>3. PICK d \in had : job.backup = Content(e, d) /\ (e \in VHost => d[e] # None)
    BY <1>0, <2>1 DEF BackupInv, SavingInv
  <2>4. job.backup \in Contents /\ job.backup \notin {None, Torn}
    BY <2>3, ContentType DEF BackupInv, Shape
  <2>5. /\ Tail(job.todo) \in Seq(Entry)
        /\ Ents(job.todo) = {e} \cup Ents(Tail(job.todo))
    BY <1>0, Taken
  <2>6. Shape'
    <3>1. folder' \in [Entry -> {None, Torn} \cup Contents] BY <2>1, <2>4 DEF BackupInv, Shape
    <3> QED BY <2>1, <2>2, <2>5, <3>1 DEF BackupInv, Shape
  <2>7. Good(e)'
    <3>1. folder'[e] = job.backup BY <2>1 DEF BackupInv, Shape
    <3> QED BY <2>1, <2>3, <2>4, <3>1 DEF Good, Readable
  <2>8. ASSUME NEW x \in Ents(job.list), Good(x) PROVE Good(x)'
    <3>1. CASE x = e BY <2>7, <3>1
    <3>2. CASE x # e
      <4>1. folder'[x] = folder[x] BY <2>1, <3>2 DEF BackupInv, Shape
      <4> QED BY <2>1, <2>8, <4>1 DEF Good, Readable
    <3> QED BY <3>1, <3>2
  <2>9. SavingInv' BY <2>1, <2>2, <2>5, <2>7, <2>8 DEF BackupInv, SavingInv
  <2>10. RestoringInv' BY <2>2 DEF RestoringInv
  <2> QED BY <2>6, <2>9, <2>10 DEF BackupInv
<1>4. CASE WriteFails(e)
  <2>1. job.pc = "write" /\ Exits(1) /\ folder' = [folder EXCEPT ![e] = Torn] BY <1>4 DEF WriteFails
  <2>2. folder' \in [Entry -> {None, Torn} \cup Contents] BY <2>1 DEF BackupInv, Shape
  <2> QED BY <2>1, <2>2, ExitKeeps
<1> QED BY <1>1, <1>2, <1>3, <1>4

LEMMA BackupStops == ASSUME BackupInv, BackupEnds PROVE BackupInv'
<1>1. job.pc = "get" /\ job.todo = <<>> /\ Exits(0) /\ folder' = folder BY DEF BackupEnds
<1>2. \A e \in Ents(job.list) : Good(e) BY <1>1 DEF BackupInv, SavingInv, Ents
<1> QED BY <1>1, <1>2, ExitKeeps DEF BackupInv, Shape
----------------------------------------------------------------------------
\* Virtual hosts that only get more keep what is back.
LEMMA BackGrows ==
    ASSUME \A v \in VHost : definition[v] # None =>
              definition'[v] # None /\ definition[v] \subseteq definition'[v],
           UNCHANGED <<folder, touched>>, NEW e, Back(e)
    PROVE  Back(e)'
BY DEF Back

\* What an import makes of each virtual host.
LEMMA ImportAdds ==
    ASSUME BackupInv, NEW e \in Entry, Importable(e), definition' = Imported(e),
           NEW c, c = job.backup, NEW v \in VHost
    PROVE  /\ definition'[v] \in {None} \cup SUBSET Object
           /\ definition[v] # None => definition'[v] # None /\ definition[v] \subseteq definition'[v]
           /\ e = v => definition'[v] # None /\ Objects(c) \subseteq definition'[v]
           /\ e = All /\ v \in DOMAIN c => definition'[v] # None /\ c[v] \subseteq definition'[v]
           /\ \/ definition'[v] = definition[v]
              \/ /\ e \in {v, All} /\ definition'[v] # None
                 /\ definition'[v] \subseteq
                      (IF definition[v] = None THEN {} ELSE definition[v]) \cup Objects(c)
<1>1. DOMAIN c \subseteq VHost /\ \A w \in DOMAIN c : c[w] \subseteq Object
  BY DEF Importable, BackupInv, Shape, Contents
<1>2. Objects(c) \subseteq Object /\ \A w \in DOMAIN c : c[w] \subseteq Objects(c) BY <1>1 DEF Objects
<1>3. \A S \in SUBSET Object : S # None BY BrokerAssumption
<1>4. definition[v] \in {None} \cup SUBSET Object /\ (e \in VHost => definition[e] # None) /\ All # v
  BY BackupAssumption DEF BackupInv, Shape, Definitions, Importable, Exists
<1>5. definition'[v] = IF e = v THEN definition[v] \cup Objects(c)
                       ELSE IF e = All /\ v \in DOMAIN c
                       THEN (IF definition[v] = None THEN {} ELSE definition[v]) \cup c[v]
                       ELSE definition[v]
  BY DEF Imported
<1>6. CASE e = v
  <2>1. definition[v] \in SUBSET Object BY <1>4, <1>6
  <2>2. definition'[v] = definition[v] \cup Objects(c) BY <1>5, <1>6
  <2> QED BY <1>2, <1>3, <1>4, <1>6, <2>1, <2>2
<1>7. CASE e = All /\ v \in DOMAIN c
  <2>1. definition'[v] = (IF definition[v] = None THEN {} ELSE definition[v]) \cup c[v]
    BY <1>4, <1>5, <1>7
  <2>2. c[v] \subseteq Object BY <1>1, <1>7
  <2> QED BY <1>2, <1>3, <1>4, <1>7, <2>1, <2>2
<1>8. CASE e # v /\ ~(e = All /\ v \in DOMAIN c)
  <2>1. definition'[v] = definition[v] BY <1>5, <1>8
  <2> QED BY <1>4, <1>8, <2>1
<1> QED BY <1>6, <1>7, <1>8

\* An import adds, and brings back the file it was read from.
LEMMA ImportGrows ==
    ASSUME BackupInv, NEW e \in Entry, Importable(e), definition' = Imported(e),
           UNCHANGED <<folder, touched>>
    PROVE  /\ definition' \in Definitions
           /\ \A x : Back(x) => Back(x)'
           /\ job.backup = folder[e] /\ Good(e) => Back(e)'
<1>1. ASSUME NEW v \in VHost
      PROVE  /\ definition'[v] \in {None} \cup SUBSET Object
             /\ definition[v] # None => definition'[v] # None /\ definition[v] \subseteq definition'[v]
  BY ImportAdds
<1>2. definition' \in Definitions BY <1>1 DEF Imported, Definitions
<1>3. \A x : Back(x) => Back(x)' BY <1>1, BackGrows
<1>4. ASSUME job.backup = folder[e] PROVE Back(e)'
  <2> SUFFICES ASSUME NEW v \in VHost \ touched, e \in {v, All}, v \in DOMAIN folder[e]
               PROVE  definition'[v] # None /\ folder[e][v] \subseteq definition'[v]
    BY DEF Back
  <2>1. folder[e][v] \subseteq Objects(folder[e]) BY DEF Objects
  <2> QED BY <1>4, <2>1, ImportAdds
<1> QED BY <1>2, <1>3, <1>4

LEMMA RestoreStarts ==
    ASSUME BackupInv, NEW l \in Lists, RestoreBegins(l)
    PROVE  BackupInv'
<1>1. /\ job.pc = "exited" /\ job' = Started("read", l)
      /\ UNCHANGED <<definition, folder, created, had>>
  BY DEF RestoreBegins
<1>2. l \in Seq(Entry) BY ListType
<1>3. job'.pc = "read" /\ job'.list = l /\ job'.todo = l BY <1>1 DEF Started
<1>4. Shape' BY <1>1, <1>2 DEF BackupInv, Shape, Started
<1>5. SavingInv' BY <1>1, <1>3 DEF BackupInv, SavingInv, Good, Readable
<1>6. RestoringInv' BY <1>3 DEF RestoringInv
<1> QED BY <1>4, <1>5, <1>6 DEF BackupInv

LEMMA RestoreRuns ==
    ASSUME BackupInv, NEW e \in Entry, Reads(e) \/ CreatesVHost(e) \/ Posts(e) \/ RequestFails(e)
    PROVE  BackupInv'
<1>0. /\ e = Head(job.todo) /\ job.todo # <<>> /\ job.todo \in Seq(Entry)
      /\ UNCHANGED <<folder, created, had, touched>>
  BY DEF Reads, CreatesVHost, Posts, RequestFails, Entering, BackupInv, Shape
<1>1. \A x : Good(x)' <=> Good(x) BY <1>0 DEF Good, Readable
<1>2. e \in Ents(job.list) /\ Ents(job.todo) = {e} \cup Ents(Tail(job.todo)) /\ Tail(job.todo) \in Seq(Entry)
  BY <1>0, Taken DEF BackupInv, Shape
<1>3. OfComplete => Good(e) BY <1>2 DEF BackupInv, SavingInv, OfComplete
<1>4. ASSUME job'.pc \in {"read", "put", "post", "returned"} PROVE SavingInv'
  BY <1>0, <1>1, <1>4 DEF BackupInv, SavingInv
<1>9. /\ Created(e) \in Definitions
      /\ \A v \in VHost : definition[v] # None => Created(e)[v] = definition[v]
  BY DEF BackupInv, Shape, Definitions, Created
<1>5. CASE Reads(e)
  <2> DEFINE b == IF Readable(e) THEN folder[e] ELSE job.backup
  <2>1. PICK pc \in {"put", "post"} : job' = [job EXCEPT !.backup = b, !.pc = pc] BY <1>5 DEF Reads
  <2>2. definition' = definition /\ job.pc = "read" BY <1>5 DEF Reads
  <2>3. b \in {None} \cup Contents BY DEF BackupInv, Shape, Readable
  <2>4. OfComplete => b = folder[e] BY <1>3 DEF Good
  <2> HIDE DEF b
  <2>5. /\ job'.pc \in {"put", "post"} /\ job'.list = job.list /\ job'.todo = job.todo
        /\ job'.backup = b
    BY <2>1 DEF BackupInv, Shape
  <2>6. Shape' BY <1>0, <2>1, <2>2, <2>3, <2>5 DEF BackupInv, Shape
  <2>7. RestoringInv' BY <1>0, <2>2, <2>4, <2>5 DEF BackupInv, RestoringInv, OfComplete, Back
  <2> QED BY <1>4, <2>5, <2>6, <2>7 DEF BackupInv
<1>6. CASE CreatesVHost(e)
  <2>1. job.pc = "put" /\ job' = [job EXCEPT !.pc = "post"] /\ definition' = Created(e)
    BY <1>6 DEF CreatesVHost
  <2>2. /\ job'.pc = "post" /\ job'.list = job.list /\ job'.todo = job.todo
        /\ job'.backup = job.backup
    BY <2>1 DEF BackupInv, Shape
  <2>3. definition' \in Definitions BY <1>9, <2>1
  <2>4. \A v \in VHost : definition[v] # None => definition'[v] = definition[v] BY <1>9, <2>1
  <2>5. \A x : Back(x) => Back(x)' BY <1>0, <2>4, BackGrows
  <2>6. Shape' BY <1>0, <2>1, <2>2, <2>3 DEF BackupInv, Shape
  <2>7. RestoringInv' BY <1>0, <2>1, <2>2, <2>5 DEF BackupInv, RestoringInv, OfComplete
  <2> QED BY <1>4, <2>2, <2>6, <2>7 DEF BackupInv
<1>7. CASE Posts(e)
  <2>1. /\ job.pc = "post" /\ job' = [job EXCEPT !.pc = "read", !.todo = Tail(@)]
        /\ Importable(e) /\ definition' = Imported(e)
    BY <1>7 DEF Posts
  <2>2. /\ job'.pc = "read" /\ job'.list = job.list /\ job'.todo = Tail(job.todo)
        /\ job'.backup = job.backup
    BY <2>1 DEF BackupInv, Shape
  <2>3. /\ definition' \in Definitions /\ \A x : Back(x) => Back(x)'
        /\ job.backup = folder[e] /\ Good(e) => Back(e)'
    BY <1>0, <2>1, ImportGrows
  <2>4. OfComplete => Back(e)' BY <1>0, <1>3, <2>1, <2>3 DEF BackupInv, RestoringInv
  <2>5. Shape' BY <1>0, <1>2, <2>1, <2>2, <2>3 DEF BackupInv, Shape
  <2>6. RestoringInv' BY <1>0, <1>2, <2>1, <2>2, <2>3, <2>4 DEF BackupInv, RestoringInv, OfComplete
  <2> QED BY <1>4, <2>2, <2>5, <2>6 DEF BackupInv
<1>8. CASE RequestFails(e)
  <2>1. job' = [job EXCEPT !.pc = "returned", !.result = 1] BY <1>8 DEF RequestFails, Ends
  <2>2. /\ job'.pc = "returned" /\ job'.result = 1 /\ job'.list = job.list
        /\ job'.todo = job.todo /\ job'.backup = job.backup
    BY <2>1 DEF BackupInv, Shape
  <2>3. \/ definition' \in {definition, Created(e)}
        \/ Importable(e) /\ definition' = Imported(e)
    BY <1>8 DEF RequestFails
  <2>4. definition' \in Definitions BY <1>0, <1>9, <2>3, ImportGrows DEF BackupInv, Shape
  <2>5. Shape' BY <1>0, <2>1, <2>2, <2>4 DEF BackupInv, Shape
  <2>6. RestoringInv' BY <2>2 DEF RestoringInv
  <2> QED BY <1>4, <2>2, <2>5, <2>6 DEF BackupInv
<1> QED BY <1>5, <1>6, <1>7, <1>8

LEMMA RestoreStops == ASSUME BackupInv, RestoreEnds PROVE BackupInv'
<1>1. /\ job.pc = "read" /\ job.todo = <<>> /\ job' = [job EXCEPT !.pc = "returned", !.result = 0]
      /\ UNCHANGED <<definition, folder, created, had, touched>>
  BY DEF RestoreEnds, Ends
<1>2. /\ job'.pc = "returned" /\ job'.list = job.list /\ job'.todo = job.todo
      /\ job'.backup = job.backup
  BY <1>1 DEF BackupInv, Shape
<1>3. Shape' BY <1>1, <1>2 DEF BackupInv, Shape
<1>4. SavingInv' BY <1>1, <1>2 DEF BackupInv, SavingInv, Good, Readable
<1>5. Ents(job.todo) = {} BY <1>1 DEF Ents
<1>6. RestoringInv' BY <1>1, <1>2, <1>5 DEF BackupInv, RestoringInv, OfComplete, Back
<1> QED BY <1>3, <1>4, <1>6 DEF BackupInv
----------------------------------------------------------------------------
LEMMA BackupSteps == BackupInv /\ [Next]_vars => BackupInv'
<1> SUFFICES ASSUME BackupInv, [Next]_vars PROVE BackupInv' OBVIOUS
<1>0. definition \in Definitions BY DEF BackupInv, Shape
<1>1. CASE UNCHANGED vars BY <1>1, NothingKeeps DEF vars, others, broker
<1>2. CASE NodesChange \/ ItemsMove \/ ShovelsChange \/ StatsChange
  <2>1. Recorded /\ definition' = definition
    BY <1>2 DEF NodesChange, NodeStops, NodeStarts, NodeLeaves, ItemsMove, ItemMoves,
                ShovelsChange, ShovelChanges, StatsChange, StatisticsChange
  <2> QED BY <1>0, <2>1, UsersKeep DEF Recorded
<1>3. CASE UsersChange
  <2>1. PICK v \in VHost : UserChanges(v) BY <1>3 DEF UsersChange
  <2>2. PICK c \in {None, {}, Object} : definition' = [definition EXCEPT ![v] = c]
    BY <2>1 DEF UserChanges
  <2>3. definition' \in Definitions BY <1>0, <2>2 DEF Definitions
  <2> QED BY <1>3, <2>3, UsersKeep DEF UsersChange, Recorded
<1>4. CASE Scrape BY <1>4, NothingKeeps DEF Scrape, broker
<1>5. CASE Backup
  <2>1. ASSUME NEW l \in Lists, RestoreBegins(l) PROVE BackupInv' BY <2>1, RestoreStarts
  <2>2. ASSUME NEW e \in Entry, \/ Gets(e) \/ GetFails(e) \/ Writes(e) \/ WriteFails(e)
                                \/ Reads(e) \/ CreatesVHost(e) \/ Posts(e) \/ RequestFails(e)
        PROVE  BackupInv'
    BY <2>2, BackupRuns, RestoreRuns
  <2> QED BY <1>5, <2>1, <2>2, BackupStops, RestoreStops DEF Backup, BackupStep
<1>6. CASE Shovels
  <2>1. definition' = definition
    BY <1>6 DEF Shovels, ShovelRun, ListsNoShovel, ListsShovels, AllValid, PodsReady, PodsNotReady,
                ListsPods, AllRestarted, Validates, Invalid, Disables, Misses, Enables, ExecFails, Still
  <2> QED BY <1>6, <2>1, NothingKeeps DEF Shovels
<1>7. CASE Ticks BY <1>7, NothingKeeps DEF Ticks, ShovelTick, ClusterTick, Still, broker
<1> QED BY <1>1, <1>2, <1>3, <1>4, <1>5, <1>6, <1>7 DEF Next

\* A backup that exits with 0 has, for each of its entries, a file that holds
\* what the broker had at a moment of the backup.
THEOREM BackupTellsTruth == Spec => []BackupIsTrue
<1>1. BackupInv => BackupIsTrue
  BY DEF BackupInv, SavingInv, BackupIsTrue, Good, Ents
<1> QED BY <1>1, BackupInits, BackupSteps, PTL DEF Spec

\* A restore of a complete backup that ends without an error brings back all
\* that was defined at a moment of the backup, where users do not interfere.
THEOREM RoundTripComplete == Spec => []RoundTrip
<1>1. BackupInv => RoundTrip
  <2> SUFFICES ASSUME BackupInv, job.pc = "returned", job.result = 0, OfComplete,
                      NEW k \in DOMAIN job.list
               PROVE  \E d \in had : \A v \in VHost \ touched :
                         job.list[k] \in {v, All} =>
                            \/ job.list[k] = All /\ d[v] = None
                            \/ None \notin {d[v], definition[v]} /\ d[v] \subseteq definition[v]
    BY DEF RoundTrip, OfComplete
  <2> DEFINE e == job.list[k]
  <2>1. e \in Ents(job.list) BY DEF Ents
  <2>2. Good(e) /\ Back(e) BY <2>1 DEF BackupInv, SavingInv, RestoringInv, OfComplete
  <2> HIDE DEF e
  <2>3. PICK d \in had : folder[e] = Content(e, d) /\ (e \in VHost => d[e] # None) BY <2>2 DEF Good
  <2>4. ASSUME NEW v \in VHost \ touched, e \in {v, All}
        PROVE  \/ e = All /\ d[v] = None
               \/ None \notin {d[v], definition[v]} /\ d[v] \subseteq definition[v]
    <3>1. CASE d[v] = None BY <2>3, <2>4, <3>1
    <3>2. CASE d[v] # None
      <4>1. v \in DOMAIN folder[e] /\ folder[e][v] = d[v] BY <2>3, <2>4, <3>2 DEF Content
      <4> QED BY <2>2, <2>4, <3>2, <4>1 DEF Back
    <3> QED BY <3>1, <3>2
  <2> QED BY <2>4 DEF e
<1> QED BY <1>1, BackupInits, BackupSteps, PTL DEF Spec
----------------------------------------------------------------------------
\* The entries left are the end of the list, and the variable `backup' has the
\* last file that could be read: at "read", before the entry at work is.
AtEnd == \A j \in DOMAIN job.todo : /\ Position - 1 + j \in DOMAIN job.list
                                     /\ job.todo[j] = job.list[Position - 1 + j]
InOrder(v) ==
    /\ definition[v] # before[v] =>
         /\ definition[v] # None /\ Reached(v) # {}
         /\ definition[v] \subseteq Had(v) \cup UNION {Source(k) : k \in Reached(v)}
    /\ \A k \in Due(v) : k < Position /\ job.list[k] = v =>
         definition[v] # None /\ Source(k) \subseteq definition[v]

OrderInv ==
    Restoring =>
        /\ Position \in Nat \ {0} /\ AtEnd
        /\ job.pc = "read" => job.backup = Latest(Position - 1)
        /\ job.pc \in {"put", "post"} => job.todo # <<>> /\ job.backup = Latest(Position)
        /\ \A v \in VHost \ touched : InOrder(v)

LEMMA LatestRead ==
    ASSUME NEW k \in Nat \ {0}
    PROVE  Latest(k) = IF Readable(job.list[k]) THEN folder[job.list[k]] ELSE Latest(k - 1)
<1>1. CASE Readable(job.list[k])
  <2>1. k \in Readables(k) /\ \A j \in Readables(k) : j \in Nat /\ j <= k BY <1>1 DEF Readables
  <2>2. \A j \in Readables(k) : (\A i \in Readables(k) : i <= j) <=> j = k BY <2>1
  <2>3. Top(Readables(k)) = k BY <2>1, <2>2 DEF Top
  <2> QED BY <1>1, <2>1, <2>3 DEF Latest
<1>2. CASE ~Readable(job.list[k])
  <2>1. Readables(k) = Readables(k - 1)
    <3>1. 1..k = (1..(k - 1)) \cup {k} OBVIOUS
    <3> QED BY <1>2, <3>1 DEF Readables
  <2> QED BY <1>2, <2>1 DEF Latest
<1> QED BY <1>1, <1>2

\* The same list and folder: the same files are read from them.
LEMMA SameFiles ==
    ASSUME folder' = folder, job'.list = job.list
    PROVE  \A k : Source(k)' = Source(k) /\ Latest(k)' = Latest(k)
<1>1. \A k : Readables(k)' = Readables(k) BY DEF Readables, Readable
<1>2. \A k : Latest(k)' = Latest(k) BY <1>1 DEF Latest
<1> QED BY <1>2 DEF Source

\* A step that leaves a virtual host alone keeps its order.
LEMMA StaysInOrder ==
    ASSUME OrderInv, Restoring, folder' = folder, job'.list = job.list, before' = before,
           Position' = Position, NEW v \in VHost \ touched, definition'[v] = definition[v]
    PROVE  InOrder(v)'
<1>1. Due(v)' = Due(v) /\ Reached(v)' = Reached(v) /\ Had(v)' = Had(v) BY DEF Due, Reached, Had
<1>2. InOrder(v) BY DEF OrderInv
<1> QED BY <1>1, <1>2, SameFiles DEF InOrder

\* Users' changes, and those of others, are not the restore's.
LEMMA OthersInOrder ==
    ASSUME OrderInv, UNCHANGED <<folder, job, before>>, touched \subseteq touched',
           \A v \in VHost \ touched' : definition'[v] = definition[v]
    PROVE  OrderInv'
<1>1. Restoring' = Restoring /\ Position' = Position /\ AtEnd' = AtEnd
  BY DEF Restoring, Position, AtEnd
<1>2. Restoring => \A v \in VHost \ touched' : InOrder(v)' BY <1>1, StaysInOrder
<1> QED BY <1>1, <1>2, SameFiles DEF OrderInv

\* The entry at work has been imported, or its virtual host created.
LEMMA ImportInOrder ==
    ASSUME BackupInv, OrderInv, job.pc = "post", NEW e \in Entry, e = Head(job.todo), Importable(e),
           definition' = Imported(e), UNCHANGED <<folder, before, touched>>,
           job'.list = job.list, Position' \in {Position, Position + 1}, NEW v \in VHost \ touched
    PROVE  InOrder(v)'
<1> DEFINE p == Position
           c == job.backup
<1>0. /\ p \in Nat \ {0} /\ AtEnd /\ job.todo # <<>> /\ c = Latest(p) /\ InOrder(v)
      /\ job.todo \in Seq(Entry) /\ c # None
  BY DEF OrderInv, Restoring, BackupInv, Shape, Importable
<1>1. p \in DOMAIN job.list /\ job.list[p] = e
  <2>1. 1 \in DOMAIN job.todo /\ job.todo[1] = e BY <1>0
  <2>2. p - 1 + 1 = p BY <1>0
  <2> QED BY <1>0, <2>1, <2>2 DEF AtEnd
<1>2. Source(p) = Objects(c) BY <1>0 DEF Source
<1>3. Due(v)' = Due(v) /\ Had(v)' = Had(v) /\ Due(v) \subseteq DOMAIN job.list BY DEF Due, Had
<1>4. DOMAIN job.list \subseteq Nat BY DEF BackupInv, Shape
<1>5. /\ Reached(v) \subseteq Reached(v)'
      /\ e \in {v, All} => p \in Reached(v)'
      /\ \A k \in Due(v) : k < Position' => k < p \/ k = p
  BY <1>0, <1>1, <1>3, <1>4 DEF Reached, Due
<1>6. /\ definition[v] # None => definition'[v] # None /\ definition[v] \subseteq definition'[v]
      /\ e = v => definition'[v] # None /\ Objects(c) \subseteq definition'[v]
      /\ \/ definition'[v] = definition[v]
         \/ /\ e \in {v, All} /\ definition'[v] # None
            /\ definition'[v] \subseteq
                 (IF definition[v] = None THEN {} ELSE definition[v]) \cup Objects(c)
  BY ImportAdds
<1> HIDE DEF p, c
<1> DEFINE given  == Had(v) \cup UNION {Source(k) : k \in Reached(v)}
           given2 == Had(v) \cup UNION {Source(k) : k \in Reached(v)'}
<1>7. given \subseteq given2 /\ (e \in {v, All} => Objects(c) \subseteq given2) BY <1>2, <1>5
<1>8. definition[v] = None \/ definition[v] \subseteq given BY <1>0 DEF InOrder, Had
<1>9. (Had(v) \cup UNION {Source(k) : k \in Reached(v)})' = given2 BY <1>3, SameFiles
<1> HIDE DEF given, given2
<1>10. definition'[v] # before'[v] =>
         definition'[v] # None /\ Reached(v)' # {} /\ definition'[v] \subseteq given2
  <2>1. CASE definition'[v] = definition[v]
    <3>1. definition[v] # before[v] => definition[v] # None /\ Reached(v) # {} BY <1>0 DEF InOrder
    <3> QED BY <1>5, <1>7, <1>8, <2>1, <3>1
  <2>2. CASE /\ e \in {v, All} /\ definition'[v] # None
             /\ definition'[v] \subseteq
                  (IF definition[v] = None THEN {} ELSE definition[v]) \cup Objects(c)
    <3>1. (IF definition[v] = None THEN {} ELSE definition[v]) \subseteq given2 BY <1>7, <1>8
    <3> QED BY <1>5, <1>7, <2>2, <3>1
  <2> QED BY <1>6, <2>1, <2>2
<1>11. ASSUME NEW k \in Due(v), k < Position', job.list[k] = v
       PROVE  definition'[v] # None /\ Source(k) \subseteq definition'[v]
  <2>1. CASE k = p BY <1>1, <1>2, <1>6, <1>11, <2>1
  <2>2. CASE k < p
    <3>1. definition[v] # None /\ Source(k) \subseteq definition[v] BY <1>0, <1>11, <2>2 DEF InOrder, p
    <3> QED BY <1>6, <3>1
  <2> QED BY <1>5, <1>11, <2>1, <2>2
<1> QED BY <1>3, <1>9, <1>10, <1>11, SameFiles DEF InOrder

LEMMA RestoreOrder ==
    ASSUME BackupInv, OrderInv, NEW e \in Entry,
           Reads(e) \/ CreatesVHost(e) \/ Posts(e) \/ RequestFails(e)
    PROVE  OrderInv'
<1>0. /\ e = Head(job.todo) /\ job.todo # <<>> /\ job.todo \in Seq(Entry) /\ job.list \in Seq(Entry)
      /\ UNCHANGED <<folder, before, touched>> /\ Restoring
  BY DEF Reads, CreatesVHost, Posts, RequestFails, Entering, BackupInv, Shape, Restoring
<1>1. Position \in Nat \ {0} /\ AtEnd /\ \A v \in VHost \ touched : InOrder(v) BY <1>0 DEF OrderInv
<1>2. Position \in DOMAIN job.list /\ job.list[Position] = e
  <2>1. 1 \in DOMAIN job.todo /\ job.todo[1] = e BY <1>0
  <2>2. Position - 1 + 1 = Position BY <1>1
  <2> QED BY <1>1, <2>1, <2>2 DEF AtEnd
<1>3. ASSUME job'.list = job.list, job'.todo = job.todo PROVE Position' = Position /\ AtEnd'
  BY <1>1, <1>3 DEF Position, AtEnd
<1>4. CASE Reads(e)
  <2> DEFINE b == IF Readable(e) THEN folder[e] ELSE job.backup
  <2>1. PICK pc \in {"put", "post"} : job' = [job EXCEPT !.backup = b, !.pc = pc] BY <1>4 DEF Reads
  <2>2. definition' = definition /\ job.pc = "read" BY <1>4 DEF Reads
  <2>3. b = Latest(Position) BY <1>0, <1>1, <1>2, <2>2, LatestRead DEF OrderInv
  <2> HIDE DEF b
  <2>4. /\ job'.pc \in {"put", "post"} /\ job'.list = job.list /\ job'.todo = job.todo
        /\ job'.backup = b
    BY <2>1 DEF BackupInv, Shape
  <2>5. (Latest(Position))' = Latest(Position)
    <3>1. Readables(Position)' = Readables(Position) BY <1>0, <1>3, <2>4 DEF Readables, Readable
    <3> QED BY <1>0, <2>4, <3>1 DEF Latest
  <2>6. \A v \in VHost \ touched : InOrder(v)' BY <1>0, <1>3, <2>2, <2>4, StaysInOrder
  <2> QED BY <1>0, <1>1, <1>3, <2>3, <2>4, <2>5, <2>6 DEF OrderInv
<1>8. ASSUME definition' = Created(e), job'.list = job.list, job'.todo = job.todo,
             NEW v \in VHost \ touched
      PROVE  InOrder(v)'
  <2>1. definition'[v] = IF v = e /\ definition[v] = None THEN {} ELSE definition[v]
    BY <1>8 DEF BackupInv, Shape, Definitions, Created
  <2>2. CASE v = e /\ definition[v] = None
    <3>1. Due(v)' = Due(v) /\ Reached(v)' = Reached(v) BY <1>3, <1>8 DEF Due, Reached
    <3>2. Position \in Reached(v) BY <1>1, <1>2, <2>2 DEF Reached, Due
    <3>3. \A k \in Due(v) : ~(k < Position /\ job.list[k] = v) BY <1>1, <2>2 DEF InOrder
    <3>4. definition'[v] = {} /\ {} # None BY <2>1, <2>2, BrokerAssumption
    <3> QED BY <1>3, <1>8, <3>1, <3>2, <3>3, <3>4 DEF InOrder
  <2>3. CASE ~(v = e /\ definition[v] = None) BY <1>0, <1>3, <1>8, <2>1, <2>3, StaysInOrder
  <2> QED BY <2>2, <2>3
<1>5. CASE CreatesVHost(e)
  <2>1. job.pc = "put" /\ job' = [job EXCEPT !.pc = "post"] /\ definition' = Created(e)
    BY <1>5 DEF CreatesVHost
  <2>2. /\ job'.pc = "post" /\ job'.list = job.list /\ job'.todo = job.todo
        /\ job'.backup = job.backup
    BY <2>1 DEF BackupInv, Shape
  <2>3. Latest(Position)' = Latest(Position) BY <1>0, <1>3, <2>2 DEF Latest, Readables, Readable
  <2>4. \A v \in VHost \ touched : InOrder(v)' BY <1>8, <2>1, <2>2
  <2> QED BY <1>0, <1>1, <1>3, <2>1, <2>2, <2>3, <2>4 DEF OrderInv
<1>6. CASE Posts(e)
  <2>1. /\ job.pc = "post" /\ job' = [job EXCEPT !.pc = "read", !.todo = Tail(@)]
        /\ Importable(e) /\ definition' = Imported(e)
    BY <1>6 DEF Posts
  <2>2. /\ job'.pc = "read" /\ job'.list = job.list /\ job'.todo = Tail(job.todo)
        /\ job'.backup = job.backup
    BY <2>1 DEF BackupInv, Shape
  <2>3. /\ Len(job.todo) \in Nat \ {0} /\ Len(Tail(job.todo)) = Len(job.todo) - 1
        /\ Len(job.list) \in Nat
        /\ \A j \in 1..(Len(job.todo) - 1) : Tail(job.todo)[j] = job.todo[j + 1]
        /\ DOMAIN job.todo = 1..Len(job.todo) /\ DOMAIN Tail(job.todo) = 1..(Len(job.todo) - 1)
    BY <1>0
  <2>4. Position' = Position + 1
    <3>1. Len(job'.todo) = Len(job.todo) - 1 /\ Len(job'.list) = Len(job.list) BY <2>2, <2>3
    <3> QED BY <2>3, <3>1 DEF Position
  <2>5. AtEnd'
    <3> SUFFICES ASSUME NEW j \in 1..(Len(job.todo) - 1)
                 PROVE  /\ Position + j \in DOMAIN job.list
                        /\ Tail(job.todo)[j] = job.list[Position + j]
      BY <1>1, <2>2, <2>3, <2>4 DEF AtEnd
    <3>1. j + 1 \in DOMAIN job.todo /\ Position - 1 + (j + 1) = Position + j BY <1>1, <2>3
    <3> QED BY <1>1, <2>3, <3>1 DEF AtEnd
  <2>6. job'.backup = (Latest(Position - 1))'
    <3>1. job.backup = Latest(Position) BY <1>0, <2>1 DEF OrderInv
    <3>2. Position' - 1 = Position BY <1>1, <2>4
    <3>3. (Readables(Position - 1))' = Readables(Position)
      BY <1>0, <2>2, <3>2 DEF Readables, Readable
    <3>4. (Latest(Position - 1))' = Latest(Position) BY <1>0, <2>2, <3>3 DEF Latest
    <3> QED BY <2>2, <3>1, <3>4
  <2>7. \A v \in VHost \ touched : InOrder(v)' BY <1>0, <2>1, <2>2, <2>4, ImportInOrder
  <2> QED BY <1>0, <1>1, <2>2, <2>4, <2>5, <2>6, <2>7 DEF OrderInv
<1>7. CASE RequestFails(e)
  <2>1. job' = [job EXCEPT !.pc = "returned", !.result = 1] BY <1>7 DEF RequestFails, Ends
  <2>2. job'.pc = "returned" /\ job'.list = job.list /\ job'.todo = job.todo
    BY <2>1 DEF BackupInv, Shape
  <2>3. \/ definition' \in {definition, Created(e)}
        \/ job.pc = "post" /\ Importable(e) /\ definition' = Imported(e)
    BY <1>7 DEF RequestFails
  <2>4. \A v \in VHost \ touched : InOrder(v)'
    BY <1>0, <1>3, <1>8, <2>2, <2>3, ImportInOrder, StaysInOrder
  <2> QED BY <1>0, <1>1, <1>3, <2>2, <2>4 DEF OrderInv
<1> QED BY <1>4, <1>5, <1>6, <1>7

LEMMA RestoreOrderBegins ==
    ASSUME BackupInv, NEW l \in Lists, RestoreBegins(l)
    PROVE  OrderInv'
<1>1. job'.pc = "read" /\ job'.list = l /\ job'.todo = l /\ job'.backup = None /\ before' = definition
      /\ definition' = definition
  BY DEF RestoreBegins, Started
<1>2. l \in Seq(Entry) /\ Len(l) \in Nat /\ DOMAIN l = 1..Len(l) BY ListType
<1>3. Position' = 1 BY <1>1, <1>2 DEF Position
<1>4. AtEnd' BY <1>1, <1>2, <1>3 DEF AtEnd
<1>5. (Latest(Position - 1))' = None
  <2>1. (Readables(Position - 1))' = {} BY <1>3 DEF Readables
  <2> QED BY <2>1 DEF Latest
<1>6. \A k \in DOMAIN l : ~(k < 1) BY <1>2
<1>7. \A v \in VHost : InOrder(v)' BY <1>1, <1>3, <1>6 DEF InOrder, Due
<1> QED BY <1>1, <1>3, <1>4, <1>5, <1>7 DEF OrderInv

LEMMA OrderSteps ==
    ASSUME BackupInv, OrderInv, [Next]_vars
    PROVE  OrderInv'
<1>0. definition \in Definitions BY DEF BackupInv, Shape
<1>1. CASE UNCHANGED vars BY <1>1, OthersInOrder DEF vars, others, broker, backup
<1>2. CASE NodesChange \/ ItemsMove \/ ShovelsChange \/ StatsChange \/ UsersChange
  <2>1. Recorded /\ (definition' = definition \/ definition' \in [VHost -> {None} \cup SUBSET Object])
    <3>1. ASSUME NEW v \in VHost, UserChanges(v) PROVE definition' \in Definitions
      BY <1>0, <3>1 DEF UserChanges, Definitions
    <3> QED BY <1>2, <3>1 DEF NodesChange, NodeStops, NodeStarts, NodeLeaves, ItemsMove, ItemMoves,
                ShovelsChange, ShovelChanges, StatsChange, StatisticsChange, UsersChange, Definitions
  <2>2. \A v \in VHost \ touched' : definition'[v] = definition[v] BY <2>1 DEF Recorded
  <2> QED BY <2>1, <2>2, OthersInOrder DEF Recorded
<1>3. CASE Scrape BY <1>3, OthersInOrder DEF Scrape, broker, backup
<1>4. CASE Backup
  <2>1. ASSUME NEW l \in Lists, RestoreBegins(l) PROVE OrderInv' BY <2>1, RestoreOrderBegins
  <2>2. ASSUME NEW e \in Entry, Gets(e) \/ GetFails(e) \/ Writes(e) \/ WriteFails(e) PROVE OrderInv'
    <3>1. job'.pc \in {"get", "write", "exited"}
      BY <2>2 DEF Gets, GetFails, Writes, WriteFails, Exits, Ends, BackupInv, Shape
    <3> QED BY <3>1 DEF OrderInv, Restoring
  <2>3. CASE BackupEnds
    <3>1. job'.pc = "exited" BY <2>3 DEF BackupEnds, Exits, Ends, BackupInv, Shape
    <3> QED BY <3>1 DEF OrderInv, Restoring
  <2>4. CASE RestoreEnds
    <3>1. /\ job.pc = "read" /\ job' = [job EXCEPT !.pc = "returned", !.result = 0]
          /\ UNCHANGED <<definition, folder, before, touched>>
      BY <2>4 DEF RestoreEnds, Ends
    <3>2. job'.pc = "returned" /\ job'.list = job.list /\ job'.todo = job.todo
      BY <3>1 DEF BackupInv, Shape
    <3>3. Restoring /\ Position' = Position /\ AtEnd' = AtEnd
      BY <3>1, <3>2 DEF Restoring, Position, AtEnd
    <3>4. \A v \in VHost \ touched : InOrder(v)' BY <3>1, <3>2, <3>3, StaysInOrder
    <3> QED BY <3>1, <3>2, <3>3, <3>4 DEF OrderInv
  <2> QED BY <1>4, <2>1, <2>2, <2>3, <2>4, RestoreOrder DEF Backup, BackupStep
<1>5. CASE Shovels
  <2>1. definition' = definition
    BY <1>5 DEF Shovels, ShovelRun, ListsNoShovel, ListsShovels, AllValid, PodsReady, PodsNotReady,
                ListsPods, AllRestarted, Validates, Invalid, Disables, Misses, Enables, ExecFails, Still
  <2> QED BY <1>5, <2>1, OthersInOrder DEF Shovels, backup
<1>6. CASE Ticks BY <1>6, OthersInOrder DEF Ticks, ShovelTick, ClusterTick, Still, broker, backup
<1> QED BY <1>1, <1>2, <1>3, <1>4, <1>5, <1>6 DEF Next

\* A restore adds to a virtual host only what was imported at its positions, in
\* the order of the list, all of it at each position that is passed; where it
\* stops, what comes after is as it was.
THEOREM RestoreInOrder == Spec => []RestoreIsInOrder
<1>1. BackupInv /\ OrderInv => RestoreIsInOrder BY DEF OrderInv, InOrder, RestoreIsInOrder
<1>2. Init => OrderInv
  <2>1. Init => job.pc = "get" BY DEF Init, BackupInit, Started
  <2> QED BY <2>1 DEF OrderInv, Restoring
<1>3. BackupInv /\ OrderInv /\ [Next]_vars => OrderInv' BY OrderSteps
<1> QED BY <1>1, <1>2, <1>3, BackupInits, BackupSteps, PTL DEF Spec
=============================================================================
