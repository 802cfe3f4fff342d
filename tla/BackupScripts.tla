--------------------------- MODULE BackupScripts ---------------------------
(***************************************************************************)
(* create_backup.py and restore_from_backup.py, which the backup daemon    *)
(* starts with a folder and a list of virtual hosts (without one: the      *)
(* entry `all').  A backup, and later a restore from the folder it left,   *)
(* be it complete or not, while users change definitions.                  *)
(*                                                                         *)
(* The definitions of a virtual host are a set of objects, to which an     *)
(* import adds; a file holds those of its virtual host, or of all.         *)
(***************************************************************************)
EXTENDS Broker

CONSTANTS
    All,     \* the entry "", and its file `allrabbitmqvhosts'
    Torn,    \* a file that cannot be parsed
    Lists    \* the lists of entries the scripts are started with

Entry == VHost \cup {All}

ASSUME BackupAssumption ==
    /\ All \notin VHost /\ \A l \in Lists : l = <<All>> \/ l \in Seq(VHost)
    /\ \A V \in SUBSET VHost : {None, Torn} \cap [V -> SUBSET Object] = {}

VARIABLES
    folder,   \* the file of each entry, None without it
    job,      \* the script: place, entries asked for and left, its variable
              \* `backup', and what it returns
    created,  \* the finished backup: its entries and exit code
    had,      \* the definitions there were during the backup
    before,   \* the definitions when the restore began
    touched   \* the virtual hosts users have changed since then

backup == <<folder, job, created, had, before, touched>>

\* GET /api/definitions, or /api/definitions/<vhost>.
Content(e, d) == [v \in {w \in VHost : e \in {All, w} /\ d[w] # None} |-> d[v]]

Exists(e)  == e \in VHost => definition[e] # None
Contents   == UNION {[V -> SUBSET Object] : V \in SUBSET VHost}
Objects(c) == UNION {c[v] : v \in DOMAIN c}
Readable(e) == folder[e] \notin {None, Torn}

Started(pc, list) == [pc |-> pc, list |-> list, todo |-> list, backup |-> None, result |-> None]
Entering(e) == job.todo # <<>> /\ e = Head(job.todo)
Ends(pc, n) == job' = [job EXCEPT !.pc = pc, !.result = n]

BackupInit ==
    /\ folder = [e \in Entry |-> None]
    /\ \E l \in Lists : job = Started("get", l)
    /\ created = [list |-> <<>>, exit |-> None]
    /\ had = {definition} /\ before = definition /\ touched = {}
----------------------------------------------------------------------------
\* make_rabbitmq_backup.
Gets(e) ==
    /\ job.pc = "get" /\ Entering(e) /\ NoFault
    /\ Exists(e)
    /\ job' = [job EXCEPT !.pc = "write", !.backup = Content(e, definition)]
    /\ UNCHANGED <<definition, folder, created, had, before, touched>>

Exits(n) ==
    /\ Ends("exited", n) /\ created' = [list |-> job.list, exit |-> n]
    /\ UNCHANGED <<definition, had, before, touched>>

GoesOn(e) ==           \* a mutant: the entry is logged and left out
    /\ job.pc = "get" /\ Entering(e)
    /\ Faulty \/ (NoFault /\ ~Exists(e))
    /\ job' = [job EXCEPT !.todo = Tail(@)]
    /\ UNCHANGED <<definition, folder, created, had, before, touched>>

\* The request raises, its answer is no JSON, or has the key `error'.
GetFails(e) ==
    /\ job.pc = "get" /\ Entering(e)
    /\ Faulty \/ (NoFault /\ ~Exists(e))
    /\ Exits(1) /\ UNCHANGED folder

Writes(e) ==
    /\ job.pc = "write" /\ Entering(e) /\ NoFault
    /\ folder' = [folder EXCEPT ![e] = job.backup]
    /\ job' = [job EXCEPT !.pc = "get", !.todo = Tail(@)]
    /\ UNCHANGED <<definition, created, had, before, touched>>

\* The storage is full, or the daemon's pod is killed.
WriteFails(e) ==
    /\ job.pc = "write" /\ Entering(e) /\ Faulty
    /\ folder' = [folder EXCEPT ![e] = Torn] /\ Exits(1)

BackupEnds == /\ job.pc = "get" /\ job.todo = <<>>
              /\ Exits(0) /\ UNCHANGED <<folder, faults>>
----------------------------------------------------------------------------
\* make_rabbitmq_restore.
RestoreBegins(l) ==
    /\ job.pc = "exited" /\ before' = definition /\ touched' = {}
    /\ job' = Started("read", l)
    /\ UNCHANGED <<definition, folder, created, had, faults>>

\* A file that cannot be read is logged, and `backup' stays as it is.
Reads(e) ==
    /\ job.pc = "read" /\ Entering(e)
    /\ job' = [job EXCEPT !.backup = IF Readable(e) THEN folder[e] ELSE @,
                          !.pc = IF e = All THEN "post" ELSE "put"]
    /\ UNCHANGED <<definition, folder, created, had, before, touched, faults>>

Created(e) == [definition EXCEPT ![e] = IF @ = None THEN {} ELSE @]

CreatesVHost(e) ==
    /\ job.pc = "put" /\ Entering(e) /\ job.backup # None /\ NoFault
    /\ definition' = Created(e)
    /\ job' = [job EXCEPT !.pc = "post"]
    /\ UNCHANGED <<folder, created, had, before, touched>>

\* Mutants: an import of all leaves out virtual hosts that are not there, and
\* a failing request is followed by the next entry.
OnlyExisting(e) ==
    [v \in VHost |->
        IF e = v \/ (e = All /\ definition[v] # None /\ v \in DOMAIN job.backup)
        THEN definition[v] \cup (IF e = v THEN Objects(job.backup) ELSE job.backup[v])
        ELSE definition[v]]
NextEntry(e) ==
    /\ job.pc \in {"put", "post"} /\ Entering(e) /\ Faulty
    /\ job' = [job EXCEPT !.pc = "read", !.todo = Tail(@)]
    /\ UNCHANGED <<definition, folder, created, had, before, touched>>

Imported(e) ==
    [v \in VHost |->
        IF e = v THEN definition[v] \cup Objects(job.backup)
        ELSE IF e = All /\ v \in DOMAIN job.backup
        THEN (IF definition[v] = None THEN {} ELSE definition[v]) \cup job.backup[v]
        ELSE definition[v]]

Importable(e) == job.backup # None /\ Exists(e)

Posts(e) ==
    /\ job.pc = "post" /\ Entering(e) /\ Importable(e) /\ NoFault
    /\ definition' = Imported(e)
    /\ job' = [job EXCEPT !.pc = "read", !.todo = Tail(@)]
    /\ UNCHANGED <<folder, created, had, before, touched>>

\* Both requests are made with `backup', which is unbound until a file was
\* read; what that raises, what the request raises and any other status than
\* success make the function return 1.  A virtual host may have been created,
\* and an import made, though the answer is lost.
RequestFails(e) ==
    /\ job.pc \in {"put", "post"} /\ Entering(e) /\ Ends("returned", 1)
    /\ \/ Faulty /\ UNCHANGED definition
       \/ Faulty /\ job.pc = "put" /\ job.backup # None /\ definition' = Created(e)
       \/ Faulty /\ job.pc = "post" /\ Importable(e) /\ definition' = Imported(e)
       \/ NoFault /\ (job.backup = None \/ (job.pc = "post" /\ ~Importable(e)))
          /\ UNCHANGED definition
    /\ UNCHANGED <<folder, created, had, before, touched>>

RestoreEnds ==
    /\ job.pc = "read" /\ job.todo = <<>> /\ Ends("returned", 0)
    /\ UNCHANGED <<definition, folder, created, had, before, touched, faults>>

BackupStep ==
    /\ \/ BackupEnds \/ RestoreEnds
       \/ \E l \in Lists : RestoreBegins(l)
       \/ \E e \in Entry : \/ Gets(e) \/ GetFails(e) \/ Writes(e) \/ WriteFails(e)
                           \/ Reads(e) \/ CreatesVHost(e) \/ Posts(e) \/ RequestFails(e)
    /\ UNCHANGED <<member, plugin, item, shovel, scant, changes>>
----------------------------------------------------------------------------
Restoring == job.pc \in {"read", "put", "post", "returned"}
Position  == Len(job.list) - Len(job.todo) + 1   \* of the entry at work

\* What the restore imports at position k: the last file it could read.
Top(S)       == CHOOSE j \in S : \A i \in S : i <= j
Readables(k) == {j \in 1..k : Readable(job.list[j])}
Latest(k)    == IF Readables(k) = {} THEN None ELSE folder[job.list[Top(Readables(k))]]
Source(k)    == IF Latest(k) = None THEN {} ELSE Objects(Latest(k))

\* A backup that exits with 0 has a file for each of its entries, and a file
\* holds what the broker had at one moment of the backup: one entry that could
\* not be read or written is enough for another exit code.
BackupIsTrue ==
    created.exit = 0 =>
        \A k \in DOMAIN created.list : LET e == created.list[k] IN
            Readable(e) /\ \E d \in had : folder[e] = Content(e, d)

\* The positions at which a restore imports into v, those it has come to, and
\* what v had before.
Due(v)     == {k \in DOMAIN job.list : job.list[k] \in {v, All}}
Reached(v) == {k \in Due(v) : k <= Position}
Had(v)     == IF before[v] = None THEN {} ELSE before[v]

\* The restore goes through its entries in their order.  A virtual host has
\* nothing but what it had before and what was imported at the positions of it
\* that were reached -- the entries after the one at which the restore stopped,
\* and virtual hosts that were not asked for, are as they were -- and at each
\* position that is passed it has got all of the file read last.
RestoreIsInOrder ==
    Restoring => \A v \in VHost \ touched :
        /\ definition[v] # before[v] =>
             /\ definition[v] # None /\ Reached(v) # {}
             /\ definition[v] \subseteq Had(v) \cup UNION {Source(k) : k \in Reached(v)}
        /\ \A k \in Due(v) : k < Position /\ job.list[k] = v =>
             definition[v] # None /\ Source(k) \subseteq definition[v]

\* A restore of the entries of a complete backup that returns 0 brings back,
\* in each of its virtual hosts, all that was defined there at some moment of
\* the backup, except where users have changed it since.
RoundTrip ==
    /\ job.pc = "returned" /\ job.result = 0
    /\ created.exit = 0 /\ job.list = created.list
    => \A k \in DOMAIN job.list : \E d \in had : \A v \in VHost \ touched :
          job.list[k] \in {v, All} =>
             \/ job.list[k] = All /\ d[v] = None
             \/ None \notin {d[v], definition[v]} /\ d[v] \subseteq definition[v]
=============================================================================
