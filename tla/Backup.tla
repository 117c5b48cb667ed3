-------------------------------- MODULE Backup --------------------------------
(***************************************************************************)
(* Backups of a node's database (credence/storage/backup): tasks copy the  *)
(* database into an archive named after the second they begin in, copy it  *)
(* to the latest archive, write a manifest for each, upload them and prune *)
(* old archives; a node that starts restores the latest backup first.      *)
(*                                                                         *)
(* The copying runs in a thread, so tasks overlap; a request's backup      *)
(* holds the event loop while it copies and uploads afterwards.  The       *)
(* database is the set of its audits.  An archive's bytes are the audits   *)
(* in it and the task that made it; a manifest is the archive it was       *)
(* computed from.  Manifests in the cloud are never read, so only archives *)
(* are uploaded.  A restore finds no session of the database open.  A      *)
(* stop in the middle of a step is a step that fails, and then the stop.   *)
(***************************************************************************)
EXTENDS Integers, FiniteSets

CONSTANTS
    Audits,
    Tasks,          \* backups that may be at work at once
    Slugs,          \* names of archives, which are used again when pruned
    Retain,         \* archives that rotation keeps
    Threshold,      \* a database with more audits is not restored at boot
    Blocking,       \* the kinds of backup: TRUE holds the event loop
    Restores,       \* whether restores are requested
    MaxBackups,     \* bound on the backups begun
    MaxStops        \* bound on the stops of the node

ASSUME BackupAssumption ==
    /\ Slugs \subseteq Nat /\ IsFiniteSet(Audits) /\ IsFiniteSet(Tasks)
    /\ Retain \in Nat \ {0} /\ Threshold \in Nat
    /\ MaxBackups \in Nat /\ MaxStops \in Nat /\ Blocking \in SUBSET BOOLEAN /\ Restores \in BOOLEAN

VARIABLES
    db,                 \* audits in the database
    files, sheets,      \* the archive of each name, and its manifest
    newer,              \* for each name on disk, the names modified after it
    failed,             \* names on disk whose archive was given up half written
    latest, latestSheet,
    cloudNewest,        \* the last archive uploaded under its own name
    cloudLatest,
    task,               \* what each task does, and its archive's name and audits
    node,               \* up, closing or down
    begun, stops,
    events              \* history: what happened that the properties make room for

disk == <<files, sheets, newer, failed, latest, latestSheet>>
cloud == <<cloudNewest, cloudLatest>>
clock == <<begun, stops>>
vars == <<db, disk, cloud, task, node, clock, events>>

Blank(kind) == [kind |-> kind, audits |-> {}, by |-> {}]
None == Blank("none")
Partial == Blank("partial") \* bytes are missing, or all of them
Torn == Blank("torn")       \* a mixture of two writes
Unreadable == Blank("unreadable")   \* a manifest that is half written
Whole(S, t) == [kind |-> "whole", audits |-> S, by |-> {t}]

Idle == [at |-> "idle", slug |-> 0, audits |-> {}, dirty |-> FALSE,
         orphan |-> FALSE, blocking |-> FALSE]

Init ==
    /\ db = {}
    /\ files = [s \in Slugs |-> None] /\ sheets = [s \in Slugs |-> None]
    /\ newer = [s \in Slugs |-> {}] /\ failed = {} /\ latest = None /\ latestSheet = None
    /\ cloudNewest = None /\ cloudLatest = None
    /\ task = [t \in Tasks |-> Idle]
    /\ node = "down" /\ begun = 0 /\ stops = 0
    /\ events = {}

AtWork == {t \in Tasks : task[t].at # "idle"}
InUse == {task[t].slug : t \in AtWork}
Note(e, happened) == events' = IF happened THEN events \cup {e} ELSE events

\* A backup that holds the event loop lets only threads go on beside it.
Turn(t) == \A u \in Tasks \ {t} :
    task[u].blocking => task[u].at \notin {"dump", "archive", "copy", "stamp", "rotate"}

\* The write of a file by t is over: another write beside it may have left a mixture.
Written(t, a) == IF task[t].dirty THEN {a, Torn} ELSE {a}

\* The name becomes the newest on disk.
Touch(s) == [r \in Slugs |-> IF r = s \/ files[r] = None THEN {} ELSE newer[r] \cup {s}]

\* The task goes on with a step, or ends.
Go(t, step) ==
    task' = [task EXCEPT ![t] = [task[t] EXCEPT !.at = step, !.audits = {}, !.dirty = FALSE]]
End(t) == task' = [task EXCEPT ![t] = Idle]

\* It opens a file, which the tasks of U are writing already.
GoWriting(t, step, S, U) ==
    task' = [u \in Tasks |->
        IF u = t THEN [task[t] EXCEPT !.at = step, !.audits = S, !.dirty = (U # {})]
        ELSE IF u \in U THEN [task[u] EXCEPT !.dirty = TRUE] ELSE task[u]]

-----------------------------------------------------------------------------
(* A backup.                                                               *)

\* Names stand for themselves: a new one is the first that nobody uses.
IsFresh(s) ==
    LET free == {r \in Slugs \ InUse : files[r] = None /\ sheets[r] = None}
    IN  s \in free /\ \A r \in free : s <= r

\* The name is the second: a new one, or that of a backup at work since the same second.
Begin(t) ==
    /\ node # "down" /\ task[t].at = "idle" /\ Turn(t) /\ begun < MaxBackups
    /\ \E s \in Slugs, blocking \in Blocking :
        /\ s \in InUse \/ IsFresh(s)
        /\ task' = [task EXCEPT ![t] =
               [Idle EXCEPT !.at = "dump", !.slug = s, !.blocking = blocking]]
    /\ begun' = begun + 1
    /\ UNCHANGED <<db, disk, cloud, node, stops, events>>

\* The thread copies the database aside and opens the archive, which empties it.
Dump(t) ==
    /\ task[t].at = "dump"
    /\ LET s == task[t].slug
           U == {u \in AtWork \ {t} : task[u].at = "archive" /\ task[u].slug = s}
       IN  /\ files' = [files EXCEPT ![s] = Partial]
           /\ newer' = Touch(s)
           /\ GoWriting(t, "archive", db, U)
           /\ Note("clash", \/ files[s] # None \/ sheets[s] # None
                            \/ \E u \in AtWork \ {t} : task[u].slug = s)
    /\ UNCHANGED <<db, sheets, failed, latest, latestSheet, cloud, node, clock>>

\* It closes the archive and opens the latest one, if its own was not pruned meanwhile.
Archive(t) ==
    /\ task[t].at = "archive"
    /\ LET s == task[t].slug IN
       \/ /\ files[s] = None
          /\ End(t)
          /\ UNCHANGED disk
       \/ /\ files[s] # None
          /\ \E a \in Written(t, Whole(task[t].audits, t)) : files' = [files EXCEPT ![s] = a]
          /\ newer' = Touch(s)
          /\ latest' = Partial
          /\ GoWriting(t, "copy", task[t].audits, {u \in AtWork \ {t} : task[u].at = "copy"})
          /\ UNCHANGED <<sheets, failed, latestSheet>>
    /\ UNCHANGED <<db, cloud, node, clock, events>>

\* The latest archive has a copy of the archive as it was read.  The thread ends.
Copy(t) ==
    /\ task[t].at = "copy"
    /\ LET s == task[t].slug
           read == IF files[s] = None THEN Whole(task[t].audits, t) ELSE files[s]
       IN  \E a \in Written(t, read) : latest' = a
    /\ IF task[t].orphan THEN End(t) ELSE Go(t, "stamp")
    /\ UNCHANGED <<db, files, sheets, newer, failed, latestSheet, cloud, node, clock, events>>

StampOfLatest(t) ==     \* mutant: the hash is taken from the latest archive
    /\ task[t].at = "stamp" /\ Turn(t)
    /\ files[task[t].slug] # None
    /\ sheets' = [sheets EXCEPT ![task[t].slug] = latest]
    /\ latestSheet' = latest
    /\ Go(t, IF task[t].blocking THEN "rotate" ELSE "put")
    /\ UNCHANGED <<db, files, newer, failed, latest, cloud, node, clock, events>>

\* Both manifests are written from the archive.
Stamp(t) ==
    /\ task[t].at = "stamp" /\ Turn(t)
    /\ LET s == task[t].slug IN
       \/ /\ files[s] = None
          /\ End(t)
          /\ UNCHANGED <<sheets, latestSheet>>
       \/ /\ files[s] # None
          /\ sheets' = [sheets EXCEPT ![s] = files[s]]
          /\ latestSheet' = files[s]
          /\ Go(t, IF task[t].blocking THEN "rotate" ELSE "put")
    /\ UNCHANGED <<db, files, newer, failed, latest, cloud, node, clock, events>>

\* A step raises, and leaves what it was writing as far as it had come: the copy of the
\* database, which is thrown away, the archive, the latest archive or one of the manifests.
FailDump(t) ==
    /\ task[t].at = "dump"
    /\ UNCHANGED disk

FailArchive(t) ==
    /\ task[t].at = "archive"
    /\ LET s == task[t].slug IN
       \/ /\ files[s] = None
          /\ UNCHANGED disk
       \/ /\ files[s] # None
          /\ \E a \in Written(t, files[s]) : files' = [files EXCEPT ![s] = a]
          /\ newer' \in {newer, Touch(s)}
          /\ failed' = failed \cup {s}
          /\ UNCHANGED <<sheets, latest, latestSheet>>

FailCopy(t) ==
    /\ task[t].at = "copy"
    /\ latest' \in Written(t, latest)
    /\ UNCHANGED <<files, sheets, newer, failed, latestSheet>>

FailStamp(t) ==
    /\ task[t].at = "stamp" /\ Turn(t) /\ files[task[t].slug] # None
    /\ LET s == task[t].slug IN
       \/ /\ sheets' = [sheets EXCEPT ![s] = Unreadable]
          /\ UNCHANGED latestSheet
       \/ /\ sheets' = [sheets EXCEPT ![s] = files[s]]
          /\ latestSheet' = Unreadable
       \/ UNCHANGED <<sheets, latestSheet>>
    /\ UNCHANGED <<files, newer, failed, latest>>

Fail(t) ==
    /\ FailDump(t) \/ FailArchive(t) \/ FailCopy(t) \/ FailStamp(t)
    /\ End(t)
    /\ Note("failed", TRUE)
    /\ UNCHANGED <<db, cloud, node, clock>>

\* After the upload the task prunes, unless it has done so before or was cancelled.
Uploaded(t) ==
    IF task[t].blocking THEN End(t)
    ELSE IF task[t].orphan THEN End(t)
    ELSE Go(t, "rotate")

\* An upload that fails is given up.
PutFails(t) ==
    /\ task[t].at \in {"put", "put_latest"}
    /\ Uploaded(t)
    /\ UNCHANGED <<db, disk, cloud, node, clock, events>>

\* The archive goes up first, if it is still there.
Put(t) ==
    /\ task[t].at = "put" /\ files[task[t].slug] # None
    /\ cloudNewest' = files[task[t].slug]
    /\ Go(t, "put_latest")
    /\ UNCHANGED <<db, disk, cloudLatest, node, clock, events>>

\* Then the latest archive, as it is by then.
PutLatest(t) ==
    /\ task[t].at = "put_latest"
    /\ cloudLatest' = latest
    /\ Uploaded(t)
    /\ UNCHANGED <<db, disk, cloudNewest, node, clock, events>>

\* The names that are not among the newest.
OnDisk == {s \in Slugs : files[s] # None}
PrunedNewest == {s \in OnDisk : Cardinality({r \in OnDisk : s \in newer[r]}) >= Retain}  \* mutant
Pruned == {s \in OnDisk : Cardinality(newer[s]) >= Retain}

\* Each archive is unlinked and then its manifest; where one of the two raises, the archive or
\* the manifest is left and the next name has its turn.
Rotate(t) ==
    /\ task[t].at = "rotate" /\ Turn(t)
    /\ \E gone \in SUBSET Pruned : \E left \in SUBSET gone :
        /\ files' = [s \in Slugs |-> IF s \in gone THEN None ELSE files[s]]
        /\ sheets' = [s \in Slugs |-> IF s \in gone \ left THEN None ELSE sheets[s]]
        /\ newer' = [s \in Slugs |-> IF s \in gone THEN {} ELSE newer[s] \ gone]
        /\ failed' = failed \ gone
    /\ IF task[t].blocking THEN Go(t, "put") ELSE End(t)
    /\ UNCHANGED <<db, latest, latestSheet, cloud, node, clock, events>>

-----------------------------------------------------------------------------
(* The node.                                                               *)

AddAudit(a) ==
    /\ node # "down" /\ a \notin db
    /\ db' = db \cup {a}
    /\ UNCHANGED <<disk, cloud, task, node, clock, events>>

\* What an archive replaces the database with: nothing when it does not unpack, an empty
\* one when it has no bytes.
Unpacked(a) ==
    CASE a.kind = "whole" -> {a.audits} [] a.kind = "partial" -> {{}} [] OTHER -> {}

\* On request, the archive is held against its manifest if it has one.
Restore ==
    /\ Restores /\ node = "up" /\ \A t \in Tasks : Turn(t)
    /\ \E pair \in {<<latest, latestSheet>>} \cup {<<files[s], sheets[s]>> : s \in Slugs} :
        /\ pair[2] \in {None, Unreadable, pair[1]}
        /\ db' \in Unpacked(pair[1])
    /\ Note("disturbed", TRUE)
    /\ UNCHANGED <<disk, cloud, task, node, clock>>

\* A backup is cancelled when the node closes; its thread goes on once it has opened the
\* copy of the database.
Cancel(t) ==
    /\ node = "closing" /\ Turn(t) /\ ~task[t].orphan /\ ~task[t].blocking
    /\ \/ /\ task[t].at \in {"dump", "stamp", "rotate"}
          /\ End(t)
       \/ /\ task[t].at \in {"archive", "copy", "put", "put_latest"}
          /\ task' = [task EXCEPT ![t].orphan = TRUE]
         
    /\ UNCHANGED <<db, disk, cloud, node, clock, events>>

Close ==
    /\ node = "up" /\ \A t \in Tasks : Turn(t)
    /\ node' = "closing"
    /\ UNCHANGED <<db, disk, cloud, task, clock, events>>

\* The node ends, and its disk with it when it runs in a container.
Stop ==
    /\ node # "down" /\ stops < MaxStops
    /\ node' = "down" /\ stops' = stops + 1
    /\ task' = [t \in Tasks |-> Idle]
    /\ \/ UNCHANGED <<db, disk>>
       \/ /\ db' = {} /\ files' = [s \in Slugs |-> None] /\ sheets' = [s \in Slugs |-> None]
          /\ newer' = [s \in Slugs |-> {}] /\ failed' = {} /\ latest' = None /\ latestSheet' = None
    /\ UNCHANGED <<cloud, begun, events>>

\* What the cloud answers: the latest archive, or for want of it the newest.
Download == IF cloudLatest = None THEN cloudNewest ELSE cloudLatest

HydratedAfterInit(answered) == {db}     \* mutant: the database has been created before

\* What a node finds at boot, when the cloud answers or not: a partial archive may unpack
\* or not, and the next one is tried.
Hydrated(answered) ==
    LET fallback == Unpacked(latest) \cup (IF latest.kind = "whole" THEN {} ELSE {db})
        first == IF answered THEN Unpacked(Download) ELSE {}
    IN  IF Cardinality(db) > Threshold THEN {db}
        ELSE first \cup (IF answered /\ Download.kind = "whole" THEN {} ELSE fallback)

Boot ==
    /\ node = "down" /\ node' = "up"
    /\ \E answered \in BOOLEAN :
        /\ db' \in Hydrated(answered)
        /\ Note("disturbed", ~answered /\ Download # None)
    /\ UNCHANGED <<disk, cloud, task, clock>>

Next ==
    \/ \E t \in Tasks : Begin(t) \/ Dump(t) \/ Archive(t) \/ Copy(t) \/ Stamp(t)
           \/ Put(t) \/ PutLatest(t) \/ PutFails(t) \/ Rotate(t) \/ Fail(t) \/ Cancel(t)
    \/ \E a \in Audits : AddAudit(a)
    \/ Restore \/ Close \/ Stop \/ Boot

Spec == Init /\ [][Next]_vars

-----------------------------------------------------------------------------
Archives == [kind : {"none", "partial", "torn", "unreadable", "whole"}, audits : SUBSET Audits, by : SUBSET Tasks]
Steps == {"idle", "dump", "archive", "copy", "stamp", "put", "put_latest", "rotate"}

\* Files hold archives and tasks are at steps of theirs.
TypeOK ==
    /\ db \subseteq Audits
    /\ files \in [Slugs -> Archives] /\ sheets \in [Slugs -> Archives]
    /\ newer \in [Slugs -> SUBSET Slugs] /\ failed \subseteq Slugs
    /\ latest \in Archives /\ latestSheet \in Archives
    /\ cloudNewest \in Archives /\ cloudLatest \in Archives
    /\ task \in [Tasks -> [at : Steps, slug : Slugs \cup {0}, audits : SUBSET Audits,
                           dirty : BOOLEAN, orphan : BOOLEAN, blocking : BOOLEAN]]
    /\ node \in {"up", "closing", "down"}
    /\ begun \in Nat /\ stops \in Nat
    /\ events \subseteq {"clash", "disturbed", "failed"}

Settled(s) == s \notin InUse

\* What a restore would take from the disk.
Restorable == {s \in Slugs : files[s].kind = "whole" /\ sheets[s] \in {None, Unreadable, files[s]}}

\* Once nobody is at work on it, an archive with a manifest that can be read is whole and the
\* manifest is its own: the hash is taken from the complete file (engine.py:213-237), whatever
\* other backups, rotations, failing steps, cancellations and crashes do meanwhile, and
\* whatever manifests they leave behind.  Of two backups written under one name the last to
\* end writes the manifest of what the file has become, unless one is cut short or fails.
ManifestsVerify ==
    \A s \in Slugs : (Settled(s) /\ files[s] # None /\ sheets[s] \notin {None, Unreadable}) =>
        /\ "clash" \notin events => files[s].kind = "whole" /\ sheets[s] = files[s]
        /\ (stops = 0 /\ node = "up" /\ "failed" \notin events) => sheets[s] = files[s]

\* Nothing a backup does leaves the disk without an archive to restore when it had one, while
\* rotation keeps at least as many as there are backups at work and archives that were given
\* up (engine.py:257-272): it may keep the unfinished ones of others, those that crashes cut
\* short and those it fails to unlink, never only those.
RestorableKept ==
    [][(Restorable # {} /\ "clash" \notin events' /\ OnDisk' # {}
            /\ Cardinality(AtWork) + Cardinality(failed) <= Retain)
        => Restorable' # {}]_vars

\* The same of a disk full of archives that were given up: "Retain the N most recent database
\* backups" (engine.py:258).  The code counts those among the most recent.
RestorableAlways ==
    [][(Restorable # {} /\ "clash" \notin events' /\ OnDisk' # {} /\ Cardinality(AtWork) <= Retain)
        => Restorable' # {}]_vars

\* The latest archive in the cloud never loses an audit while backups run one at a time, some
\* of them failing, every boot that finds one gets it, and no older archive is restored: a node
\* that lost its disk takes up the latest before it backs itself up (lifespan.py:29-38, 108).
CloudKeeps ==
    [][(Cardinality(Tasks) = 1 /\ "disturbed" \notin events')
        => cloudLatest.audits \subseteq cloudLatest'.audits]_vars

\* What .agents/skills/cloudrun-ops/SKILL.md:264 says of a boot: "Verify SHA-256 hash,
\* Ed25519 signature, and PRAGMA integrity_check; before hydrating": it takes a whole archive
\* or leaves the database.  The code verifies neither (engine.py:409, 418), and an archive
\* without bytes passes for an empty database.
HydratesWhole ==
    [][node = "down" /\ node' = "up" /\ db' # db =>
        \E a \in {Download, latest} : a.kind = "whole" /\ db' = a.audits]_vars
================================================================================
