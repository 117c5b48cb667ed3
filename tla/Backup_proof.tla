------------------------------ MODULE Backup_proof ------------------------------
(***************************************************************************)
(* What backups promise, proved for any number of tasks, names, audits,    *)
(* archives kept, stops and steps that fail.                               *)
(*                                                                         *)
(* Manifests.  While no two backups share a name (NoClash), whoever is     *)
(* past the copy of the database has its name alone (Apart), has written   *)
(* a whole archive or lost it to a rotation (Closed), and finds no         *)
(* manifest there before it writes one (Fresh); so a manifest beside an    *)
(* archive is that of a whole one, or cannot be read (Sealed).  When they  *)
(* do share one, a manifest that is not its archive's has a writer on the  *)
(* way to correct it (Matching), as long as nobody was cancelled or        *)
(* failed.                                                                 *)
(*                                                                         *)
(* Rotation.  The names on disk are a chain by age (Chain).  What is newer *)
(* than the archive of a task that has ended its own is whole too, in the  *)
(* hands of another task, given up by one or old enough to be pruned       *)
(* (Behind): those that a crash cut short are older.  If a rotation left   *)
(* none that can be restored, each of the archives it keeps would be in    *)
(* the hands of another task or given up, and those are fewer than it      *)
(* keeps (RotationKeeps).                                                  *)
(***************************************************************************)
EXTENDS Backup, FiniteSetTheorems, WellFoundedInduction, TLAPS

\* The steps at which a manifest is still to come, and those after the copy of the database.
Archiving == {"archive", "copy", "stamp"}
Past == Archiving \cup {"put", "put_latest", "rotate"}

\* What holds whatever names are shared: backups at work have names, and none is at work on a
\* node that is down.
Named == \A t \in AtWork : task[t].slug \in Slugs
Quiet == node = "down" => AtWork = {}

\* What holds while no two backups share a name.
NoClash == "clash" \notin events
Apart == \A t, u \in Tasks :
    (t # u /\ task[t].at \in Past /\ task[u].at \in Past) => task[t].slug # task[u].slug
Clean == \A t \in Tasks : task[t].at = "archive" => ~task[t].dirty
Closed == \A t \in Tasks : task[t].at \in Past \ {"archive"} => 
    (files[task[t].slug] = None \/ files[task[t].slug].kind = "whole")
Fresh == \A t \in Tasks : task[t].at \in Archiving => sheets[task[t].slug] = None
Sealed == \A s \in Slugs : (files[s] # None /\ sheets[s] \notin {None, Unreadable}) =>
    (files[s].kind = "whole" /\ sheets[s] = files[s])

\* What holds while the node was not closed or stopped and no backup failed.
Underway(s) == \E t \in Tasks : task[t].slug = s /\ task[t].at \in Archiving
Running == stops = 0 /\ node # "closing" /\ "failed" \notin events
Kept == \A t \in Tasks : ~task[t].orphan
Matched(s) == files[s] = None \/ sheets[s] \in {None, files[s]} \/ Underway(s)
Matching == \A s \in Slugs : Matched(s)

IInv ==
    /\ TypeOK /\ Named /\ Quiet
    /\ NoClash => Apart /\ Clean /\ Closed /\ Fresh /\ Sealed
    /\ Running => Kept /\ Matching

\* The kinds of archives differ, and whole ones say what is in them.
LEMMA Kinds ==
    /\ None \in Archives /\ Partial \in Archives /\ Torn \in Archives /\ Unreadable \in Archives
    /\ None.kind = "none" /\ Partial.kind = "partial" /\ Torn.kind = "torn"
    /\ None # Partial /\ None # Torn /\ None # Unreadable
    /\ \A S, t : Whole(S, t).kind = "whole" /\ Whole(S, t) # None /\ Whole(S, t) # Unreadable /\ Whole(S, t).audits = S
    /\ \A a : a.kind = "whole" => a # None /\ a # Unreadable
    /\ \A S \in SUBSET Audits, t \in Tasks : Whole(S, t) \in Archives
BY DEF None, Partial, Torn, Unreadable, Blank, Whole, Archives

TaskRecord == [at : Steps, slug : Slugs \cup {0}, audits : SUBSET Audits,
               dirty : BOOLEAN, orphan : BOOLEAN, blocking : BOOLEAN]

\* Types hold at the start.
LEMMA Typed == Init => TypeOK
BY Kinds DEF Init, TypeOK, Idle, Steps

\* A task that goes on, opens a file or ends is a task.
LEMMA GoTyped ==
    ASSUME TypeOK, NEW t \in Tasks, NEW step \in Steps
    PROVE  /\ Go(t, step) => task' \in [Tasks -> TaskRecord]
           /\ End(t) => task' \in [Tasks -> TaskRecord]
           /\ \A S \in SUBSET Audits, U \in SUBSET Tasks :
                GoWriting(t, step, S, U) => task' \in [Tasks -> TaskRecord]
<1>0. task \in [Tasks -> TaskRecord]
  BY DEF TypeOK, TaskRecord
<1>1. Go(t, step) => task' \in [Tasks -> TaskRecord]
  BY <1>0 DEF Go, TaskRecord
<1>2. End(t) => task' \in [Tasks -> TaskRecord]
  BY <1>0 DEF End, TaskRecord, Idle, Steps
<1>3. ASSUME NEW S \in SUBSET Audits, NEW U \in SUBSET Tasks, GoWriting(t, step, S, U)
      PROVE  task' \in [Tasks -> TaskRecord]
  BY <1>0, <1>3 DEF GoWriting, TaskRecord
<1> QED BY <1>1, <1>2, <1>3

\* Every step keeps the types.
LEMMA TypeStep == TypeOK /\ Named /\ [Next]_vars => TypeOK'
<1> SUFFICES ASSUME TypeOK, Named, [Next]_vars PROVE TypeOK'
  OBVIOUS
<1>k. task \in [Tasks -> TaskRecord]
  BY DEF TypeOK, TaskRecord
<1>t. TypeOK <=> /\ db \subseteq Audits
    /\ files \in [Slugs -> Archives] /\ sheets \in [Slugs -> Archives]
    /\ newer \in [Slugs -> SUBSET Slugs] /\ failed \subseteq Slugs
    /\ latest \in Archives /\ latestSheet \in Archives
    /\ cloudNewest \in Archives /\ cloudLatest \in Archives
    /\ task \in [Tasks -> TaskRecord]
    /\ node \in {"up", "closing", "down"}
    /\ begun \in Nat /\ stops \in Nat
    /\ events \subseteq {"clash", "disturbed", "failed"}
  BY DEF TypeOK, TaskRecord
<1>e. ASSUME NEW t \in Tasks
      PROVE  task[t].audits \in SUBSET Audits /\ (task[t].at # "idle" => task[t].slug \in Slugs)
  BY DEF TypeOK, Named, AtWork
<1>a. \A U \in SUBSET AtWork : U \in SUBSET Tasks
  BY DEF AtWork
<1>1. ASSUME NEW t \in Tasks, Begin(t) PROVE TypeOK'
  <2>1. task' \in [Tasks -> TaskRecord]
    <3>1. PICK s \in Slugs, blocking \in Blocking :
            task' = [task EXCEPT ![t] = [Idle EXCEPT !.at = "dump", !.slug = s, !.blocking = blocking]]
      BY <1>1 DEF Begin
    <3>2. [Idle EXCEPT !.at = "dump", !.slug = s, !.blocking = blocking] \in TaskRecord
      BY BackupAssumption DEF Idle, TaskRecord, Steps
    <3> QED BY <1>k, <3>1, <3>2
  <2> QED BY <1>1, <1>t, <2>1 DEF Begin, TypeOK, TaskRecord, disk, cloud
<1>2. ASSUME NEW t \in Tasks, Dump(t) PROVE TypeOK'
  <2>1. task' \in [Tasks -> TaskRecord]
    <3>1. {u \in AtWork \ {t} : task[u].at = "archive" /\ task[u].slug = task[t].slug} \in SUBSET Tasks
      BY DEF AtWork
    <3>2. db \in SUBSET Audits /\ "archive" \in Steps
      BY DEF TypeOK, Steps
    <3> QED BY <1>2, <3>1, <3>2, GoTyped DEF Dump
  <2>2. /\ files' \in [Slugs -> Archives] /\ newer' \in [Slugs -> SUBSET Slugs]
        /\ events' \subseteq {"clash", "disturbed", "failed"}
    BY <1>2, Kinds, <1>e DEF Dump, TypeOK, Touch, Note
  <2> QED BY <1>2, <2>1, <2>2 DEF Dump, TypeOK, TaskRecord, cloud, clock
<1>3. ASSUME NEW t \in Tasks, Archive(t) PROVE TypeOK'
  <2>1. task' \in [Tasks -> TaskRecord]
    <3>1. {u \in AtWork \ {t} : task[u].at = "copy"} \in SUBSET Tasks
      BY DEF AtWork
    <3>2. task[t].audits \in SUBSET Audits /\ "copy" \in Steps
      BY <1>e DEF Steps
    <3>3. CASE End(t)
      BY <3>2, <3>3, GoTyped
    <3>4. CASE GoWriting(t, "copy", task[t].audits, {u \in AtWork \ {t} : task[u].at = "copy"})
      BY <3>1, <3>2, <3>4, GoTyped
    <3> QED BY <1>3, <3>3, <3>4 DEF Archive
  <2>2. \A a \in Written(t, Whole(task[t].audits, t)) : a \in Archives
    BY <1>e, Kinds DEF Written
  <2>3. files' \in [Slugs -> Archives] /\ newer' \in [Slugs -> SUBSET Slugs]
    BY <1>3, <1>e, Kinds, <2>2 DEF Archive, TypeOK, Touch, disk
  <2>4. latest' \in Archives /\ sheets' = sheets /\ latestSheet' = latestSheet /\ failed' = failed
    BY Kinds, <1>3 DEF Archive, TypeOK, disk
  <2> QED BY <1>3, <2>1, <2>3, <2>4 DEF Archive, TypeOK, TaskRecord, cloud, clock
<1>4. ASSUME NEW t \in Tasks, Copy(t) PROVE TypeOK'
  <2>1. task' \in [Tasks -> TaskRecord]
    BY <1>4, Kinds, GoTyped DEF Copy, TypeOK, Steps
  <2>2. latest' \in Archives
    BY <1>4, Kinds, <1>e DEF Copy, TypeOK, Written
  <2> QED BY <1>4, <2>1, <2>2 DEF Copy, TypeOK, TaskRecord, cloud, clock
<1>5. ASSUME NEW t \in Tasks, Stamp(t) PROVE TypeOK'
  <2>1. task' \in [Tasks -> TaskRecord]
    BY <1>5, GoTyped DEF Stamp, TypeOK, Steps
  <2>2. sheets' \in [Slugs -> Archives] /\ latestSheet' \in Archives
    BY <1>5, <1>e DEF Stamp, TypeOK
  <2> QED BY <1>5, <2>1, <2>2 DEF Stamp, TypeOK, TaskRecord, cloud, clock
<1>6. ASSUME NEW t \in Tasks, Put(t) PROVE TypeOK'
  <2>1. task' \in [Tasks -> TaskRecord] /\ cloudNewest' \in Archives
    BY <1>6, GoTyped, <1>e DEF Put, TypeOK, Steps
  <2> QED BY <1>6, <2>1 DEF Put, TypeOK, TaskRecord, disk, clock
<1>7. ASSUME NEW t \in Tasks, PutLatest(t) \/ PutFails(t) PROVE TypeOK'
  <2>1. task' \in [Tasks -> TaskRecord]
    BY <1>7, GoTyped DEF PutLatest, PutFails, Uploaded, TypeOK, Steps
  <2> QED BY <1>7, <2>1 DEF PutLatest, PutFails, TypeOK, TaskRecord, disk, cloud, clock
<1>8. ASSUME NEW t \in Tasks, Rotate(t) PROVE TypeOK'
  <2>1. task' \in [Tasks -> TaskRecord]
    BY <1>8, GoTyped DEF Rotate, TypeOK, Steps
  <2>2. PICK gone \in SUBSET Pruned, left \in SUBSET Slugs :
        /\ files' = [s \in Slugs |-> IF s \in gone THEN None ELSE files[s]]
        /\ sheets' = [s \in Slugs |-> IF s \in gone \ left THEN None ELSE sheets[s]]
        /\ newer' = [s \in Slugs |-> IF s \in gone THEN {} ELSE newer[s] \ gone]
        /\ failed' = failed \ gone
    BY <1>8 DEF Rotate, Pruned, OnDisk
  <2>3. /\ files' \in [Slugs -> Archives] /\ sheets' \in [Slugs -> Archives]
        /\ newer' \in [Slugs -> SUBSET Slugs] /\ failed' \subseteq Slugs
    BY <2>2, Kinds DEF TypeOK
  <2> QED BY <1>8, <2>1, <2>3 DEF Rotate, TypeOK, TaskRecord, cloud, clock
<1>16. ASSUME NEW t \in Tasks, Fail(t) PROVE TypeOK'
  <2>1. task' \in [Tasks -> TaskRecord]
    BY <1>16, GoTyped DEF Fail, Steps
  <2>2. events' \subseteq {"clash", "disturbed", "failed"}
    BY <1>16 DEF Fail, Note, TypeOK
  <2>3. /\ files' \in [Slugs -> Archives] /\ sheets' \in [Slugs -> Archives]
        /\ newer' \in [Slugs -> SUBSET Slugs] /\ failed' \subseteq Slugs
        /\ latest' \in Archives /\ latestSheet' \in Archives
    <3>1. CASE UNCHANGED disk
      BY <3>1 DEF disk, TypeOK
    <3>2. CASE FailArchive(t) /\ files[task[t].slug] # None
      <4>1. task[t].slug \in Slugs
        BY <1>e, <3>2 DEF FailArchive
      <4>2. \A a \in Written(t, files[task[t].slug]) : a \in Archives
        BY <4>1, Kinds DEF Written, TypeOK
      <4>3. PICK a \in Written(t, files[task[t].slug]) : files' = [files EXCEPT ![task[t].slug] = a]
        BY <3>2 DEF FailArchive
      <4>4. files' \in [Slugs -> Archives]
        BY <4>2, <4>3 DEF TypeOK
      <4>5. newer' \in [Slugs -> SUBSET Slugs] /\ failed' \subseteq Slugs
        BY <3>2, <4>1 DEF FailArchive, TypeOK, Touch
      <4> QED BY <3>2, <4>4, <4>5 DEF FailArchive, TypeOK
    <3>3. CASE FailCopy(t)
      BY <3>3, Kinds DEF FailCopy, Written, TypeOK
    <3>4. CASE FailStamp(t)
      BY <3>4, <1>e, Kinds DEF FailStamp, TypeOK
    <3> QED BY <1>16, <3>1, <3>2, <3>3, <3>4 DEF Fail, FailDump, FailArchive
  <2> QED BY <1>16, <2>1, <2>2, <2>3 DEF Fail, TypeOK, TaskRecord, cloud, clock
<1>9. ASSUME NEW t \in Tasks, Cancel(t) PROVE TypeOK'
  <2>1. task' \in [Tasks -> TaskRecord]
    <3>1. CASE task' = [task EXCEPT ![t].orphan = TRUE]
      <4>1. [task[t] EXCEPT !.orphan = TRUE] \in TaskRecord
        BY <1>k DEF TaskRecord
      <4> QED BY <1>k, <3>1, <4>1
    <3>2. CASE End(t)
      BY <3>2, GoTyped DEF Steps
    <3> QED BY <1>9, <3>1, <3>2 DEF Cancel
  <2> QED BY <1>9, <2>1 DEF Cancel, TypeOK, TaskRecord, disk, cloud, clock
<1>10. ASSUME NEW a \in Audits, AddAudit(a) PROVE TypeOK'
  BY <1>10 DEF AddAudit, TypeOK, disk, cloud, clock
<1>u. \A a \in Archives : \A S \in Unpacked(a) : S \in SUBSET Audits
  BY DEF Unpacked, Archives
<1>11. CASE Restore
  <2>1. db' \subseteq Audits
    BY <1>11, <1>u DEF Restore, TypeOK
  <2> QED BY <1>11, <2>1 DEF Restore, TypeOK, Note, disk, cloud, clock
<1>12. CASE Close
  BY <1>12 DEF Close, TypeOK, disk, cloud, clock
<1>13. CASE Stop
  <2>1. task' \in [Tasks -> TaskRecord]
    BY Kinds, <1>13 DEF Stop, TaskRecord, Idle, Steps
  <2> QED BY <1>13, <2>1, Kinds DEF Stop, TypeOK, TaskRecord, disk, cloud
<1>14. CASE Boot
  <2>1. db' \subseteq Audits
    BY <1>14, <1>u DEF Boot, Hydrated, Download, TypeOK
  <2> QED BY <1>14, <2>1 DEF Boot, TypeOK, Note, disk, cloud, clock
<1>15. CASE UNCHANGED vars
  BY <1>15 DEF vars, disk, cloud, clock, TypeOK
<1> QED
  BY <1>1, <1>2, <1>3, <1>4, <1>5, <1>6, <1>7, <1>8, <1>9, <1>10, <1>11, <1>12, <1>13, <1>14, <1>15, <1>16
     DEF Next

\* The other tasks stay where they are, a task moves on or ends.
Others(t) == \A u \in Tasks \ {t} :
    /\ task'[u].at = task[u].at /\ task'[u].slug = task[u].slug /\ task'[u].audits = task[u].audits
    /\ task'[u].orphan = task[u].orphan /\ task'[u].blocking = task[u].blocking
Moved(t, step) ==
    /\ task'[t].at = step /\ task'[t].slug = task[t].slug
    /\ task'[t].orphan = task[t].orphan /\ task'[t].blocking = task[t].blocking
Same(u) == task'[u] = task[u]
Ended(t) == task'[t] = Idle

\* What the three ways a task moves change.
LEMMA Effects ==
    ASSUME TypeOK, NEW t \in Tasks, NEW step
    PROVE  /\ Go(t, step) => Moved(t, step) /\ ~task'[t].dirty /\ \A u \in Tasks \ {t} : Same(u)
           /\ End(t) => Ended(t) /\ \A u \in Tasks \ {t} : Same(u)
           /\ \A S, U : GoWriting(t, step, S, U) =>
                /\ Moved(t, step) /\ task'[t].audits = S /\ (task'[t].dirty <=> U # {})
                /\ Others(t)
                /\ \A u \in Tasks \ {t} : task'[u].dirty => task[u].dirty \/ u \in U
<1>0. task \in [Tasks -> TaskRecord]
  BY DEF TypeOK, TaskRecord
<1>1. Go(t, step) => Moved(t, step) /\ ~task'[t].dirty /\ \A u \in Tasks \ {t} : Same(u)
  BY <1>0 DEF Go, Moved, Same, TaskRecord
<1>2. End(t) => Ended(t) /\ \A u \in Tasks \ {t} : Same(u)
  BY <1>0 DEF End, Ended, Same
<1>3. ASSUME NEW S, NEW U, GoWriting(t, step, S, U)
      PROVE  /\ Moved(t, step) /\ task'[t].audits = S /\ (task'[t].dirty <=> U # {})
             /\ Others(t)
             /\ \A u \in Tasks \ {t} : task'[u].dirty => task[u].dirty \/ u \in U
  <2>1. \A u \in Tasks :
          task'[u] = IF u = t THEN [task[t] EXCEPT !.at = step, !.audits = S, !.dirty = (U # {})]
                     ELSE IF u \in U THEN [task[u] EXCEPT !.dirty = TRUE] ELSE task[u]
    BY <1>3 DEF GoWriting
  <2>2. task[t] \in TaskRecord /\ \A u \in Tasks : task[u] \in TaskRecord
    BY <1>0
  <2>3. Moved(t, step) /\ task'[t].audits = S /\ (task'[t].dirty <=> U # {})
    BY <2>1, <2>2 DEF Moved, TaskRecord
  <2>4. Others(t)
    BY <2>1, <2>2 DEF Others, TaskRecord
  <2>5. ASSUME NEW u \in Tasks \ {t}, task'[u].dirty, u \notin U PROVE task[u].dirty
    BY <2>1, <2>5
  <2> QED BY <2>3, <2>4, <2>5
<1> QED BY <1>1, <1>2, <1>3

\* What the steps of a task change of the tasks.
LEMMA DumpEffect ==
    ASSUME TypeOK, NEW t \in Tasks, Dump(t)
    PROVE  /\ Moved(t, "archive") /\ Others(t) /\ task'[t].audits = db
           /\ task'[t].dirty => \E u \in Tasks \ {t} :
                task[u].at = "archive" /\ task[u].slug = task[t].slug
           /\ \A u \in Tasks \ {t} : task'[u].dirty =>
                task[u].dirty \/ (task[u].at = "archive" /\ task[u].slug = task[t].slug)
<1> DEFINE U == {u \in AtWork \ {t} : task[u].at = "archive" /\ task[u].slug = task[t].slug}
<1>1. GoWriting(t, "archive", db, U)
  BY DEF Dump
<1>2. \A u \in U : u \in Tasks \ {t} /\ task[u].at = "archive" /\ task[u].slug = task[t].slug
  BY DEF AtWork
<1> HIDE DEF U
<1> QED BY <1>1, <1>2, Effects

\* The close of an archive: it ends a task whose archive is gone, or opens the latest one.
LEMMA ArchiveEffect ==
    ASSUME TypeOK, NEW t \in Tasks, Archive(t)
    PROVE  \/ /\ files[task[t].slug] = None /\ Ended(t) /\ \A u \in Tasks \ {t} : Same(u)
              /\ UNCHANGED <<files, sheets, newer, failed, latest, latestSheet>>
           \/ /\ files[task[t].slug] # None
              /\ Moved(t, "copy") /\ Others(t) /\ task'[t].audits = task[t].audits
              /\ task'[t].dirty => \E u \in Tasks \ {t} : task[u].at = "copy"
              /\ \A u \in Tasks \ {t} : task'[u].dirty => task[u].dirty \/ task[u].at = "copy"
              /\ \E a \in Written(t, Whole(task[t].audits, t)) :
                     files' = [files EXCEPT ![task[t].slug] = a]
              /\ newer' = Touch(task[t].slug) /\ latest' = Partial
              /\ UNCHANGED <<sheets, latestSheet>>
<1> DEFINE U == {u \in AtWork \ {t} : task[u].at = "copy"}
<1>1. CASE End(t) /\ files[task[t].slug] = None /\ UNCHANGED disk
  BY <1>1, Effects DEF disk
<1>2. CASE GoWriting(t, "copy", task[t].audits, U) /\ files[task[t].slug] # None
  <2>1. \A u \in U : u \in Tasks \ {t} /\ task[u].at = "copy"
    BY DEF AtWork
  <2> HIDE DEF U
  <2>2. /\ Moved(t, "copy") /\ Others(t) /\ task'[t].audits = task[t].audits
        /\ task'[t].dirty => \E u \in Tasks \ {t} : task[u].at = "copy"
        /\ \A u \in Tasks \ {t} : task'[u].dirty => task[u].dirty \/ task[u].at = "copy"
    BY <1>2, <2>1, Effects
  <2> QED BY <1>2, <2>2 DEF Archive
<1> QED BY <1>1, <1>2 DEF Archive

\* The other steps of a backup: the task goes on or ends.
Onward(t) == Copy(t) \/ Stamp(t) \/ Put(t) \/ PutLatest(t) \/ PutFails(t) \/ Rotate(t)

\* They are behind the archive, and change no other task.
LEMMA OnwardEffect ==
    ASSUME TypeOK, NEW t \in Tasks, Onward(t)
    PROVE  /\ task[t].at \in Past \ {"archive"}
           /\ \A u \in Tasks \ {t} : Same(u)
           /\ \/ Ended(t)
              \/ task[t].at = "copy" /\ Moved(t, "stamp") /\ ~task'[t].dirty
              \/ \E step \in {"put", "put_latest", "rotate"} : Moved(t, step) /\ ~task'[t].dirty
<1>1. task[t].at \in Past \ {"archive"}
  BY DEF Onward, Copy, Stamp, Put, PutLatest, PutFails, Rotate, Past, Archiving
<1>2. \/ End(t)
      \/ task[t].at = "copy" /\ Go(t, "stamp")
      \/ \E step \in {"put", "put_latest", "rotate"} : Go(t, step)
  BY DEF Onward, Copy, Stamp, Put, PutLatest, PutFails, Rotate, Uploaded
<1> QED BY <1>1, <1>2, Effects

\* A task that fails ends, and nobody can say afterwards that none did.
LEMMA FailEffect ==
    ASSUME TypeOK, NEW t \in Tasks, Fail(t)
    PROVE  /\ task[t].at \in Archiving \cup {"dump"}
           /\ Ended(t) /\ \A u \in Tasks \ {t} : Same(u)
           /\ events' = events \cup {"failed"}
           /\ UNCHANGED <<db, cloud, node, clock>>
<1>1. task[t].at \in Archiving \cup {"dump"}
  BY DEF Fail, FailDump, FailArchive, FailCopy, FailStamp, Archiving
<1>2. End(t) /\ events' = events \cup {"failed"}
  BY DEF Fail, Note
<1> QED BY <1>1, <1>2, Effects DEF Fail

\* A cancelled task ends, or goes on as an orphan.
LEMMA CancelEffect ==
    ASSUME TypeOK, NEW t \in Tasks, Cancel(t)
    PROVE  /\ \A u \in Tasks \ {t} : Same(u)
           /\ \/ Ended(t)
              \/ /\ task'[t].at = task[t].at /\ task'[t].slug = task[t].slug
                 /\ task'[t].audits = task[t].audits /\ task'[t].dirty = task[t].dirty
                 /\ task'[t].blocking = task[t].blocking
<1>1. CASE End(t)
  BY <1>1, Effects
<1>2. CASE task' = [task EXCEPT ![t].orphan = TRUE]
  <2>1. task \in [Tasks -> TaskRecord]
    BY DEF TypeOK, TaskRecord
  <2> QED BY <1>2, <2>1 DEF TaskRecord, Same
<1> QED BY <1>1, <1>2 DEF Cancel

\* A backup at work has a name.
LEMMA NamedStep == TypeOK /\ Named /\ [Next]_vars => Named'
<1> SUFFICES ASSUME TypeOK, Named, [Next]_vars, NEW u \in Tasks, task'[u].at # "idle"
             PROVE  task'[u].slug \in Slugs
  BY DEF Named, AtWork
<1>0. Idle.at = "idle"
  BY DEF Idle
<1>n. \A t \in Tasks : task[t].at # "idle" => task[t].slug \in Slugs
  BY DEF Named, AtWork
<1>k. task \in [Tasks -> TaskRecord]
  BY DEF TypeOK, TaskRecord
<1>1. ASSUME NEW t \in Tasks, Begin(t) PROVE task'[u].slug \in Slugs
  BY <1>0, <1>1, <1>n, <1>k DEF Begin, Idle
<1>2. ASSUME NEW t \in Tasks, Dump(t) PROVE task'[u].slug \in Slugs
  <2>1. task[t].at = "dump"
    BY <1>2 DEF Dump
  <2> QED BY <1>2, <1>n, <2>1, DumpEffect DEF Others, Moved
<1>3. ASSUME NEW t \in Tasks, Archive(t) PROVE task'[u].slug \in Slugs
  <2>1. task[t].at = "archive"
    BY <1>3 DEF Archive
  <2> QED BY <1>0, <1>3, <1>n, <2>1, ArchiveEffect DEF Others, Moved, Same, Ended
<1>4. ASSUME NEW t \in Tasks, Onward(t) PROVE task'[u].slug \in Slugs
  <2>1. task[t].at # "idle"
    BY <1>4, OnwardEffect DEF Past, Archiving
  <2> QED BY <1>0, <1>4, <1>n, <2>1, OnwardEffect DEF Moved, Same, Ended
<1>9. ASSUME NEW t \in Tasks, Cancel(t) PROVE task'[u].slug \in Slugs
  BY <1>0, <1>9, <1>n, CancelEffect DEF Same, Ended
<1>10. CASE Stop
  BY <1>0, <1>10 DEF Stop
<1>11. CASE task' = task
  BY <1>11, <1>n
<1>12. ASSUME NEW t \in Tasks, Fail(t) PROVE task'[u].slug \in Slugs
  BY <1>0, <1>12, <1>n, FailEffect DEF Same, Ended
<1> QED BY <1>1, <1>2, <1>3, <1>4, <1>9, <1>10, <1>11, <1>12 DEF Next, Onward, AddAudit, Restore, Close, Boot, vars

\* Nobody is at work on a node that is down.
LEMMA QuietStep == TypeOK /\ Quiet /\ [Next]_vars => Quiet'
<1> SUFFICES ASSUME TypeOK, Quiet, [Next]_vars, node' = "down", NEW u \in Tasks
             PROVE  task'[u].at = "idle"
  BY DEF Quiet, AtWork
<1>0. Idle.at = "idle"
  BY DEF Idle
<1>1. CASE Stop
  BY <1>0, <1>1 DEF Stop
<1>2. CASE ~Stop
  <2>1. node = "down"
    BY <1>2 DEF Next, Begin, Dump, Archive, Copy, Stamp, Put, PutLatest, PutFails, Rotate, Fail, Cancel,
                AddAudit, Restore, Close, Boot, vars
  <2>2. \A t \in Tasks : task[t].at = "idle"
    BY <2>1 DEF Quiet, AtWork
  <2>3. task' = task
    BY <1>2, <2>1, <2>2 DEF Next, Begin, Dump, Archive, Copy, Stamp, Put, PutLatest, PutFails, Rotate,
                Fail, FailDump, FailArchive, FailCopy, FailStamp, Cancel, AddAudit, Restore, Close, Boot, vars
  <2> QED BY <2>2, <2>3
<1> QED BY <1>1, <1>2

\* Steps that leave the archives and their manifests as they are.
LEMMA DiskKept ==
    ASSUME NEW t \in Tasks, Begin(t) \/ Copy(t) \/ Put(t) \/ PutLatest(t) \/ PutFails(t) \/ Cancel(t)
    PROVE  /\ files' = files /\ sheets' = sheets /\ events' = events /\ newer' = newer
           /\ failed' = failed
BY DEF Begin, Copy, Put, PutLatest, PutFails, Cancel, disk

\* A stop ends every task, and may take the disk.
LEMMA StopEffect ==
    ASSUME Stop
    PROVE  /\ \A t \in Tasks : task'[t] = Idle
           /\ \/ files' = files /\ sheets' = sheets /\ newer' = newer /\ failed' = failed /\ db' = db
              \/ db' = {} /\ failed' = {} /\ \A s \in Slugs : files'[s] = None /\ sheets'[s] = None /\ newer'[s] = {}
           /\ events' = events /\ stops' = stops + 1 /\ node' = "down" /\ UNCHANGED cloud
BY DEF Stop, disk

\* Steps of the node that touch neither its disk nor its tasks.
LEMMA Still ==
    ASSUME (\E a \in Audits : AddAudit(a)) \/ Restore \/ Close \/ Boot \/ UNCHANGED vars
    PROVE  files' = files /\ sheets' = sheets /\ newer' = newer /\ task' = task /\ stops' = stops
           /\ failed' = failed /\ ("clash" \in events' <=> "clash" \in events)
           /\ ("failed" \in events' <=> "failed" \in events)
BY DEF AddAudit, Restore, Close, Boot, vars, disk, clock, Note

\* The archive a task opens, and when that is a clash.
LEMMA DumpFiles ==
    ASSUME TypeOK, Named, NEW t \in Tasks, Dump(t)
    PROVE  /\ task[t].at = "dump" /\ task[t].slug \in Slugs
           /\ files'[task[t].slug] = Partial
           /\ \A s \in Slugs \ {task[t].slug} : files'[s] = files[s]
           /\ sheets' = sheets /\ newer' = Touch(task[t].slug) /\ failed' = failed
           /\ events' = IF files[task[t].slug] # None \/ sheets[task[t].slug] # None
                             \/ \E u \in Tasks \ {t} : task[u].at # "idle" /\ task[u].slug = task[t].slug
                        THEN events \cup {"clash"} ELSE events
<1>1. task[t].at = "dump" /\ task[t].slug \in Slugs /\ files \in [Slugs -> Archives]
  BY DEF Dump, Named, AtWork, TypeOK
<1>2. events' = IF files[task[t].slug] # None \/ sheets[task[t].slug] # None
                             \/ \E u \in Tasks \ {t} : task[u].at # "idle" /\ task[u].slug = task[t].slug
                        THEN events \cup {"clash"} ELSE events
  BY DEF Dump, Note, AtWork
<1> QED BY <1>1, <1>2 DEF Dump

\* The archive a task closes is whole unless another wrote to it.
LEMMA ArchiveFiles ==
    ASSUME TypeOK, Named, NEW t \in Tasks, Archive(t), files[task[t].slug] # None
    PROVE  /\ task[t].at = "archive" /\ task[t].slug \in Slugs
           /\ \/ files'[task[t].slug] = Whole(task[t].audits, t)
              \/ task[t].dirty /\ files'[task[t].slug] = Torn
           /\ \A s \in Slugs \ {task[t].slug} : files'[s] = files[s]
           /\ sheets' = sheets /\ events' = events /\ failed' = failed
<1>1. task[t].at = "archive" /\ task[t].slug \in Slugs /\ files \in [Slugs -> Archives]
  BY DEF Archive, Named, AtWork, TypeOK
<1> QED BY <1>1, ArchiveEffect DEF Archive, Written

\* A manifest is written of what the archive has become.
LEMMA StampFiles ==
    ASSUME TypeOK, Named, NEW t \in Tasks, Stamp(t)
    PROVE  /\ task[t].at = "stamp" /\ task[t].slug \in Slugs
           /\ files' = files /\ events' = events /\ newer' = newer /\ failed' = failed
           /\ \/ files[task[t].slug] = None /\ Ended(t) /\ sheets' = sheets
              \/ /\ files[task[t].slug] # None
                 /\ sheets'[task[t].slug] = files[task[t].slug]
                 /\ \A s \in Slugs \ {task[t].slug} : sheets'[s] = sheets[s]
                 /\ \E step \in {"put", "rotate"} : Moved(t, step)
<1>1. task[t].at = "stamp" /\ task[t].slug \in Slugs /\ sheets \in [Slugs -> Archives]
  BY DEF Stamp, Named, AtWork, TypeOK
<1>2. CASE files[task[t].slug] = None
  BY <1>1, <1>2, Effects DEF Stamp
<1>3. CASE files[task[t].slug] # None
  BY <1>1, <1>3, Effects DEF Stamp
<1> QED BY <1>2, <1>3

\* Rotation takes the archives of some of the names it prunes, with or without their manifests.
Unlinked(gone) ==
    /\ gone \subseteq Pruned /\ failed' = failed \ gone
    /\ \A s \in Slugs :
        /\ s \in gone => files'[s] = None /\ newer'[s] = {}
        /\ s \notin gone => files'[s] = files[s] /\ sheets'[s] = sheets[s] /\ newer'[s] = newer[s] \ gone
        /\ sheets'[s] \in {None, sheets[s]}
LEMMA RotateFiles ==
    ASSUME NEW t \in Tasks, Rotate(t)
    PROVE  /\ task[t].at = "rotate" /\ events' = events
           /\ \E gone : Unlinked(gone)
<1>1. PICK gone \in SUBSET Pruned, left \in SUBSET Pruned :
        /\ files' = [s \in Slugs |-> IF s \in gone THEN None ELSE files[s]]
        /\ sheets' = [s \in Slugs |-> IF s \in gone \ left THEN None ELSE sheets[s]]
        /\ newer' = [s \in Slugs |-> IF s \in gone THEN {} ELSE newer[s] \ gone]
        /\ failed' = failed \ gone
  BY DEF Rotate
<1>2. Unlinked(gone)
  BY <1>1 DEF Unlinked
<1> QED BY <1>2 DEF Rotate

\* A step that fails leaves the archives as they are, but for one it was writing beside another
\* task, which may be a mixture now, and the names on disk.
LEMMA FailFiles ==
    ASSUME TypeOK, Named, NEW t \in Tasks, Fail(t)
    PROVE  /\ task[t].slug \in Slugs
           /\ \A s \in Slugs : files'[s] = files[s] \/ 
                (s = task[t].slug /\ task[t].at = "archive" /\ task[t].dirty /\ files[s] # None /\ files'[s] = Torn)
           /\ newer' \in {newer, Touch(task[t].slug)}
           /\ \/ newer' = newer /\ failed' = failed /\ task[t].at # "archive"
              \/ newer' = newer /\ failed' = failed /\ files' = files /\ files[task[t].slug] = None
              \/ /\ task[t].at = "archive" /\ files[task[t].slug] # None
                 /\ failed' = failed \cup {task[t].slug}
           /\ \A s \in Slugs : sheets'[s] = sheets[s] \/
                /\ s = task[t].slug /\ task[t].at = "stamp" /\ files[s] # None
                /\ sheets'[s] \in {Unreadable, files[s]}
<1>1. task[t].slug \in Slugs /\ files \in [Slugs -> Archives] /\ sheets \in [Slugs -> Archives]
  BY FailEffect DEF Named, AtWork, TypeOK, Archiving
<1>2. CASE FailDump(t)
  BY <1>1, <1>2 DEF FailDump, disk
<1>3. CASE FailArchive(t)
  <2>1. CASE files[task[t].slug] = None /\ UNCHANGED disk
    BY <1>1, <2>1 DEF disk
  <2>2. CASE files[task[t].slug] # None
    <3>1. PICK a \in Written(t, files[task[t].slug]) : files' = [files EXCEPT ![task[t].slug] = a]
      BY <1>3, <2>2 DEF FailArchive
    <3>2. a = files[task[t].slug] \/ (task[t].dirty /\ a = Torn)
      BY <3>1 DEF Written
    <3>3. \A s \in Slugs : files'[s] = IF s = task[t].slug THEN a ELSE files[s]
      BY <1>1, <3>1
    <3>4. /\ task[t].at = "archive" /\ newer' \in {newer, Touch(task[t].slug)}
          /\ failed' = failed \cup {task[t].slug} /\ sheets' = sheets
      BY <1>3, <2>2 DEF FailArchive
    <3> QED BY <1>1, <2>2, <3>2, <3>3, <3>4
  <2> QED BY <1>3, <2>1, <2>2 DEF FailArchive
<1>4. CASE FailCopy(t)
  BY <1>1, <1>4 DEF FailCopy
<1>5. CASE FailStamp(t)
  BY <1>1, <1>5 DEF FailStamp
<1> QED BY <1>2, <1>3, <1>4, <1>5 DEF Fail

ClashFree == Apart /\ Clean /\ Closed /\ Fresh /\ Sealed

\* While no two backups share a name, every step keeps manifests true.
LEMMA ClashFreeStep ==
    TypeOK /\ Named /\ (NoClash => ClashFree) /\ [Next]_vars => (NoClash => ClashFree)'
<1> SUFFICES ASSUME TypeOK, Named, NoClash => ClashFree, [Next]_vars, NoClash'
             PROVE  ClashFree'
  OBVIOUS
<1>0. Idle.at = "idle" /\ "idle" \notin Past /\ "dump" \notin Past /\ Archiving \subseteq Past
      /\ "archive" \in Archiving
  BY DEF Idle, Past, Archiving
<1>k. task \in [Tasks -> TaskRecord] /\ files \in [Slugs -> Archives] /\ sheets \in [Slugs -> Archives]
  BY DEF TypeOK, TaskRecord
<1>n. \A t \in Tasks : task[t].at \in Past => task[t].slug \in Slugs
  BY DEF Named, AtWork, Past, Archiving
<1>c. ASSUME NoClash PROVE Apart /\ Clean /\ Closed /\ Fresh /\ Sealed
  BY <1>c DEF ClashFree
<1>1. ASSUME NEW t \in Tasks, Begin(t) PROVE ClashFree'
  <2>1. NoClash
    BY <1>1, DiskKept DEF NoClash
  <2>2. \A u \in Tasks : task'[u] = task[u] \/ task'[u].at = "dump"
    BY <1>1, <1>k DEF Begin, Idle
  <2>3. files' = files /\ sheets' = sheets
    BY <1>1, DiskKept
  <2>4. \A u \in Tasks : task'[u].at \in Past => task'[u] = task[u]
    BY <1>0, <2>2
  <2>5. Apart'
    BY <1>c, <2>1, <2>4 DEF Apart
  <2>6. Clean'
    BY <1>0, <1>c, <2>1, <2>4 DEF Clean
  <2>7. Closed'
    BY <1>c, <2>1, <2>3, <2>4 DEF Closed
  <2>8. Fresh' /\ Sealed'
    BY <1>0, <1>c, <2>1, <2>3, <2>4 DEF Fresh, Sealed
  <2> QED BY <2>5, <2>6, <2>7, <2>8 DEF ClashFree
<1>2. ASSUME NEW t \in Tasks, Dump(t) PROVE ClashFree'
  <2> DEFINE s == task[t].slug
  <2>1. /\ NoClash /\ files[s] = None
        /\ \A u \in Tasks \ {t} : task[u].at # "idle" => task[u].slug # s
    BY <1>2, DumpFiles DEF NoClash
  <2>2. \A u \in Tasks \ {t} : task'[u].at = task[u].at /\ task'[u].slug = task[u].slug
    BY <1>2, DumpEffect DEF Others
  <2>3. task'[t].at = "archive" /\ task'[t].slug = s /\ s \in Slugs
    BY <1>2, DumpEffect, DumpFiles DEF Moved
  <2>4. \A u \in Tasks \ {t} : task[u].at \in Past => task[u].slug # s
    BY <1>0, <2>1
  <2>5. Apart'
    BY <1>c, <2>1, <2>2, <2>3, <2>4 DEF Apart
  <2>6. Clean'
    <3>1. ~task'[t].dirty
      BY <1>0, <1>2, <2>4, DumpEffect
    <3>2. \A u \in Tasks \ {t} : task[u].at = "archive" => ~task'[u].dirty
      BY <1>0, <1>2, <1>c, <2>1, <2>4, DumpEffect DEF Clean
    <3> QED BY <2>2, <3>1, <3>2 DEF Clean
  <2>7. Closed'
    <3>1. \A u \in Tasks \ {t} : task[u].at \in Past => files'[task[u].slug] = files[task[u].slug]
      BY <1>2, <1>n, <2>4, DumpFiles
    <3> QED BY <1>c, <2>1, <2>2, <2>3, <3>1 DEF Closed
  <2>8. sheets[s] = None /\ sheets' = sheets
    BY <1>2, DumpFiles DEF NoClash
  <2>9. Fresh'
    BY <1>c, <2>1, <2>2, <2>3, <2>8 DEF Fresh
  <2>10. Sealed'
    BY <1>2, <1>c, <2>1, <2>8, DumpFiles DEF Sealed
  <2> QED BY <2>5, <2>6, <2>7, <2>9, <2>10 DEF ClashFree
<1>3. ASSUME NEW t \in Tasks, Archive(t), files[task[t].slug] = None PROVE ClashFree'
  <2>1. NoClash
    BY <1>3 DEF NoClash, Archive
  <2>2. task'[t] = Idle /\ (\A u \in Tasks \ {t} : task'[u] = task[u]) /\ files' = files /\ sheets' = sheets
    BY <1>3, ArchiveEffect DEF Ended, Same
  <2>3. Apart' /\ Clean'
    BY <1>0, <1>c, <2>1, <2>2 DEF Apart, Clean
  <2>4. Closed' /\ Fresh' /\ Sealed'
    BY <1>0, <1>c, <2>1, <2>2 DEF Closed, Fresh, Sealed
  <2> QED BY <2>3, <2>4 DEF ClashFree
<1>4. ASSUME NEW t \in Tasks, Archive(t), files[task[t].slug] # None PROVE ClashFree'
  <2> DEFINE s == task[t].slug
  <2>1. NoClash
    BY <1>4 DEF NoClash, Archive
  <2>2. \A u \in Tasks \ {t} : task'[u].at = task[u].at /\ task'[u].slug = task[u].slug
    BY <1>4, ArchiveEffect DEF Others
  <2>3. task'[t].at = "copy" /\ task'[t].slug = s /\ s \in Slugs /\ task[t].at = "archive"
    BY <1>4, ArchiveEffect, ArchiveFiles DEF Moved
  <2>4. files'[s].kind = "whole" /\ sheets' = sheets
    BY <1>4, <1>c, <2>1, <2>3, ArchiveFiles, Kinds DEF Clean
  <2>5. \A u \in Tasks \ {t} : task[u].at \in Past => task[u].slug # s
    BY <1>0, <1>c, <2>1, <2>3 DEF Apart
  <2>6. Apart'
    BY <2>2, <2>3, <2>5, <1>c, <2>1 DEF Apart
  <2>7. Clean'
    <3>1. \A u \in Tasks \ {t} : task[u].at = "archive" => ~task'[u].dirty
      BY <1>4, <1>c, <2>1, ArchiveEffect DEF Clean
    <3> QED BY <2>2, <2>3, <3>1 DEF Clean
  <2>8. Closed'
    <3>1. \A u \in Tasks \ {t} : task[u].at \in Past => files'[task[u].slug] = files[task[u].slug]
      BY <1>4, <1>n, <2>5, ArchiveFiles
    <3> QED BY <1>c, <2>1, <2>2, <2>3, <2>4, <3>1 DEF Closed
  <2>9. Fresh'
    BY <1>0, <1>c, <2>1, <2>2, <2>3, <2>4 DEF Fresh
  <2>10. Sealed'
    <3>1. sheets[s] = None
      BY <1>0, <1>c, <2>1, <2>3 DEF Fresh
    <3> QED BY <1>4, <1>c, <2>1, <2>4, <3>1, ArchiveFiles DEF Sealed
  <2> QED BY <2>6, <2>7, <2>8, <2>9, <2>10 DEF ClashFree
<1>5. ASSUME NEW t \in Tasks, Onward(t) PROVE ClashFree'
  <2>1. NoClash
    BY <1>5 DEF NoClash, Onward, Copy, Stamp, Put, PutLatest, PutFails, Rotate
  <2>2. \A u \in Tasks \ {t} : task'[u] = task[u]
    BY <1>5, OnwardEffect DEF Same
  <2>3. task[t].at \in Past \ {"archive"}
    BY <1>5, OnwardEffect
  <2>4. \/ task'[t].at = "idle"
        \/ /\ task'[t].slug = task[t].slug
           /\ task'[t].at \in Past \ Archiving \/ (task[t].at = "copy" /\ task'[t].at = "stamp")
    BY <1>0, <1>5, OnwardEffect DEF Ended, Moved, Past, Archiving
  <2>5. Apart'
    BY <1>0, <1>c, <2>1, <2>2, <2>3, <2>4 DEF Apart, Past, Archiving
  <2>6. Clean'
    BY <1>0, <1>c, <2>1, <2>2, <2>4 DEF Clean, Past, Archiving
  <2>7. \A s \in Slugs : (files[s] = None \/ files[s].kind = "whole") =>
                         (files'[s] = None \/ files'[s].kind = "whole")
    <3>1. CASE Rotate(t)
      BY <3>1, RotateFiles DEF Unlinked
    <3>2. CASE files' = files
      BY <3>2
    <3> QED BY <1>5, <3>1, <3>2, DiskKept, StampFiles DEF Onward
  <2>8. Closed'
    <3>1. \A u \in Tasks : task'[u].at \in Past \ {"archive"} =>
             task[u].at \in Past \ {"archive"} /\ task'[u].slug = task[u].slug
      BY <1>0, <2>2, <2>3, <2>4
    <3> QED BY <1>c, <1>n, <2>1, <2>7, <3>1 DEF Closed
  <2>9. Fresh' /\ Sealed'
    <3>1. CASE Rotate(t)
      <4>1. \A u \in Tasks : task'[u].at \in Archiving =>
              task[u].at \in Archiving /\ task'[u].slug = task[u].slug
        BY <1>0, <2>2, <2>4 DEF Past, Archiving
      <4>2. Fresh'
        BY <1>0, <1>c, <1>n, <2>1, <3>1, <4>1, RotateFiles DEF Fresh, Unlinked
      <4>3. Sealed'
        BY <1>c, <2>1, <3>1, RotateFiles DEF Sealed, Unlinked
      <4> QED BY <4>2, <4>3
    <3>2. CASE Stamp(t)
      <4>s. task[t].slug \in Slugs /\ task[t].at = "stamp"
        BY <3>2, StampFiles
      <4>1. CASE files[task[t].slug] = None
        <5>1. sheets' = sheets /\ files' = files /\ task'[t].at = "idle"
          BY <1>0, <3>2, <4>1, StampFiles DEF Ended
        <5> QED BY <1>0, <1>c, <2>1, <2>2, <5>1 DEF Fresh, Sealed
      <4>2. CASE files[task[t].slug] # None
        <5>1. /\ files' = files /\ sheets'[task[t].slug] = files[task[t].slug]
              /\ \A s \in Slugs \ {task[t].slug} : sheets'[s] = sheets[s]
              /\ task'[t].at \notin Archiving
          BY <3>2, <4>2, StampFiles DEF Moved, Archiving
        <5>2. files[task[t].slug].kind = "whole"
          BY <1>c, <2>1, <2>3, <4>2 DEF Closed
        <5>3. \A u \in Tasks \ {t} : task[u].at \in Archiving =>
                 task[u].slug \in Slugs \ {task[t].slug}
          BY <1>0, <1>c, <1>n, <2>1, <2>3 DEF Apart
        <5>4. Fresh'
          BY <1>c, <2>1, <2>2, <5>1, <5>3 DEF Fresh
        <5>5. Sealed'
          BY <1>c, <2>1, <5>1, <5>2 DEF Sealed
        <5> QED BY <5>4, <5>5
      <4> QED BY <4>1, <4>2
    <3>3. CASE files' = files /\ sheets' = sheets
      <4>1. \A u \in Tasks : task'[u].at \in Archiving =>
              task[u].at \in Archiving /\ task'[u].slug = task[u].slug
        BY <1>0, <2>2, <2>4 DEF Past, Archiving
      <4> QED BY <1>c, <2>1, <3>3, <4>1 DEF Fresh, Sealed
    <3> QED BY <1>5, <3>1, <3>2, <3>3, DiskKept DEF Onward
  <2> QED BY <2>5, <2>6, <2>8, <2>9 DEF ClashFree
<1>6. ASSUME NEW t \in Tasks, Cancel(t) PROVE ClashFree'
  <2>1. NoClash /\ files' = files /\ sheets' = sheets
    BY <1>6, DiskKept DEF NoClash
  <2>2. \A u \in Tasks : \/ task'[u].at = "idle"
                         \/ /\ task'[u].at = task[u].at /\ task'[u].slug = task[u].slug
                            /\ task'[u].dirty = task[u].dirty
    BY <1>0, <1>6, CancelEffect DEF Same, Ended
  <2>3. Apart' /\ Clean'
    BY <1>0, <1>c, <2>1, <2>2 DEF Apart, Clean
  <2>4. Closed'
    BY <1>0, <1>c, <2>1, <2>2 DEF Closed
  <2>5. Fresh' /\ Sealed'
    BY <1>0, <1>c, <2>1, <2>2 DEF Fresh, Sealed
  <2> QED BY <2>3, <2>4, <2>5 DEF ClashFree
<1>7. CASE Stop
  <2>1. NoClash
    BY <1>7, StopEffect DEF NoClash
  <2>2. \A t \in Tasks : task'[t].at = "idle"
    BY <1>0, <1>7, StopEffect
  <2>3. Sealed'
    BY <1>c, <1>7, <2>1, StopEffect DEF Sealed
  <2>4. Apart' /\ Clean' /\ Closed' /\ Fresh'
    BY <1>0, <2>2 DEF Apart, Clean, Closed, Fresh
  <2> QED BY <2>3, <2>4 DEF ClashFree
<1>8. CASE files' = files /\ sheets' = sheets /\ task' = task /\ ("clash" \in events' <=> "clash" \in events)
  <2>1. NoClash
    BY <1>8 DEF NoClash
  <2> QED BY <1>8, <1>c, <2>1 DEF ClashFree, Apart, Clean, Closed, Fresh, Sealed
<1>9. ASSUME NEW t \in Tasks, Fail(t) PROVE ClashFree'
  <2>1. NoClash
    BY <1>9, FailEffect DEF NoClash
  <2>2. task'[t] = Idle /\ \A u \in Tasks \ {t} : task'[u] = task[u]
    BY <1>9, FailEffect DEF Ended, Same
  <2>3. \A s \in Slugs : files'[s] = files[s]
    BY <1>9, <1>c, <2>1, FailFiles DEF Clean
  <2>4. Apart' /\ Clean'
    BY <1>0, <1>c, <2>1, <2>2 DEF Apart, Clean
  <2>5. Closed'
    BY <1>0, <1>c, <1>n, <2>1, <2>2, <2>3 DEF Closed
  <2>6. CASE task[t].at # "stamp"
    <3>1. \A s \in Slugs : sheets'[s] = sheets[s]
      BY <1>9, <2>6, FailFiles
    <3>2. Fresh' /\ Sealed'
      BY <1>0, <1>c, <1>n, <2>1, <2>2, <2>3, <3>1 DEF Fresh, Sealed
    <3> QED BY <2>4, <2>5, <3>2 DEF ClashFree
  <2>7. CASE task[t].at = "stamp"
    <3>1. /\ \A s \in Slugs \ {task[t].slug} : sheets'[s] = sheets[s]
          /\ task[t].slug \in Slugs
          /\ \/ sheets'[task[t].slug] = sheets[task[t].slug]
             \/ sheets'[task[t].slug] \in {Unreadable, files[task[t].slug]}
      BY <1>9, FailFiles
    <3>2. files[task[t].slug] = None \/ files[task[t].slug].kind = "whole"
      BY <1>c, <2>1, <2>7 DEF Closed, Past, Archiving
    <3>3. \A u \in Tasks \ {t} : task[u].at \in Archiving => task[u].slug \in Slugs \ {task[t].slug}
      BY <1>0, <1>c, <1>n, <2>1, <2>7 DEF Apart, Past, Archiving
    <3>4. Fresh'
      BY <1>0, <1>c, <2>1, <2>2, <3>1, <3>3 DEF Fresh
    <3>5. Sealed'
      BY <1>c, <2>1, <2>3, <3>1, <3>2 DEF Sealed
    <3> QED BY <2>4, <2>5, <3>4, <3>5 DEF ClashFree
  <2> QED BY <2>6, <2>7
<1> QED BY <1>1, <1>2, <1>3, <1>4, <1>5, <1>6, <1>7, <1>8, <1>9, Still DEF Next, Onward

\* While nobody was cancelled or failed, a wrong manifest has somebody on the way to write it again.
LEMMA RunningStep ==
    TypeOK /\ Named /\ Quiet /\ (Running => Kept /\ Matching) /\ [Next]_vars
      => (Running => Kept /\ Matching)'
<1> SUFFICES ASSUME TypeOK, Named, Quiet, Running => Kept /\ Matching, [Next]_vars, Running'
             PROVE  Kept' /\ Matching'
  OBVIOUS
<1>0. Idle.at = "idle" /\ ~Idle.orphan /\ "idle" \notin Archiving /\ "dump" \notin Archiving
  BY DEF Idle, Archiving
<1>k. task \in [Tasks -> TaskRecord] /\ stops \in Nat
  BY DEF TypeOK, TaskRecord
<1>1. ASSUME Running
      PROVE  /\ \A t \in Tasks : ~task[t].orphan
             /\ \A s \in Slugs : files[s] = None \/ sheets[s] \in {None, files[s]} \/ Underway(s)
  BY <1>1 DEF Kept, Matching, Matched
<1>2. ASSUME NEW t \in Tasks, Begin(t) PROVE Kept' /\ Matching'
  <2>1. Running
    BY <1>2 DEF Running, Begin, clock
  <2>2. \A u \in Tasks : task'[u] = task[u] \/ (task[u].at = "idle" /\ task'[u].at = "dump" /\ ~task'[u].orphan)
    BY <1>2, <1>k DEF Begin, Idle
  <2>3. files' = files /\ sheets' = sheets
    BY <1>2, DiskKept
  <2>4. Kept'
    BY <1>1, <2>1, <2>2 DEF Kept
  <2>5. ASSUME NEW s \in Slugs, Underway(s) PROVE Underway(s)'
    BY <1>0, <2>2, <2>5 DEF Underway
  <2> QED BY <1>1, <2>1, <2>3, <2>4, <2>5 DEF Matching, Matched
<1>3. ASSUME NEW t \in Tasks, Dump(t) PROVE Kept' /\ Matching'
  <2>1. Running
    BY <1>3 DEF Running, Dump, Note, clock
  <2>2. /\ task'[t].at \in Archiving /\ task'[t].slug = task[t].slug /\ task'[t].orphan = task[t].orphan
        /\ \A u \in Tasks \ {t} : task'[u].at = task[u].at /\ task'[u].slug = task[u].slug
                                  /\ task'[u].orphan = task[u].orphan
    BY <1>3, DumpEffect DEF Moved, Others, Archiving
  <2>3. Kept'
    BY <1>1, <2>1, <2>2 DEF Kept
  <2>4. ASSUME NEW s \in Slugs PROVE Matched(s)'
    <3>1. CASE s = task[t].slug
      BY <2>2, <3>1 DEF Underway, Matched
    <3>2. CASE s # task[t].slug
      <4>1. Underway(s) => Underway(s)'
        BY <2>2, <3>2 DEF Underway
      <4> QED BY <1>1, <1>3, <2>1, <3>2, <4>1, DumpFiles DEF Matched
    <3> QED BY <3>1, <3>2
  <2> QED BY <2>3, <2>4 DEF Matching
<1>4. ASSUME NEW t \in Tasks, Archive(t) PROVE Kept' /\ Matching'
  <2>1. Running /\ task[t].at = "archive"
    BY <1>4 DEF Running, Archive, clock
  <2>2. CASE files[task[t].slug] = None
    <3>1. task'[t] = Idle /\ (\A u \in Tasks \ {t} : task'[u] = task[u]) /\ files' = files /\ sheets' = sheets
      BY <1>4, <2>2, ArchiveEffect DEF Ended, Same
    <3>2. Kept'
      BY <1>0, <1>1, <2>1, <3>1 DEF Kept
    <3>3. ASSUME NEW s \in Slugs PROVE Matched(s)'
      <4>1. CASE s = task[t].slug
        BY <2>2, <3>1, <4>1 DEF Matched
      <4>2. CASE s # task[t].slug
        <5>1. Underway(s) => Underway(s)'
          BY <3>1, <4>2 DEF Underway
        <5> QED BY <1>1, <2>1, <3>1, <5>1 DEF Matched
      <4> QED BY <4>1, <4>2
    <3> QED BY <3>2, <3>3 DEF Matching
  <2>3. CASE files[task[t].slug] # None
    <3>1. /\ task'[t].at \in Archiving /\ task'[t].slug = task[t].slug /\ task'[t].orphan = task[t].orphan
          /\ \A u \in Tasks \ {t} : task'[u].at = task[u].at /\ task'[u].slug = task[u].slug
                                    /\ task'[u].orphan = task[u].orphan
      BY <1>4, <2>3, ArchiveEffect DEF Moved, Others, Archiving
    <3>2. Kept'
      BY <1>1, <2>1, <3>1 DEF Kept
    <3>3. ASSUME NEW s \in Slugs PROVE Matched(s)'
      <4>1. CASE s = task[t].slug
        BY <3>1, <4>1 DEF Underway, Matched
      <4>2. CASE s # task[t].slug
        <5>1. Underway(s) => Underway(s)'
          BY <3>1, <4>2 DEF Underway
        <5> QED BY <1>1, <1>4, <2>1, <2>3, <4>2, <5>1, ArchiveFiles DEF Matched
      <4> QED BY <4>1, <4>2
    <3> QED BY <3>2, <3>3 DEF Matching
  <2> QED BY <2>2, <2>3
<1>5. ASSUME NEW t \in Tasks, Onward(t) PROVE Kept' /\ Matching'
  <2>1. Running
    BY <1>5 DEF Running, Onward, Copy, Stamp, Put, PutLatest, PutFails, Rotate, clock
  <2>2. \A u \in Tasks \ {t} : task'[u] = task[u]
    BY <1>5, OnwardEffect DEF Same
  <2>3. Kept'
    <3>1. ~task'[t].orphan
      BY <1>0, <1>1, <1>5, <2>1, OnwardEffect DEF Ended, Moved
    <3> QED BY <1>1, <2>1, <2>2, <3>1 DEF Kept
  <2>4. CASE Copy(t)
    <3>1. task'[t].at \in Archiving /\ task'[t].slug = task[t].slug
      BY <1>1, <2>1, <2>4, Effects DEF Copy, Moved, Archiving
    <3>2. ASSUME NEW s \in Slugs, Underway(s) PROVE Underway(s)'
      BY <2>2, <3>1, <3>2 DEF Underway
    <3> QED BY <1>1, <2>1, <2>3, <2>4, <3>2, DiskKept DEF Matching, Matched
  <2>5. CASE Stamp(t)
    <3>1. ASSUME NEW s \in Slugs PROVE Matched(s)'
      <4>1. CASE s = task[t].slug
        BY <2>5, <4>1, StampFiles DEF Matched
      <4>2. CASE s # task[t].slug
        <5>1. Underway(s) => Underway(s)'
          BY <2>2, <4>2 DEF Underway
        <5>2. sheets'[s] = sheets[s] /\ files' = files
          BY <2>5, <4>2, StampFiles
        <5> QED BY <1>1, <2>1, <5>1, <5>2 DEF Matched
      <4> QED BY <4>1, <4>2
    <3> QED BY <2>3, <3>1 DEF Matching
  <2>6. CASE task[t].at \notin Archiving
    <3>1. ASSUME NEW s \in Slugs, Underway(s) PROVE Underway(s)'
      BY <2>2, <2>6, <3>1 DEF Underway
    <3>2. CASE Rotate(t)
      BY <1>1, <2>1, <2>3, <3>1, <3>2, RotateFiles DEF Matching, Matched, Unlinked
    <3>3. CASE files' = files /\ sheets' = sheets
      BY <1>1, <2>1, <2>3, <3>1, <3>3 DEF Matching, Matched
    <3>4. CASE Copy(t) \/ Stamp(t)
      BY <2>6, <3>4 DEF Copy, Stamp, Archiving
    <3> QED BY <1>5, <3>2, <3>3, <3>4, DiskKept DEF Onward
  <2>7. Copy(t) \/ Stamp(t) \/ task[t].at \notin Archiving
    BY <1>5 DEF Onward, Put, PutLatest, PutFails, Rotate, Archiving
  <2> QED BY <2>4, <2>5, <2>6, <2>7
<1>6. ASSUME NEW t \in Tasks, Cancel(t) PROVE Kept' /\ Matching'
  BY <1>6 DEF Cancel, Running
<1>11. ASSUME NEW t \in Tasks, Fail(t) PROVE Kept' /\ Matching'
  BY <1>11, FailEffect DEF Running
<1>7. CASE Stop
  BY <1>7, <1>k, StopEffect DEF Running
<1>8. CASE node' \in {"up", "down"} /\ (node' # node => node = "down")
           /\ files' = files /\ sheets' = sheets /\ task' = task /\ stops' = stops
           /\ ("failed" \in events' <=> "failed" \in events)
  <2>1. Running
    BY <1>8 DEF Running
  <2> QED BY <1>8, <1>1, <2>1 DEF Kept, Matching, Matched, Underway
<1>9. node' # "closing"
  BY DEF Running
<1>10. ASSUME (\E a \in Audits : AddAudit(a)) \/ Restore \/ Close \/ Boot \/ UNCHANGED vars
       PROVE  node' \in {"up", "down"} /\ (node' # node => node = "down")
  <2>1. node \in {"up", "closing", "down"}
    BY DEF TypeOK
  <2>2. CASE node' = node
    BY <1>9, <2>1, <2>2
  <2>3. CASE Boot
    BY <2>3 DEF Boot
  <2>4. CASE Close
    BY <1>9, <2>4 DEF Close
  <2> QED BY <1>10, <2>2, <2>3, <2>4 DEF AddAudit, Restore, vars
<1> QED BY <1>2, <1>3, <1>4, <1>5, <1>6, <1>7, <1>8, <1>10, <1>11, Still DEF Next, Onward

\* The invariant holds for ever.
LEMMA Holds == Spec => []IInv
<1>1. Init => IInv
  <2> SUFFICES ASSUME Init PROVE IInv
    OBVIOUS
  <2>1. \A t \in Tasks : task[t].at = "idle" /\ ~task[t].orphan
    BY DEF Init, Idle
  <2>2. Named /\ Quiet /\ Kept
    BY <2>1 DEF Named, Quiet, Kept, AtWork
  <2>3. Sealed /\ Matching
    BY DEF Init, Sealed, Matching, Matched
  <2>4. Apart /\ Clean /\ Closed /\ Fresh
    BY <2>1 DEF Apart, Clean, Closed, Fresh, Past, Archiving
  <2> QED BY <2>2, <2>3, <2>4, Typed DEF IInv, ClashFree
<1>2. IInv /\ [Next]_vars => IInv'
  BY TypeStep, NamedStep, QuietStep, ClashFreeStep, RunningStep DEF IInv, ClashFree
<1> QED BY <1>1, <1>2, PTL DEF Spec

\* The files hold archives, the tasks are at steps of theirs.
THEOREM BackupTyped == Spec => []TypeOK
<1>1. IInv => TypeOK
  BY DEF IInv
<1> QED BY <1>1, Holds, PTL

\* Once nobody is at work on it, an archive with a manifest that can be read is whole and the
\* manifest is its own, whatever other backups, rotations, failing steps, cancellations and
\* crashes do meanwhile (engine.py:199-237, 264-271); and where two backups wrote under one
\* name, the manifest is that of what the file has become, as long as the node was not closed
\* or stopped and none failed.
THEOREM ManifestsAlwaysVerify == Spec => []ManifestsVerify
<1>1. IInv => ManifestsVerify
  <2> SUFFICES ASSUME IInv, NEW s \in Slugs, Settled(s), files[s] # None,
                      sheets[s] \notin {None, Unreadable}
               PROVE  /\ "clash" \notin events => files[s].kind = "whole" /\ sheets[s] = files[s]
                      /\ (stops = 0 /\ node = "up" /\ "failed" \notin events) => sheets[s] = files[s]
    BY DEF ManifestsVerify
  <2>1. "clash" \notin events => files[s].kind = "whole" /\ sheets[s] = files[s]
    BY DEF IInv, NoClash, Sealed
  <2>2. ~Underway(s)
    BY DEF Settled, InUse, AtWork, Underway, Archiving
  <2>3. (stops = 0 /\ node = "up" /\ "failed" \notin events) => sheets[s] = files[s]
    BY <2>2 DEF IInv, Running, Matching, Matched
  <2> QED BY <2>1, <2>3
<1> QED BY <1>1, Holds, PTL

-----------------------------------------------------------------------------
\* f says of the names of D which of them are newer.
Chain(D, f) ==
    /\ \A s \in D : s \notin f[s] /\ f[s] \subseteq D
    /\ \A r, s \in D : r = s \/ r \in f[s] \/ s \in f[r]
    /\ \A r, s \in D : r \in f[s] => f[r] \subseteq f[s]

Ordered == IsFiniteSet(OnDisk) /\ Chain(OnDisk, newer) /\ failed \subseteq OnDisk

\* The archive is whole, given up, or another task than t is at work on it.
Finished(r, t) ==
    \/ files[r].kind = "whole"
    \/ r \in failed
    \/ \E u \in Tasks \ {t} : task[u].at = "archive" /\ task[u].slug = r

\* Or it is old enough to be pruned.
Passed(r, t) == Finished(r, t) \/ r \in Pruned

Behind == \A t \in Tasks : task[t].at \in Past \ {"archive"} =>
    \A r \in OnDisk : (files[task[t].slug] = None \/ r \in newer[task[t].slug]) => Passed(r, t)

\* A name that becomes the newest leaves a chain.
LEMMA ChainGrows ==
    ASSUME NEW D, NEW f, NEW s, NEW g, Chain(D, f),
           \A r \in D \cup {s} : g[r] = IF r = s THEN {} ELSE f[r] \cup {s}
    PROVE  Chain(D \cup {s}, g)
<1>1. \A r \in D \cup {s} : r \notin g[r] /\ g[r] \subseteq D \cup {s}
  BY DEF Chain
<1>2. ASSUME NEW q \in D \cup {s}, NEW r \in D \cup {s}
      PROVE  (q = r \/ q \in g[r] \/ r \in g[q]) /\ (q \in g[r] => g[q] \subseteq g[r])
  <2>1. CASE q = s
    BY <2>1
  <2>2. CASE q # s /\ r = s
    <3>1. s \in g[q] /\ g[r] = {}
      BY <2>2
    <3> QED BY <2>2, <3>1
  <2>3. CASE q # s /\ r # s
    <3>1. q \in D /\ r \in D /\ g[q] = f[q] \cup {s} /\ g[r] = f[r] \cup {s}
      BY <2>3
    <3> QED BY <2>3, <3>1 DEF Chain
  <2> QED BY <2>1, <2>2, <2>3
<1> QED BY <1>1, <1>2 DEF Chain

\* Names that are taken away leave a chain.
LEMMA ChainShrinks ==
    ASSUME NEW D, NEW f, NEW P, NEW g, Chain(D, f), \A r \in D \ P : g[r] = f[r] \ P
    PROVE  Chain(D \ P, g)
BY DEF Chain

\* An archive that is opened or closed is the newest.
LEMMA Touched ==
    ASSUME TypeOK, Ordered, NEW s \in Slugs, newer' = Touch(s), OnDisk' = OnDisk \cup {s},
           failed' \subseteq failed \cup {s}
    PROVE  Ordered'
<1>1. IsFiniteSet(OnDisk')
  BY FS_AddElement DEF Ordered
<1>2. \A r \in OnDisk \cup {s} : newer'[r] = IF r = s THEN {} ELSE newer[r] \cup {s}
  BY DEF Touch, OnDisk
<1>3. Chain(OnDisk \cup {s}, newer')
  BY <1>2, ChainGrows DEF Ordered
<1> QED BY <1>1, <1>3 DEF Ordered

\* Every step keeps the order of ages.
LEMMA OrderedStep == TypeOK /\ Named /\ Ordered /\ [Next]_vars => Ordered'
<1> SUFFICES ASSUME TypeOK, Named, Ordered, [Next]_vars PROVE Ordered'
  OBVIOUS
<1>1. ASSUME NEW t \in Tasks, Dump(t) PROVE Ordered'
  <2>1. OnDisk' = OnDisk \cup {task[t].slug}
    BY <1>1, DumpFiles, Kinds DEF OnDisk
  <2> QED BY <1>1, <2>1, DumpFiles, Touched
<1>2. ASSUME NEW t \in Tasks, Archive(t) PROVE Ordered'
  <2>1. CASE files[task[t].slug] = None
    <3>1. files' = files /\ newer' = newer /\ failed' = failed
      BY <1>2, <2>1, ArchiveEffect
    <3> QED BY <3>1 DEF Ordered, OnDisk
  <2>2. CASE files[task[t].slug] # None
    <3>1. OnDisk' = OnDisk \cup {task[t].slug}
      BY <1>2, <2>2, ArchiveFiles, Kinds DEF OnDisk
    <3> QED BY <1>2, <2>2, <3>1, ArchiveFiles, ArchiveEffect, Touched
  <2> QED BY <2>1, <2>2
<1>3. ASSUME NEW t \in Tasks, Rotate(t) PROVE Ordered'
  <2>g. PICK gone : Unlinked(gone)
    BY <1>3, RotateFiles
  <2>0. OnDisk \subseteq Slugs /\ gone \subseteq OnDisk
    BY <2>g DEF OnDisk, Pruned, Unlinked
  <2>1. OnDisk' = OnDisk \ gone /\ failed' = failed \ gone
    BY <2>g DEF OnDisk, Unlinked
  <2>2. IsFiniteSet(OnDisk')
    <3>1. OnDisk \ gone \in SUBSET OnDisk /\ IsFiniteSet(OnDisk)
      BY DEF Ordered
    <3> QED BY <2>1, <3>1, FS_Subset
  <2>3. \A q \in OnDisk \ gone : newer'[q] = newer[q] \ gone
    BY <2>g, <2>0 DEF Unlinked
  <2>4. Chain(OnDisk \ gone, newer')
    BY <2>3, ChainShrinks DEF Ordered
  <2> QED BY <2>1, <2>2, <2>4 DEF Ordered
<1>4. CASE Stop
  <2>1. CASE files' = files /\ newer' = newer /\ failed' = failed
    BY <2>1 DEF Ordered, OnDisk
  <2>2. CASE failed' = {} /\ \A s \in Slugs : files'[s] = None /\ newer'[s] = {}
    <3>1. OnDisk' = {}
      BY <2>2 DEF OnDisk
    <3> QED BY <2>2, <3>1, FS_EmptySet DEF Ordered, Chain
  <2> QED BY <1>4, <2>1, <2>2, StopEffect
<1>5. CASE files' = files /\ newer' = newer /\ failed' = failed
  BY <1>5 DEF Ordered, OnDisk
<1>6. ASSUME NEW t \in Tasks, Fail(t) PROVE Ordered'
  <2>1. task[t].slug \in Slugs
    BY <1>6, FailFiles
  <2>2. OnDisk' = OnDisk
    BY <1>6, FailFiles, Kinds DEF OnDisk
  <2>3. CASE newer' = newer /\ failed' = failed
    BY <2>2, <2>3 DEF Ordered
  <2>4. CASE files[task[t].slug] # None /\ failed' = failed \cup {task[t].slug} /\ newer' = newer
    <3>1. task[t].slug \in OnDisk
      BY <2>1, <2>4 DEF OnDisk
    <3> QED BY <2>2, <2>4, <3>1 DEF Ordered
  <2>5. CASE /\ files[task[t].slug] # None /\ failed' = failed \cup {task[t].slug}
             /\ newer' = Touch(task[t].slug)
    <3>1. OnDisk' = OnDisk \cup {task[t].slug}
      BY <2>1, <2>2, <2>5 DEF OnDisk
    <3> QED BY <2>1, <2>5, <3>1, Touched
  <2> QED BY <1>6, <2>3, <2>4, <2>5, FailFiles
<1> QED BY <1>1, <1>2, <1>3, <1>4, <1>5, <1>6, DiskKept, StampFiles, Still DEF Next

\* Of what is pruned there is a name that only names that are kept are newer than.
LEMMA NewestPruned ==
    ASSUME Ordered, Pruned # {}
    PROVE  \E s \in Pruned : newer[s] \cap Pruned = {}
<1> DEFINE Sets == {newer[s] : s \in Pruned}
           Order == StrictSubsetOrdering(OnDisk)
<1>0. Pruned \subseteq OnDisk /\ OnDisk \subseteq Slugs
  BY DEF Pruned, OnDisk
<1>1. IsWellFoundedOn(Order, SUBSET OnDisk)
  <2>1. IsFiniteSet(OnDisk)
    BY DEF Ordered
  <2>2. FiniteSubsetsOf(OnDisk) = SUBSET OnDisk
    BY <2>1, FS_FiniteSubsetsOfFinite
  <2>3. IsWellFoundedOn(StrictSubsetOrdering(OnDisk), FiniteSubsetsOf(OnDisk))
    BY FS_StrictSubsetOrderingWellFounded
  <2> QED BY <2>2, <2>3
<1>2. Sets \subseteq SUBSET OnDisk /\ Sets # {}
  BY <1>0 DEF Ordered, Chain
<1>3. PICK T \in Sets : \A U \in Sets : ~(<<U, T>> \in Order)
  <2> HIDE DEF Sets, Order
  <2> QED BY <1>1, <1>2, WFMin
<1>4. PICK s \in Pruned : T = newer[s]
  BY <1>3
<1>5. ASSUME NEW r \in newer[s] \cap Pruned PROVE FALSE
  <2>1. newer[r] \subseteq newer[s] /\ newer[r] # newer[s]
    BY <1>0, <1>4, <1>5 DEF Ordered, Chain
  <2>2. <<newer[r], newer[s]>> \in Order
    BY <1>0, <1>2, <1>5, <2>1 DEF StrictSubsetOrdering
  <2> QED BY <1>3, <1>4, <1>5, <2>2
<1> QED BY <1>5

\* A name with so many newer ones is pruned.
LEMMA StaysPruned ==
    ASSUME Ordered', NEW r \in OnDisk', NEW T \in SUBSET newer'[r], Cardinality(T) >= Retain
    PROVE  r \in Pruned'
<1>1. newer'[r] \in SUBSET OnDisk' /\ IsFiniteSet(OnDisk')
  BY DEF Ordered, Chain
<1>2. IsFiniteSet(newer'[r]) /\ Cardinality(newer'[r]) \in Nat
  BY <1>1, FS_Subset, FS_CardinalityType
<1>3. Cardinality(T) \in Nat /\ Cardinality(T) <= Cardinality(newer'[r])
  BY <1>2, FS_Subset, FS_CardinalityType
<1>4. Cardinality(newer'[r]) >= Retain
  BY <1>2, <1>3, BackupAssumption
<1> QED BY <1>4 DEF Pruned

\* While no two backups share a name, what is newer than a finished archive is finished, in
\* the hands of another task or given up: whatever is rotated away, cancelled or cut short.
LEMMA BehindStep ==
    TypeOK /\ Named /\ Ordered /\ (NoClash => ClashFree) /\ (NoClash => Behind) /\ [Next]_vars
       => (NoClash => Behind)'
<1> SUFFICES ASSUME TypeOK, Named, Ordered, NoClash => ClashFree, NoClash => Behind, [Next]_vars, NoClash',
                    NEW t \in Tasks, task'[t].at \in Past \ {"archive"}, NEW r \in OnDisk',
                    files'[task'[t].slug] = None \/ r \in newer'[task'[t].slug]
             PROVE  Passed(r, t)'
  BY DEF Behind
<1>0. Idle.at = "idle" /\ "idle" \notin Past /\ "dump" \notin Past
  BY DEF Idle, Past, Archiving
<1>n. task[t].at \in Past => task[t].slug \in Slugs
  BY DEF Named, AtWork, Past, Archiving
<1>r. r \in Slugs /\ files'[r] # None
  BY DEF OnDisk
<1>b. ASSUME NoClash, task[t].at \in Past \ {"archive"}, r \in OnDisk,
             files[task[t].slug] = None \/ r \in newer[task[t].slug]
      PROVE  Passed(r, t)
  BY <1>b DEF Behind
<1>o. Ordered'
  BY OrderedStep
<1>p. ASSUME r \in Pruned, newer[r] \subseteq newer'[r] PROVE r \in Pruned'
  <2>1. Cardinality(newer[r]) >= Retain
    BY <1>p DEF Pruned
  <2> QED BY <1>o, <1>p, <2>1, StaysPruned
<1>1. ASSUME NEW u \in Tasks, Begin(u) PROVE Passed(r, t)'
  <2>1. NoClash /\ files' = files /\ newer' = newer /\ failed' = failed
    BY <1>1, DiskKept DEF NoClash
  <2>2. task \in [Tasks -> TaskRecord]
    BY DEF TypeOK, TaskRecord
  <2>3. \A v \in Tasks : task'[v] = task[v] \/ (task[v].at = "idle" /\ task'[v].at = "dump")
    BY <1>1, <2>2 DEF Begin, Idle
  <2>4. Passed(r, t)
    BY <1>0, <1>b, <2>1, <2>3 DEF OnDisk
  <2> QED BY <1>p, <2>1, <2>3, <2>4 DEF Finished, Passed
<1>2. ASSUME NEW u \in Tasks, Dump(u) PROVE Passed(r, t)'
  <2>1. /\ NoClash /\ files[task[u].slug] = None
        /\ \A v \in Tasks \ {u} : task[v].at # "idle" => task[v].slug # task[u].slug
    BY <1>2, DumpFiles DEF NoClash
  <2>2. /\ task'[u].at = "archive" /\ task'[u].slug = task[u].slug
        /\ \A v \in Tasks \ {u} : task'[v].at = task[v].at /\ task'[v].slug = task[v].slug
    BY <1>2, DumpEffect DEF Others, Moved
  <2>3. t # u
    BY <2>2
  <2>4. CASE r = task[u].slug
    BY <2>2, <2>3, <2>4 DEF Finished, Passed
  <2>5. CASE r # task[u].slug
    <3>1. r \in OnDisk /\ files'[r] = files[r]
      BY <1>2, <1>r, <2>5, DumpFiles DEF OnDisk
    <3>2. task[t].slug # task[u].slug /\ task[t].slug \in Slugs /\ task[t].at \in Past \ {"archive"}
      BY <1>0, <1>n, <2>1, <2>2, <2>3
    <3>3. files'[task[t].slug] = files[task[t].slug]
      BY <1>2, <3>2, DumpFiles
    <3>4. r \in newer'[task[t].slug] => r \in newer[task[t].slug]
      BY <1>2, <2>5, <3>2, DumpFiles DEF Touch
    <3>5. Passed(r, t)
      BY <1>b, <2>1, <2>2, <2>3, <3>1, <3>2, <3>3, <3>4
    <3>6. (\A v \in Tasks : task[v].at = "archive" => v # u) /\ failed' = failed
      BY <1>2, DumpFiles
    <3>7. newer[r] \subseteq newer'[r]
      BY <1>2, <2>5, <3>1, DumpFiles DEF Touch, OnDisk
    <3> QED BY <1>p, <2>2, <3>1, <3>5, <3>6, <3>7 DEF Finished, Passed
  <2> QED BY <2>4, <2>5
<1>3. ASSUME NEW u \in Tasks, Archive(u), files[task[u].slug] = None PROVE Passed(r, t)'
  <2>1. NoClash /\ task[u].at = "archive"
    BY <1>3 DEF NoClash, Archive
  <2>2. /\ task'[u] = Idle /\ (\A v \in Tasks \ {u} : task'[v] = task[v])
        /\ files' = files /\ newer' = newer /\ failed' = failed
    BY <1>3, ArchiveEffect DEF Ended, Same
  <2>3. Passed(r, t)
    BY <1>0, <1>b, <2>1, <2>2 DEF OnDisk
  <2>4. r # task[u].slug
    BY <1>3, <1>r, <2>2
  <2> QED BY <1>p, <2>2, <2>3, <2>4 DEF Finished, Passed
<1>4. ASSUME NEW u \in Tasks, Archive(u), files[task[u].slug] # None PROVE Passed(r, t)'
  <2>1. NoClash
    BY <1>4 DEF NoClash, Archive
  <2>2. /\ task'[u].at = "copy" /\ task'[u].slug = task[u].slug /\ task[u].at = "archive"
        /\ \A v \in Tasks \ {u} : task'[v].at = task[v].at /\ task'[v].slug = task[v].slug
    BY <1>4, ArchiveEffect, ArchiveFiles DEF Others, Moved
  <2>3. files'[task[u].slug].kind = "whole"
    BY <1>4, <2>1, <2>2, ArchiveFiles, Kinds DEF ClashFree, Clean
  <2>4. CASE r = task[u].slug
    BY <2>3, <2>4 DEF Finished, Passed
  <2>5. CASE r # task[u].slug
    <3>1. r \in OnDisk /\ files'[r] = files[r] /\ failed' = failed
      BY <1>4, <1>r, <2>5, ArchiveFiles DEF OnDisk
    <3>2. CASE t = u
      <4>1. newer'[task[u].slug] = {} /\ files'[task[u].slug] # None
        BY <1>4, <2>3, ArchiveEffect, ArchiveFiles, Kinds DEF Touch
      <4> QED BY <2>2, <3>2, <4>1
    <3>3. CASE t # u
      <4>1. task[t].at \in Past \ {"archive"} /\ task'[t].slug = task[t].slug
        BY <2>2, <3>3
      <4>2. task[t].slug # task[u].slug
        BY <2>1, <2>2, <3>3, <4>1 DEF ClashFree, Apart, Past, Archiving
      <4>3. files'[task[t].slug] = files[task[t].slug]
        BY <1>4, <1>n, <4>1, <4>2, ArchiveFiles
      <4>4. r \in newer'[task[t].slug] => r \in newer[task[t].slug]
        BY <1>4, <1>n, <2>5, <4>1, <4>2, ArchiveEffect DEF Touch
      <4>5. Passed(r, t)
        BY <1>b, <2>1, <3>1, <4>1, <4>3, <4>4
      <4>6. newer[r] \subseteq newer'[r]
        BY <1>4, <2>5, <3>1, ArchiveEffect DEF Touch, OnDisk
      <4> QED BY <1>p, <2>2, <2>5, <3>1, <4>5, <4>6 DEF Finished, Passed
    <3> QED BY <3>2, <3>3
  <2> QED BY <2>4, <2>5
<1>5. ASSUME NEW u \in Tasks, Onward(u) PROVE Passed(r, t)'
  <2>1. NoClash
    BY <1>5 DEF NoClash, Onward, Copy, Stamp, Put, PutLatest, PutFails, Rotate
  <2>2. \A v \in Tasks \ {u} : task'[v] = task[v]
    BY <1>5, OnwardEffect DEF Same
  <2>3. task[u].at \in Past \ {"archive"} /\ task[u].at # "archive"
    BY <1>5, OnwardEffect
  <2>4. task[t].at \in Past \ {"archive"} /\ task'[t].slug = task[t].slug
    <3>1. CASE t = u
      BY <1>0, <1>5, <2>3, <3>1, OnwardEffect DEF Ended, Moved
    <3> QED BY <2>2, <3>1
  <2>5. CASE Rotate(u)
    <3>g. PICK gone : Unlinked(gone)
      BY <2>5, RotateFiles
    <3>1. r \in OnDisk /\ r \notin gone /\ files'[r] = files[r] /\ (r \in failed => r \in failed')
      BY <1>r, <3>g DEF OnDisk, Unlinked
    <3>2. CASE r \in Pruned
      <4>1. PICK s \in Pruned : newer[s] \cap Pruned = {}
        BY <3>2, NewestPruned
      <4>2. newer[s] \subseteq newer[r]
        BY <3>2, <4>1 DEF Ordered, Chain, Pruned
      <4>3. newer[s] \in SUBSET newer'[r]
        BY <1>r, <3>g, <3>1, <4>1, <4>2 DEF Unlinked
      <4>4. Cardinality(newer[s]) >= Retain
        BY <4>1 DEF Pruned
      <4>5. r \in Pruned'
        BY <1>o, <4>3, <4>4, StaysPruned
      <4> QED BY <4>5 DEF Passed
    <3>3. CASE r \notin Pruned /\ (files[task[t].slug] = None \/ r \in newer[task[t].slug])
      <4>1. Finished(r, t)
        BY <1>b, <2>1, <2>4, <3>1, <3>3 DEF Passed
      <4> QED BY <2>2, <2>3, <3>1, <4>1 DEF Finished, Passed
    <3>4. CASE r \notin Pruned /\ files[task[t].slug] # None /\ r \notin newer[task[t].slug]
      <4> DEFINE s == task[t].slug
      <4>1. s \in OnDisk
        BY <1>n, <2>4, <3>4 DEF OnDisk
      <4>2. s \in gone /\ s \in Pruned
        BY <1>n, <2>4, <3>g, <3>4 DEF Unlinked
      <4>3. r # s /\ s \in newer[r] /\ newer[s] \in SUBSET newer[r]
        BY <3>1, <3>4, <4>1, <4>2 DEF Ordered, Chain
      <4>4. Cardinality(newer[s]) >= Retain
        BY <4>2 DEF Pruned
      <4>5. IsFiniteSet(newer[r]) /\ Cardinality(newer[r]) \in Nat
        <5>1. newer[r] \in SUBSET OnDisk /\ IsFiniteSet(OnDisk)
          BY <3>1 DEF Ordered, Chain
        <5> QED BY <5>1, FS_Subset, FS_CardinalityType
      <4>6. Cardinality(newer[s]) \in Nat /\ Cardinality(newer[s]) <= Cardinality(newer[r])
        BY <4>3, <4>5, FS_Subset, FS_CardinalityType
      <4>7. Cardinality(newer[r]) >= Retain
        BY <4>4, <4>5, <4>6, BackupAssumption
      <4> QED BY <3>1, <3>4, <4>7 DEF Pruned
    <3> QED BY <3>2, <3>3, <3>4
  <2>6. CASE files' = files /\ newer' = newer /\ failed' = failed
    <3>1. Passed(r, t)
      BY <1>b, <2>1, <2>4, <2>6 DEF OnDisk
    <3> QED BY <1>p, <2>2, <2>3, <2>6, <3>1 DEF Finished, Passed
  <2> QED BY <1>5, <2>5, <2>6, DiskKept, StampFiles DEF Onward
<1>6. ASSUME NEW u \in Tasks, Cancel(u) PROVE Passed(r, t)'
  <2>1. NoClash /\ files' = files /\ newer' = newer /\ failed' = failed
    BY <1>6, DiskKept DEF NoClash
  <2>2. \A v \in Tasks : task[v].at = "archive" => task'[v].at = "archive" /\ task'[v].slug = task[v].slug
    <3>1. \A v \in Tasks \ {u} : task'[v] = task[v]
      BY <1>6, CancelEffect DEF Same
    <3>2. task[u].at = "archive" => task'[u].at = "archive" /\ task'[u].slug = task[u].slug
      <4> SUFFICES ASSUME task[u].at = "archive" PROVE task'[u].at = "archive" /\ task'[u].slug = task[u].slug
        OBVIOUS
      <4>1. task' = [task EXCEPT ![u].orphan = TRUE]
        BY <1>6 DEF Cancel
      <4>2. task \in [Tasks -> TaskRecord]
        BY DEF TypeOK, TaskRecord
      <4> QED BY <4>1, <4>2 DEF TaskRecord
    <3> QED BY <3>1, <3>2
  <2>3. task[t].at = task'[t].at /\ task[t].slug = task'[t].slug
    BY <1>0, <1>6, CancelEffect DEF Same, Ended
  <2>4. Passed(r, t)
    BY <1>b, <2>1, <2>3 DEF OnDisk
  <2> QED BY <1>p, <2>1, <2>2, <2>4 DEF Finished, Passed
<1>7. CASE Stop
  BY <1>0, <1>7, StopEffect
<1>9. ASSUME NEW u \in Tasks, Fail(u) PROVE Passed(r, t)'
  <2>1. NoClash
    BY <1>9, FailEffect DEF NoClash
  <2>2. task'[u] = Idle /\ \A v \in Tasks \ {u} : task'[v] = task[v]
    BY <1>9, FailEffect DEF Ended, Same
  <2>3. t # u /\ task[t].at \in Past \ {"archive"} /\ task'[t].slug = task[t].slug
    BY <1>0, <2>2
  <2>4. r \in OnDisk /\ files'[task[t].slug] = files[task[t].slug] /\ files'[r] = files[r]
    <3>1. \A q \in Slugs : files'[q] = files[q]
      BY <1>9, <2>1, FailFiles DEF ClashFree, Clean
    <3> QED BY <1>n, <1>r, <2>3, <3>1 DEF OnDisk
  <2>5. failed \subseteq failed' /\ task[u].slug \in Slugs
    BY <1>9, FailFiles
  <2>6. CASE r = task[u].slug /\ task[u].at = "archive"
    <3>1. r \in failed'
      BY <1>9, <1>r, <2>4, <2>6, FailFiles
    <3> QED BY <3>1 DEF Finished, Passed
  <2>7. CASE ~(r = task[u].slug /\ task[u].at = "archive")
    <3>1. r \in newer'[task[t].slug] => r \in newer[task[t].slug]
      <4>1. CASE newer' = newer
        BY <4>1
      <4>2. CASE newer' = Touch(task[u].slug) /\ task[u].at = "archive"
        BY <1>n, <2>3, <2>7, <4>2 DEF Touch
      <4> QED BY <1>9, <4>1, <4>2, FailFiles
    <3>2. Passed(r, t)
      BY <1>b, <2>1, <2>3, <2>4, <3>1
    <3>3. newer[r] \subseteq newer'[r]
      <4>1. CASE newer' = newer
        BY <4>1
      <4>2. CASE newer' = Touch(task[u].slug) /\ task[u].at = "archive"
        BY <2>4, <2>7, <4>2 DEF Touch, OnDisk
      <4> QED BY <1>9, <4>1, <4>2, FailFiles
    <3> QED BY <1>p, <2>2, <2>4, <2>5, <2>7, <3>2, <3>3 DEF Finished, Passed
  <2> QED BY <2>6, <2>7
<1>8. CASE files' = files /\ newer' = newer /\ failed' = failed /\ task' = task /\ ("clash" \in events' <=> "clash" \in events)
  BY <1>8, <1>b, <1>p DEF Finished, Passed, OnDisk, NoClash
<1> QED BY <1>1, <1>2, <1>3, <1>4, <1>5, <1>6, <1>7, <1>8, <1>9, Still DEF Next, Onward

\* A rotation that keeps as many archives as there are tasks at work and archives given up keeps
\* one to restore.
LEMMA RotationKeeps ==
    ASSUME TypeOK, Named, Ordered, NoClash, ClashFree, Behind, NEW t \in Tasks, Rotate(t),
           Restorable # {}, Cardinality(AtWork) + Cardinality(failed) <= Retain, OnDisk' # {}
    PROVE  Restorable' # {}
<1> SUFFICES ASSUME Restorable' = {} PROVE FALSE
  OBVIOUS
<1>g. PICK gone : Unlinked(gone)
  BY RotateFiles
<1>0. gone \subseteq Pruned /\ Pruned \subseteq OnDisk /\ OnDisk \subseteq Slugs
  BY <1>g DEF OnDisk, Pruned, Unlinked
<1>1. \A r \in OnDisk \ Pruned : files[r].kind # "whole"
  <2> SUFFICES ASSUME NEW r \in OnDisk \ Pruned, files[r].kind = "whole" PROVE FALSE
    OBVIOUS
  <2>1. r \in Slugs /\ files'[r] = files[r] /\ sheets'[r] = sheets[r]
    BY <1>g, <1>0 DEF Unlinked
  <2>2. sheets[r] \in {None, Unreadable, files[r]}
    BY <2>1 DEF ClashFree, Sealed, OnDisk
  <2>3. r \in Restorable'
    BY <2>1, <2>2 DEF Restorable
  <2> QED BY <2>3
<1>2. Pruned # {}
  <2>1. PICK s \in Restorable : TRUE
    OBVIOUS
  <2>2. s \in OnDisk /\ files[s].kind = "whole"
    BY <2>1, Kinds DEF Restorable, OnDisk
  <2> QED BY <1>1, <2>2
<1>3. task[t].at = "rotate" /\ task[t].slug \in Slugs
  BY RotateFiles DEF Named, AtWork
<1>4. \A r \in OnDisk \ Pruned : files[task[t].slug] = None \/ r \in newer[task[t].slug]
  <2> SUFFICES ASSUME files[task[t].slug] # None, NEW r \in OnDisk \ Pruned PROVE r \in newer[task[t].slug]
    OBVIOUS
  <2> DEFINE s == task[t].slug
  <2>1. s \in OnDisk /\ files[s].kind = "whole"
    BY <1>3 DEF OnDisk, ClashFree, Closed, Past, Archiving
  <2>2. s \in Pruned
    BY <1>1, <2>1
  <2>3. r = s \/ r \in newer[s] \/ s \in newer[r]
    BY <2>1 DEF Ordered, Chain
  <2>4. ASSUME s \in newer[r] PROVE FALSE
    <3>1. newer[s] \in SUBSET newer[r]
      BY <2>1, <2>4 DEF Ordered, Chain
    <3>2. IsFiniteSet(newer[r]) /\ Cardinality(newer[r]) \in Nat
      <4>1. newer[r] \in SUBSET OnDisk /\ IsFiniteSet(OnDisk)
        BY <1>0 DEF Ordered, Chain
      <4> QED BY <4>1, FS_Subset, FS_CardinalityType
    <3>3. Cardinality(newer[s]) \in Nat /\ Cardinality(newer[s]) <= Cardinality(newer[r])
      BY <3>1, <3>2, FS_Subset, FS_CardinalityType
    <3>4. Cardinality(newer[s]) >= Retain
      BY <2>2 DEF Pruned
    <3> QED BY <3>2, <3>3, <3>4, BackupAssumption DEF Pruned
  <2> QED BY <2>2, <2>3, <2>4
<1>5. \A r \in OnDisk \ Pruned : r \in failed \/ \E u \in AtWork \ {t} : task[u].slug = r
  <2> SUFFICES ASSUME NEW r \in OnDisk \ Pruned, r \notin failed
               PROVE  \E u \in AtWork \ {t} : task[u].slug = r
    OBVIOUS
  <2>1. Passed(r, t)
    BY <1>3, <1>4 DEF Behind, Past, Archiving
  <2> QED BY <1>1, <2>1 DEF Passed, Finished, AtWork
<1>6. PICK s \in Pruned : newer[s] \cap Pruned = {}
  BY <1>2, NewestPruned
<1>7. Cardinality(newer[s]) >= Retain /\ newer[s] \subseteq OnDisk \ Pruned
  BY <1>0, <1>6 DEF Pruned, Ordered, Chain
<1> DEFINE Rest == AtWork \ {t}
           Held == newer[s] \ failed
           Worker == [r \in Held |-> CHOOSE u \in Rest : task[u].slug = r]
<1>8. \A r \in Held : Worker[r] \in Rest /\ task[Worker[r]].slug = r
  BY <1>5, <1>7
<1>9. Worker \in Injection(Held, Rest)
  <2>1. Worker \in [Held -> Rest]
    BY <1>8
  <2>2. \A a, b \in Held : Worker[a] = Worker[b] => a = b
    BY <1>8
  <2> HIDE DEF Worker, Rest, Held
  <2> QED BY <2>1, <2>2 DEF Injection, IsInjective
<1>10. IsFiniteSet(Rest) /\ Cardinality(Rest) = Cardinality(AtWork) - 1 /\ Cardinality(AtWork) \in Nat
  <2>1. AtWork \in SUBSET Tasks /\ t \in AtWork
    BY <1>3 DEF AtWork
  <2>2. IsFiniteSet(AtWork)
    BY <2>1, BackupAssumption, FS_Subset
  <2> QED BY <2>1, <2>2, FS_RemoveElement, FS_CardinalityType
<1>11. Cardinality(Held) <= Cardinality(Rest) /\ IsFiniteSet(Held)
  <2> HIDE DEF Worker, Rest, Held
  <2> QED BY <1>9, <1>10, FS_Injection
<1>12. IsFiniteSet(failed) /\ Cardinality(failed) \in Nat
  <2>1. failed \in SUBSET OnDisk /\ IsFiniteSet(OnDisk)
    BY DEF Ordered
  <2> QED BY <2>1, FS_Subset, FS_CardinalityType
<1>13. /\ IsFiniteSet(Held \cup failed)
       /\ Cardinality(Held \cup failed) <= Cardinality(Held) + Cardinality(failed)
       /\ Cardinality(Held \cup failed) \in Nat /\ Cardinality(Held) \in Nat
  <2> HIDE DEF Held
  <2>1. IsFiniteSet(Held \cup failed) /\ IsFiniteSet(Held \cap failed)
    BY <1>11, <1>12, FS_Union, FS_Intersection
  <2>2. Cardinality(Held \cup failed) = Cardinality(Held) + Cardinality(failed) - Cardinality(Held \cap failed)
    BY <1>11, <1>12, FS_Union
  <2>3. Cardinality(Held \cup failed) \in Nat /\ Cardinality(Held) \in Nat /\ Cardinality(Held \cap failed) \in Nat
    BY <1>11, <2>1, FS_CardinalityType
  <2> QED BY <1>12, <2>1, <2>2, <2>3
<1>14. Cardinality(newer[s]) \in Nat /\ Cardinality(newer[s]) <= Cardinality(Held \cup failed)
  <2>1. newer[s] \in SUBSET (Held \cup failed)
    OBVIOUS
  <2> HIDE DEF Held
  <2> QED BY <1>13, <2>1, FS_Subset, FS_CardinalityType
<1> HIDE DEF Rest, Held
<1> QED BY <1>7, <1>10, <1>11, <1>12, <1>13, <1>14, BackupAssumption

Keeping == IInv /\ Ordered /\ (NoClash => Behind)

\* Age and progress hold for ever.
LEMMA KeepingHolds == Spec => []Keeping
<1>1. Init => Ordered /\ (NoClash => Behind)
  <2> SUFFICES ASSUME Init PROVE Ordered /\ Behind
    OBVIOUS
  <2>1. OnDisk = {}
    BY DEF Init, OnDisk
  <2>2. failed = {} /\ \A s \in Slugs : newer[s] = {}
    BY DEF Init
  <2> QED BY <2>1, <2>2, FS_EmptySet DEF Ordered, Chain, Behind
<1>2. IInv /\ Ordered /\ (NoClash => Behind) /\ [Next]_vars => Ordered' /\ (NoClash => Behind)'
  BY OrderedStep, BehindStep DEF IInv, ClashFree
<1> QED BY <1>1, <1>2, Holds, PTL DEF Spec, Keeping

\* No step of any backup leaves the disk without an archive to restore when it had one, while
\* rotation keeps at least as many as there are tasks at work and archives given up
\* (engine.py:257-272): those, what crashes cut short and what could not be unlinked can be
\* among what it keeps, but never only those.
THEOREM RestorableAlwaysKept == Spec => RestorableKept
<1>1. Keeping /\ [Next]_vars =>
        [(Restorable # {} /\ "clash" \notin events' /\ OnDisk' # {}
              /\ Cardinality(AtWork) + Cardinality(failed) <= Retain)
            => Restorable' # {}]_vars
  <2> SUFFICES ASSUME Keeping, [Next]_vars, Restorable # {}, "clash" \notin events',
                      Cardinality(AtWork) + Cardinality(failed) <= Retain, OnDisk' # {}
               PROVE  Restorable' # {}
    OBVIOUS
  <2>i. TypeOK /\ Named /\ Ordered /\ (NoClash => ClashFree) /\ (NoClash => Behind)
    BY DEF Keeping, IInv, ClashFree
  <2>0. PICK s \in Slugs : files[s].kind = "whole" /\ sheets[s] \in {None, Unreadable, files[s]}
    BY DEF Restorable
  <2>1. ASSUME NEW t \in Tasks, Dump(t) PROVE Restorable' # {}
    <3>1. files[task[t].slug] = None
      BY <2>1, <2>i, DumpFiles
    <3>2. s # task[t].slug
      BY <2>0, <3>1, Kinds
    <3>3. files'[s] = files[s] /\ sheets'[s] = sheets[s]
      BY <2>1, <2>i, <3>2, DumpFiles
    <3> QED BY <2>0, <3>3 DEF Restorable
  <2>2. ASSUME NEW t \in Tasks, Archive(t) PROVE Restorable' # {}
    <3>1. NoClash
      BY <2>2 DEF NoClash, Archive
    <3>2. CASE files[task[t].slug] = None
      BY <2>0, <2>2, <2>i, <3>2, ArchiveEffect DEF Restorable
    <3>3. CASE files[task[t].slug] # None /\ s # task[t].slug
      <4>1. files'[s] = files[s] /\ sheets'[s] = sheets[s]
        BY <2>2, <2>i, <3>3, ArchiveFiles
      <4> QED BY <2>0, <4>1 DEF Restorable
    <3>4. CASE files[task[t].slug] # None /\ s = task[t].slug
      <4>1. task[t].at = "archive" /\ sheets' = sheets
        BY <2>2, <2>i, <3>4, ArchiveFiles
      <4>2. ~task[t].dirty /\ sheets[s] = None
        BY <2>i, <3>1, <3>4, <4>1 DEF ClashFree, Clean, Fresh, Archiving
      <4>3. files'[s].kind = "whole"
        BY <2>2, <2>i, <3>4, <4>2, ArchiveFiles, Kinds
      <4> QED BY <4>1, <4>2, <4>3 DEF Restorable
    <3> QED BY <3>2, <3>3, <3>4
  <2>3. ASSUME NEW t \in Tasks, Stamp(t) PROVE Restorable' # {}
    <3>1. files' = files /\ (sheets'[s] = sheets[s] \/ sheets'[s] = files[s])
      BY <2>3, <2>i, StampFiles
    <3> QED BY <2>0, <3>1 DEF Restorable
  <2>4. ASSUME NEW t \in Tasks, Rotate(t) PROVE Restorable' # {}
    <3>1. NoClash
      BY <2>4, RotateFiles DEF NoClash
    <3> QED BY <2>4, <2>i, <3>1, RotationKeeps
  <2>5. CASE Stop
    <3>1. CASE files' = files /\ sheets' = sheets
      BY <2>0, <3>1 DEF Restorable
    <3>2. CASE \A r \in Slugs : files'[r] = None
      BY <3>2 DEF OnDisk
    <3> QED BY <2>5, <3>1, <3>2, StopEffect
  <2>6. CASE files' = files /\ sheets' = sheets
    BY <2>0, <2>6 DEF Restorable
  <2>7. ASSUME NEW t \in Tasks, Fail(t) PROVE Restorable' # {}
    <3>1. NoClash
      BY <2>7, <2>i, FailEffect DEF NoClash
    <3>2. files'[s] = files[s]
      BY <2>7, <2>i, <3>1, FailFiles DEF ClashFree, Clean
    <3>3. sheets'[s] \in {sheets[s], Unreadable, files[s]}
      BY <2>7, <2>i, FailFiles
    <3> QED BY <2>0, <3>2, <3>3 DEF Restorable
  <2> QED BY <2>1, <2>2, <2>3, <2>4, <2>5, <2>6, <2>7, DiskKept, Still DEF Next
<1> QED BY <1>1, KeepingHolds, PTL DEF Spec, RestorableKept

================================================================================
