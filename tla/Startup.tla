-------------------------------- MODULE Startup --------------------------------
(***************************************************************************)
(* What processes of one node do before they work (credence/db.py,         *)
(* credence/identity.py): init_db brings an older database up to date and  *)
(* creates the tables that are missing, and the node's key is read or      *)
(* made.  The server and the command line are processes, on the same       *)
(* database and key; init_db runs at the start and again before most       *)
(* requests.  SQLite commits each ALTER and CREATE by itself.  The removal *)
(* of old audits in between is never committed and is left out.            *)
(***************************************************************************)
EXTENDS Integers, Sequences, SequencesExt, TLC

CONSTANTS
    Processes,
    TableOrder,     \* the tables that are migrated, in order
    Needed,         \* Needed[table]: the columns later versions have added, in order
    MaxLocks,       \* bound on the statements that meet a lock for longer than busy_timeout
    MaxCrashes      \* bound on the processes that are killed

ASSUME StartupAssumption ==
    /\ TableOrder \in Seq(DOMAIN Needed) /\ IsInjective(TableOrder) /\ Range(TableOrder) = DOMAIN Needed
    /\ \A t \in DOMAIN Needed : IsInjective(Needed[t])
    /\ MaxLocks \in Nat /\ MaxCrashes \in Nat

VARIABLES
    schema,         \* the tables there are, each with those of the columns it has
    keyFile,        \* NODE_KEY_PATH: absent, empty, or whose key is in it
    procs,          \* what each process is at; todo: the columns or tables it still has to add
    identity,       \* the key a process signs with
    locks, crashes  \* counted against the bounds

startupVars == <<schema, keyFile, procs, identity, locks, crashes>>

Off == [step |-> "off", table |-> 0, todo |-> <<>>]
Blank == <<>>
Legacy == [t \in DOMAIN Needed |-> {}]
Current == [t \in DOMAIN Needed |-> Range(Needed[t])]
Absent == "absent"
Empty == "empty"
NoIdentity == "none"

StartupInit ==
    /\ schema \in {Blank, Legacy, Current} /\ keyFile \in {Absent, "old"}
    /\ procs = [p \in Processes |-> Off]
    /\ identity = [p \in Processes |-> NoIdentity]
    /\ locks = 0 /\ crashes = 0

-----------------------------------------------------------------------------
Now(p, r) == procs' = [procs EXCEPT ![p] = r]
Does(p, step) == procs[p].step = step
NextTable(p) == [step |-> IF procs[p].table < Len(TableOrder) THEN "look" ELSE "tables",
                 table |-> procs[p].table + 1, todo |-> <<>>]

StartInit(p) ==
    /\ procs[p].step \in {"off", "ready", "failed"}
    /\ Now(p, [step |-> "look", table |-> 1, todo |-> <<>>])
    /\ UNCHANGED <<schema, keyFile, identity, locks, crashes>>

\* Mutant of Missing: the first column stands for all of them.
MissingTogether(t) == IF Needed[t][1] \in schema[t] THEN <<>> ELSE Needed[t]

\* PRAGMA table_info: of a table that is not there nothing is missing.
Missing(t) == SelectSeq(Needed[t], LAMBDA c : c \notin schema[t])

Look(p) ==
    /\ Does(p, "look")
    /\ LET t == TableOrder[procs[p].table]
           missing == IF t \in DOMAIN schema THEN Missing(t) ELSE <<>>
       IN  Now(p, IF missing = <<>> THEN NextTable(p) ELSE [procs[p] EXCEPT !.step = "alter", !.todo = missing])
    /\ UNCHANGED <<schema, keyFile, identity, locks, crashes>>

\* ALTER TABLE.  A column another process has added meanwhile is an error, as is a lock, and
\* an error ends the work on the table.
AddColumn(p) ==
    /\ Does(p, "alter")
    /\ LET t == TableOrder[procs[p].table]
           c == Head(procs[p].todo)
       IN  \/ /\ c \notin schema[t]
              /\ schema' = [schema EXCEPT ![t] = @ \union {c}]
              /\ Now(p, IF Len(procs[p].todo) = 1 THEN NextTable(p) ELSE [procs[p] EXCEPT !.todo = Tail(@)])
              /\ UNCHANGED locks
           \/ c \in schema[t] /\ Now(p, NextTable(p)) /\ UNCHANGED <<schema, locks>>
           \/ /\ locks < MaxLocks /\ locks' = locks + 1
              /\ Now(p, NextTable(p)) /\ UNCHANGED schema
    /\ UNCHANGED <<keyFile, identity, crashes>>

\* create_all asks which tables there are, and creates the others one by one.
ListTables(p) ==
    /\ Does(p, "tables")
    /\ LET missing == SelectSeq(TableOrder, LAMBDA t : t \notin DOMAIN schema)
       IN  Now(p, [procs[p] EXCEPT !.step = IF missing = <<>> THEN "ready" ELSE "create", !.todo = missing])
    /\ UNCHANGED <<schema, keyFile, identity, locks, crashes>>

\* Here an error leaves init_db.
CreateTable(p) ==
    /\ Does(p, "create")
    /\ LET t == Head(procs[p].todo)
       IN  \/ /\ t \notin DOMAIN schema
              /\ schema' = schema @@ (t :> Range(Needed[t]))
              /\ Now(p, IF Len(procs[p].todo) = 1 THEN [procs[p] EXCEPT !.step = "ready", !.todo = <<>>]
                        ELSE [procs[p] EXCEPT !.todo = Tail(@)])
              /\ UNCHANGED locks
           \/ t \in DOMAIN schema /\ Now(p, [procs[p] EXCEPT !.step = "failed", !.todo = <<>>]) /\ UNCHANGED <<schema, locks>>
           \/ /\ locks < MaxLocks /\ locks' = locks + 1
              /\ Now(p, [procs[p] EXCEPT !.step = "failed", !.todo = <<>>]) /\ UNCHANGED schema
    /\ UNCHANGED <<keyFile, identity, crashes>>

-----------------------------------------------------------------------------
\* load_or_create_node_identity: a key that is there is read, an empty file is an error.
LoadKey(p) ==
    /\ Does(p, "ready") /\ identity[p] = NoIdentity
    /\ \/ /\ keyFile \notin {Absent, Empty}
          /\ identity' = [identity EXCEPT ![p] = keyFile] /\ UNCHANGED procs
       \/ keyFile = Empty /\ Now(p, [procs[p] EXCEPT !.step = "failed"]) /\ UNCHANGED identity
       \/ keyFile = Absent /\ Now(p, [procs[p] EXCEPT !.step = "open key"]) /\ UNCHANGED identity
    /\ UNCHANGED <<schema, keyFile, locks, crashes>>

OpenKey(p) ==
    /\ Does(p, "open key")
    /\ keyFile' = Empty /\ Now(p, [procs[p] EXCEPT !.step = "write key"])
    /\ UNCHANGED <<schema, identity, locks, crashes>>

WriteKey(p) ==
    /\ Does(p, "write key")
    /\ keyFile' = p /\ identity' = [identity EXCEPT ![p] = p]
    /\ Now(p, [procs[p] EXCEPT !.step = "ready"])
    /\ UNCHANGED <<schema, locks, crashes>>

Crash(p) ==
    /\ crashes < MaxCrashes /\ crashes' = crashes + 1
    /\ Now(p, Off) /\ identity' = [identity EXCEPT ![p] = NoIdentity]
    /\ UNCHANGED <<schema, keyFile, locks>>

InitDb(p) == StartInit(p) \/ Look(p) \/ AddColumn(p) \/ ListTables(p) \/ CreateTable(p)
Identify(p) == LoadKey(p) \/ OpenKey(p) \/ WriteKey(p)

StartupNext == \E p \in Processes : InitDb(p) \/ Identify(p) \/ Crash(p)

\* The schema that the models of this version expect.
SchemaComplete ==
    \A t \in DOMAIN Needed : t \in DOMAIN schema /\ schema[t] = Range(Needed[t])

\* A process that works goes on.  While the schema is not complete, one that was stopped is
\* started again, and one that runs calls init_db with its next request.
StartupFairness ==
    \A p \in Processes : /\ WF_startupVars(~SchemaComplete /\ InitDb(p))
                         /\ WF_startupVars(Identify(p))

-----------------------------------------------------------------------------
(***************************************************************************)
(* Whatever processes come between one another, are killed or meet a lock, *)
(* the database some time has all tables with all columns, and keeps them  *)
(* (db.py:93-132, 166): what one left undone the next takes up.            *)
(***************************************************************************)
SchemaConverges == <>[]SchemaComplete

(***************************************************************************)
(* What the code does not keep.  After init_db the schema is complete      *)
(* ("Initialize database schemas", db.py:155): a process whose ALTER came  *)
(* second goes on before the other has added the rest.                     *)
(***************************************************************************)
ReadyIsComplete == \A p \in Processes : Does(p, "ready") => SchemaComplete

\* The migrations are "idempotent" (db.py:80), the creation of tables by two at once is not.
InitSucceeds == \A p \in Processes : Does(p, "failed") => keyFile = Empty \/ locks > 0

\* A node has one key ("Load existing Ed25519 key from disk or generate and persist a new
\* one", identity.py:74): two that find none make one each, and one of them is not persisted.
OneIdentity == \A p \in Processes : identity[p] \in {NoIdentity, keyFile}

\* A key file can be read: one whose writer was killed stays empty, and nobody writes it again.
KeyUsable == (\A p \in Processes : ~Does(p, "write key")) => keyFile # Empty
================================================================================
