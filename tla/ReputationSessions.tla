-------------------------- MODULE ReputationSessions --------------------------
(***************************************************************************)
(* The database sessions that update one domain's reputation record, and   *)
(* the polling interval of a subscription to one of its feeds.             *)
(*                                                                         *)
(* A session is one boredom cycle (or an API call that only looks the      *)
(* domain up).  It holds the row and the subscription it loaded for as     *)
(* long as it lives: sessions are made with expire_on_commit=False, and a  *)
(* second SELECT finds the held objects in the identity map and keeps      *)
(* their attributes.  A commit writes the columns that differ from what    *)
(* was loaded; only the refresh after it reads the row again.  Cycles run  *)
(* concurrently: the daemon's, and those the API, the MCP tools and the    *)
(* command line start.                                                     *)
(***************************************************************************)
EXTENDS ReputationUpdate

CONSTANTS
    Sessions,       \* database sessions
    NoRow,          \* the domain has no row yet
    MaxAudits       \* bound on the audits, one that is written over counted twice

ASSUME SessionsAssumption ==
    NoRow \notin DomainRecord /\ MaxAudits \in Nat

VARIABLES
    row,            \* the domain's row of table domainreputation
    interval,       \* FeedSubscription.polling_interval_seconds
    pc,             \* what each session does next
    held,           \* the record each session holds
    heldInterval,   \* the interval of the subscription each session holds
    completed,      \* history: updates committed so far
    missed,         \* history: commits of others since each session read the row
    lost,           \* history: commits that were written over by a session that missed them
    overtaken,      \* history: another session has written since each one looked
    adrift          \* history: the last interval due was not written, or by one overtaken

record == <<row, held, completed, missed, lost>>
polling == <<interval, heldInterval, adrift>>
vars == <<record, polling, pc, overtaken>>

Steps == {"idle", "insert", "reload_new", "ready", "reload", "sync"}

Intervals == {900 * b : b \in BackoffFactors}

Init ==
    /\ row = NoRow
    /\ interval = 900
    /\ pc = [s \in Sessions |-> "idle"]
    /\ held = [s \in Sessions |-> NewRecord]
    /\ heldInterval = [s \in Sessions |-> 900]
    /\ completed = 0
    /\ missed = [s \in Sessions |-> 0]
    /\ lost = 0
    /\ overtaken = [s \in Sessions |-> FALSE]
    /\ adrift = FALSE

Goto(s, step) == pc' = [pc EXCEPT ![s] = step]

\* Every other session at work is overtaken by what s writes.
Overtake(s) == overtaken' = [t \in Sessions |-> IF t = s THEN overtaken[t] ELSE pc[t] # "idle"]

\* A session ends and what it holds is gone.
End(s) ==
    /\ Goto(s, "idle")
    /\ held' = [held EXCEPT ![s] = NewRecord]
    /\ heldInterval' = [heldInterval EXCEPT ![s] = 900]
    /\ missed' = [missed EXCEPT ![s] = 0]
    /\ overtaken' = [overtaken EXCEPT ![s] = FALSE]

-----------------------------------------------------------------------------
\* Mutant of Look: a cycle keeps the record it held before.
LookKeepsHeld(s) ==
    /\ pc[s] = "idle"
    /\ heldInterval' = [heldInterval EXCEPT ![s] = interval]
    /\ Goto(s, IF row = NoRow THEN "insert" ELSE "ready")
    /\ UNCHANGED <<row, interval, held, completed, missed, lost, overtaken, adrift>>

\* Mutant of Look: the subscription is not loaded again.
LookKeepsInterval(s) ==
    /\ pc[s] = "idle"
    /\ IF row = NoRow
       THEN Goto(s, "insert") /\ UNCHANGED held
       ELSE Goto(s, "ready") /\ held' = [held EXCEPT ![s] = row]
    /\ UNCHANGED <<row, polling, completed, missed, lost, overtaken>>

\* The cycle selects its pending items with their subscription, and the row.
Look(s) ==
    /\ pc[s] = "idle"
    /\ heldInterval' = [heldInterval EXCEPT ![s] = interval]
    /\ IF row = NoRow
       THEN Goto(s, "insert") /\ UNCHANGED held
       ELSE Goto(s, "ready") /\ held' = [held EXCEPT ![s] = row]
    /\ UNCHANGED <<row, interval, completed, missed, lost, overtaken, adrift>>

\* The domain is unique: the second insert raises and ends its cycle.
Insert(s) ==
    /\ pc[s] = "insert"
    /\ IF row = NoRow
       THEN row' = NewRecord /\ Goto(s, "reload_new") /\ UNCHANGED <<held, heldInterval, missed, overtaken>>
       ELSE UNCHANGED row /\ End(s)
    /\ UNCHANGED <<interval, completed, lost, adrift>>

\* Mutant of Written: the streaks are forgotten.
WrittenWithoutStreaks(old, new) ==
    [f \in DOMAIN row |->
        IF f \in {"reputation_score", "audits_count", "status"} THEN new[f] ELSE row[f]]

\* What an UPDATE leaves in the row: the columns that changed in the session.
Written(old, new) == [f \in DOMAIN row |-> IF new[f] # old[f] THEN new[f] ELSE row[f]]

Commit(s, a) ==
    /\ pc[s] = "ready"
    /\ completed + lost + missed[s] < MaxAudits
    /\ LET new == update(held[s], a)
       IN  row' = Written(held[s], new) /\ held' = [held EXCEPT ![s] = new]
    /\ completed' = completed + 1
    /\ lost' = lost + missed[s]
    /\ missed' = [t \in Sessions |-> IF t = s \/ pc[t] = "idle" THEN 0 ELSE missed[t] + 1]
    /\ Goto(s, "reload") /\ Overtake(s)
    /\ UNCHANGED polling

\* session.refresh, after the insert and after the update.
Reload(s) ==
    /\ pc[s] \in {"reload_new", "reload"}
    /\ held' = [held EXCEPT ![s] = row]
    /\ missed' = [missed EXCEPT ![s] = 0]
    /\ Goto(s, IF pc[s] = "reload" THEN "sync" ELSE "ready")
    /\ UNCHANGED <<row, completed, lost, polling, overtaken>>

\* The new interval is written if it differs from the one the session holds.
Sync(s) ==
    /\ pc[s] = "sync"
    /\ LET new == PollingInterval(held[s])
       IN  /\ interval' = IF new # heldInterval[s] THEN new ELSE interval
           /\ heldInterval' = [heldInterval EXCEPT ![s] = new]
    /\ adrift' = overtaken[s]
    /\ Goto(s, "ready") /\ Overtake(s)
    /\ UNCHANGED record

\* The cycle ends, or an exception, a cancellation or a crash ends it between steps.
Leave(s) ==
    /\ pc[s] # "idle" /\ End(s)
    /\ adrift' = IF pc[s] \in {"reload", "sync"} THEN TRUE ELSE adrift
    /\ UNCHANGED <<row, interval, completed, lost>>

Next ==
    \E s \in Sessions :
        \/ Look(s) \/ Insert(s) \/ Reload(s) \/ Sync(s) \/ Leave(s)
        \/ \E a \in Reports : Commit(s, a)

Spec == Init /\ [][Next]_vars

-----------------------------------------------------------------------------
\* Rows, held copies and intervals keep their ranges, however sessions interleave.
TypeOK ==
    /\ row \in DomainRecord \union {NoRow}
    /\ interval \in Intervals
    /\ pc \in [Sessions -> Steps]
    /\ held \in [Sessions -> DomainRecord]
    /\ heldInterval \in [Sessions -> Intervals]
    /\ completed \in Nat
    /\ missed \in [Sessions -> Nat]
    /\ lost \in Nat
    /\ overtaken \in [Sessions -> BOOLEAN]
    /\ adrift \in BOOLEAN

Count == IF row = NoRow THEN 0 ELSE row.audits_count

\* "Total audits completed for articles on this domain" (models.py:283), as far as it is
\* true of cycles that run at the same time: no audit is counted twice, and none is missing
\* but those that a cycle wrote over because they were committed after it had read the row.
AuditsCounted == Count <= completed /\ completed <= Count + lost

\* The subscription is polled at the factor of the row (reputation.py:184) unless a cycle is
\* between its two commits, or the last one was cut there or overtaken by another: the next
\* update by a cycle that nobody overtakes makes up for a write that was cut or skipped.
RateFollows ==
    row # NoRow /\ ~adrift /\ (\A s \in Sessions : pc[s] \notin {"reload", "sync"})
        => interval = PollingInterval(row)

\* Sessions that look, write, fail and end between steps, also at the same time, take the
\* steps of DomainReputation: a commit that writes over nobody's is one of its audits, and
\* everything else leaves the record as it is.
Domain == INSTANCE DomainReputation WITH rep <- IF row = NoRow THEN NewRecord ELSE row
ImplementsDomain == Domain!Init /\ [][lost' = lost => [Domain!Next]_(Domain!vars)]_vars

\* What the domain specification promises, of the row the sessions share, until a commit
\* writes over another's: standing, score and polling agree; the doctrine's milestone is
\* neither missed nor outlived.
BandsHeld == lost = 0 => Domain!BandsHeld
DoctrineHeld == lost = 0 => Domain!DoctrineHeld

-----------------------------------------------------------------------------
(* What the code does not keep.                                            *)

\* The count of the row is the number of updates that committed.
CountIsExact == Count = completed

\* The standing of the row agrees with its score, whatever cycles run beside one another.
BandsAlwaysHeld == Domain!BandsHeld

\* What the documents say of leaving quarantine.
LeavesQuarantineByGraduation == Domain!LeavesQuarantineByGraduation
=============================================================================
