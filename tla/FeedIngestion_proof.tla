-------------------------- MODULE FeedIngestion_proof -------------------------
(***************************************************************************)
(* Proofs about FeedIngestion, for any articles and any tasks: what the    *)
(* tasks hold fits their steps, a settled item has an audit behind it, and *)
(* an article is paid for at most once for every task and every forced     *)
(* sync.                                                                   *)
(*                                                                         *)
(* The last is one potential: the audits stored for an article, and the    *)
(* tasks that are past the check of the cache or never make it and may     *)
(* still store one.                                                        *)
(***************************************************************************)
EXTENDS FeedIngestion, FiniteSetTheorems, TLAPS

Early == {"idle", "fetch", "store", "scan", "next"}

\* A task holds an article in the steps that process one, and has it no longer to do.
Holding ==
    \A t \in Tasks : /\ url[t] \notin todo[t]
                     /\ IF pc[t] \in Early THEN url[t] = NoUrl ELSE url[t] \in Urls

TInv == TypeOK /\ Holding

LEMMA TypeInit == Init => TInv
<1> SUFFICES ASSUME Init PROVE TInv
  OBVIOUS
<1> USE DEF Init, Steps, Statuses, Versions
<1>1. NoUrl \notin Urls /\ 0 \in Versions /\ 1 \in Versions
  BY TasksAssumption
<1>2. feed \in [version: Versions, urls: SUBSET Urls]
  BY <1>1
<1> QED
  BY <1>1, <1>2 DEF TInv, TypeOK, Holding, Early

LEMMA TypeNext == TInv /\ [Next]_vars => TInv'
<1> SUFFICES ASSUME TInv, [Next]_vars PROVE TInv'
  OBVIOUS
<1>0. Syncs \subseteq Tasks /\ Cycles \subseteq Tasks /\ NoUrl \notin Urls
      /\ 0 \in Versions /\ 1 \in Versions
  BY TasksAssumption DEF Tasks, Versions
<1> USE <1>0 DEF TInv, TypeOK, Holding, Early, Steps, Statuses, Goto
<1>1. ASSUME NEW t \in Tasks, Close(t),
             UNCHANGED <<feed, etag, item, audits, tokens, boots>>, cut' \in BOOLEAN
      PROVE  TInv'
  BY <1>1 DEF Close
<1>2. ASSUME NEW t \in Tasks, NEW s \in Statuses, pc[t] \notin Early, Settle(t, s),
             UNCHANGED <<audits, cut>>, UNCHANGED Unsettled
      PROVE  TInv'
  BY <1>2 DEF Settle, EntryDone, Unsettled
<1>3. ASSUME NEW t \in Tasks, Leave(t), UNCHANGED <<audits, cut>>, UNCHANGED Unsettled
      PROVE  TInv'
  BY <1>3 DEF Leave, EntryDone, Unsettled
<1>4. ASSUME NEW t \in Tasks, NEW s \in Steps \ Early, pc[t] \notin Early, Proceed(t, s),
             UNCHANGED cut, UNCHANGED Unsettled, audits' \in [Urls -> Nat]
      PROVE  TInv'
  BY <1>4 DEF Proceed, Unsettled
<1>5. ASSUME NEW t \in Syncs, Poll(t) PROVE TInv'
  <2>1. boots' \in Nat
    BY <1>5 DEF Poll
  <2> QED
    BY <1>5, <2>1 DEF Poll
<1>6. ASSUME NEW t \in Syncs, Fetch(t) PROVE TInv'
  <2>1. CASE known[t] = feed.version
    BY <1>6, <1>1, <2>1 DEF Fetch
  <2>2. CASE known[t] # feed.version
    BY <1>6, <2>2 DEF Fetch
  <2> QED
    BY <2>1, <2>2
<1>7. ASSUME NEW t \in Syncs, FetchFails(t) PROVE TInv'
  BY <1>7, <1>1 DEF FetchFails
<1>8. ASSUME NEW t \in Syncs, StoreValidators(t) PROVE TInv'
  BY <1>8 DEF StoreValidators
<1>9. ASSUME NEW t \in Cycles, StartCycle(t) PROVE TInv'
  BY <1>9 DEF StartCycle
<1>10. ASSUME NEW t \in Cycles, Scan(t) PROVE TInv'
  <2>1. PICK picks \in SUBSET Urls : todo' = [todo EXCEPT ![t] = picks]
    BY <1>10 DEF Scan
  <2> QED
    BY <1>10, <2>1 DEF Scan
<1>11. ASSUME NEW t \in Tasks, NextEntry(t) PROVE TInv'
  <2>1. PICK u \in todo[t] :
            /\ todo' = [todo EXCEPT ![t] = @ \ {u}]
            /\ \/ UNCHANGED <<pc, url, held>>
               \/ /\ \E s \in {"dedup", "insert", "lookup"} : Goto(t, s)
                  /\ url' = [url EXCEPT ![t] = u]
                  /\ \E s \in Statuses : held' = [held EXCEPT ![t] = s]
    BY <1>11 DEF NextEntry
  <2>2. u \in Urls
    BY <2>1
  <2>3. UNCHANGED <<feed, etag, item, audits, tokens, boots, cut, known>> /\ pc[t] = "next"
    BY <1>11 DEF NextEntry
  <2>4. CASE UNCHANGED <<pc, url, held>>
    BY <2>1, <2>3, <2>4
  <2>5. ASSUME NEW s \in {"dedup", "insert", "lookup"}, Goto(t, s),
               url' = [url EXCEPT ![t] = u],
               NEW h \in Statuses, held' = [held EXCEPT ![t] = h]
        PROVE  TInv'
    BY <2>1, <2>2, <2>3, <2>5
  <2> QED
    BY <2>1, <2>4, <2>5
<1>12. ASSUME NEW t \in Tasks, Finish(t) PROVE TInv'
  BY <1>12, <1>1 DEF Finish
<1>13. ASSUME NEW t \in Tasks, LookUp(t) PROVE TInv'
  BY <1>13, <1>2, <1>4 DEF LookUp
<1>14. ASSUME NEW t \in Tasks, Insert(t) PROVE TInv'
  <2>1. CASE item[url[t]] = "absent"
    BY <1>14, <2>1 DEF Insert
  <2>2. CASE item[url[t]] # "absent"
    BY <1>14, <1>1, <2>2 DEF Insert
  <2> QED
    BY <2>1, <2>2
<1>15. ASSUME NEW t \in Tasks, Dedup(t) PROVE TInv'
  BY <1>15, <1>2, <1>3, <1>4 DEF Dedup
<1>16. ASSUME NEW t \in Tasks, Gate(t) PROVE TInv'
  BY <1>16, <1>2, <1>3, <1>4 DEF Gate
<1>17. ASSUME NEW t \in Tasks, Capture(t) PROVE TInv'
  BY <1>17, <1>4 DEF Capture
<1>18. ASSUME NEW t \in Tasks, Persist(t) PROVE TInv'
  <2>1. audits' \in [Urls -> Nat]
    BY <1>18 DEF Persist
  <2> QED
    BY <1>18, <1>4, <2>1 DEF Persist
<1>19. ASSUME NEW t \in Tasks, AuditFails(t) PROVE TInv'
  BY <1>19, <1>4 DEF AuditFails
<1>20. ASSUME NEW t \in Tasks, Mark(t) PROVE TInv'
  BY <1>20, <1>2 DEF Mark
<1>20r. ASSUME NEW t \in Tasks, ReputationFails(t) PROVE TInv'
  BY <1>20r DEF ReputationFails, Unsettled
<1>21. ASSUME NEW t \in Tasks, CutShort(t) PROVE TInv'
  BY <1>21, <1>1 DEF CutShort
<1>22. ASSUME NEW listed \in SUBSET Urls, Publish(listed) PROVE TInv'
  <2>1. feed.version + 1 \in Versions
    BY <1>22, TasksAssumption DEF Publish, Versions
  <2> QED
    BY <1>22, <2>1 DEF Publish
<1>23. CASE TokensChange
  BY <1>23 DEF TokensChange
<1>24. CASE UNCHANGED vars
  BY <1>24 DEF vars
<1> QED
  BY <1>5, <1>6, <1>7, <1>8, <1>9, <1>10, <1>11, <1>12, <1>13, <1>14, <1>15, <1>16,
     <1>17, <1>18, <1>19, <1>20, <1>20r, <1>21, <1>22, <1>23, <1>24
  DEF Next, Sync, Cycle, Process

\* Items, audits and what the tasks hold keep their ranges.
THEOREM TypeCorrect == Spec => []TypeOK
<1>1. TInv => TypeOK
  BY DEF TInv
<1> QED
  BY <1>1, TypeInit, TypeNext, PTL DEF Spec

-----------------------------------------------------------------------------
\* A task that is about to mark its item as audited has an audit to point to.
MarkBacked == \A t \in Tasks : pc[t] = "mark" => \E v \in Urls : audits[v] > 0

BInv == SettledIsBacked /\ MarkBacked

\* Audits are never removed.
AuditsKept == \A u \in Urls : audits[u] > 0 => audits'[u] > 0

\* No item is settled and no task comes nearer to settling one.
NothingSettles ==
    /\ \A u \in Urls : item'[u] \in {"audited", "mesh_adopted"} => item'[u] = item[u]
    /\ \A t \in Tasks : pc'[t] = "mark" => pc[t] = "mark"
    /\ AuditsKept

LEMMA Unsettling == BInv /\ NothingSettles => BInv'
BY DEF BInv, NothingSettles, AuditsKept, SettledIsBacked, MarkBacked

LEMMA SettleKeeps ==
  ASSUME TInv, BInv, UNCHANGED audits, NEW t \in Tasks, url[t] \in Urls,
         NEW s \in Statuses, Settle(t, s),
         s = "audited" => \E v \in Urls : audits[v] > 0,
         s = "mesh_adopted" => audits[url[t]] > 0
  PROVE  BInv'
<1> USE DEF TInv, TypeOK
<1>1. \A u \in Urls : item'[u] = item[u] \/ (u = url[t] /\ item'[u] = s)
  BY DEF Settle
<1>2. \A r \in Tasks : pc'[r] = "mark" => pc[r] = "mark"
  BY DEF Settle, EntryDone, Goto
<1> QED
  BY <1>1, <1>2 DEF BInv, SettledIsBacked, MarkBacked

LEMMA BackedInit == Init => BInv
BY DEF Init, BInv, SettledIsBacked, MarkBacked

LEMMA BackedNext == TInv /\ BInv /\ [Next]_vars => BInv'
<1> SUFFICES ASSUME TInv, BInv, [Next]_vars PROVE BInv'
  OBVIOUS
<1>0. Syncs \subseteq Tasks /\ Cycles \subseteq Tasks
  BY DEF Tasks
<1> USE <1>0 DEF Goto, Close, Proceed, Leave, EntryDone, AuditsKept, Unsettled
<1>t. /\ pc \in [Tasks -> Steps] /\ item \in [Urls -> Statuses]
      /\ audits \in [Urls -> Nat]
  BY DEF TInv, TypeOK
<1>u. \A t \in Tasks : pc[t] \notin Early => url[t] \in Urls
  BY DEF TInv, Holding
<1>1. ASSUME NEW t \in Tasks, \/ Poll(t) \/ Fetch(t) \/ FetchFails(t) \/ StoreValidators(t)
                              \/ StartCycle(t) \/ Scan(t) \/ NextEntry(t) \/ Finish(t)
                              \/ AuditFails(t) \/ CutShort(t)
      PROVE  NothingSettles
  BY <1>t, <1>1 DEF NothingSettles, Poll, Fetch, FetchFails, StoreValidators, StartCycle,
                    Scan, NextEntry, Finish, AuditFails, CutShort
<1>2. ASSUME NEW t \in Tasks, Insert(t) PROVE NothingSettles
  BY <1>t, <1>u, <1>2 DEF NothingSettles, Insert, Early
<1>3. ASSUME NEW t \in Tasks, LookUp(t) PROVE BInv'
  <2>1. url[t] \in Urls /\ "audited" \in Statuses
    BY <1>u, <1>3 DEF LookUp, Early, Statuses
  <2>2. CASE audits[url[t]] > 0 /\ Settle(t, "audited")
    BY <1>3, <2>1, <2>2, SettleKeeps DEF LookUp
  <2>3. CASE Proceed(t, IF t \in Forced THEN "gate" ELSE "dedup")
    <3>1. NothingSettles
      BY <1>t, <1>3, <2>3 DEF NothingSettles, LookUp
    <3> QED
      BY <3>1, Unsettling
  <2> QED
    BY <1>3, <2>2, <2>3 DEF LookUp
<1>4. ASSUME NEW t \in Tasks, Dedup(t) PROVE BInv'
  <2>1. url[t] \in Urls /\ "mesh_adopted" \in Statuses
    BY <1>u, <1>4 DEF Dedup, Early, Statuses
  <2>2. CASE audits[url[t]] # 0 /\ Settle(t, "mesh_adopted")
    <3>1. audits[url[t]] > 0
      BY <1>t, <2>1, <2>2
    <3> QED
      BY <1>4, <2>1, <2>2, <3>1, SettleKeeps DEF Dedup
  <2>3. CASE Proceed(t, "gate") \/ Leave(t)
    <3>1. NothingSettles
      BY <1>t, <1>4, <2>3 DEF NothingSettles, Dedup
    <3> QED
      BY <3>1, Unsettling
  <2> QED
    BY <1>4, <2>2, <2>3 DEF Dedup
<1>5. ASSUME NEW t \in Tasks, Gate(t) PROVE BInv'
  <2>1. url[t] \in Urls /\ "skipped" \in Statuses
    BY <1>u, <1>5 DEF Gate, Early, Statuses
  <2>2. CASE Settle(t, "skipped")
    BY <1>5, <2>1, <2>2, SettleKeeps DEF Gate
  <2>3. CASE Proceed(t, "audit") \/ Leave(t)
    <3>1. NothingSettles
      BY <1>t, <1>5, <2>3 DEF NothingSettles, Gate
    <3> QED
      BY <3>1, Unsettling
  <2> QED
    BY <1>5, <2>2, <2>3 DEF Gate
<1>6. ASSUME NEW t \in Tasks, Capture(t) PROVE BInv'
  <2>1. \A r \in Tasks : pc'[r] = "mark" => pc[r] = "mark" \/ \E u \in Urls : audits[u] > 0
    BY <1>t, <1>6 DEF Capture
  <2>2. UNCHANGED <<item, audits>>
    BY <1>6 DEF Capture
  <2> QED
    BY <2>1, <2>2 DEF BInv, SettledIsBacked, MarkBacked
<1>7. ASSUME NEW t \in Tasks, Persist(t) PROVE BInv'
  <2>1. url[t] \in Urls
    BY <1>u, <1>7 DEF Persist, Early
  <2>2. audits'[url[t]] > 0 /\ AuditsKept
    BY <1>t, <1>7, <2>1 DEF Persist
  <2>3. UNCHANGED item
    BY <1>7 DEF Persist
  <2> QED
    BY <2>1, <2>2, <2>3 DEF BInv, SettledIsBacked, MarkBacked
<1>8. ASSUME NEW t \in Tasks, Mark(t) PROVE BInv'
  <2>1. url[t] \in Urls /\ "audited" \in Statuses /\ "error" \in Statuses
    BY <1>u, <1>8 DEF Mark, Early, Statuses
  <2>2. pc[t] = "mark" => \E v \in Urls : audits[v] > 0
    BY DEF BInv, MarkBacked
  <2>3. CASE pc[t] = "mark"
    BY <1>8, <2>1, <2>2, <2>3, SettleKeeps DEF Mark
  <2>4. CASE pc[t] # "mark"
    BY <1>8, <2>1, <2>4, SettleKeeps DEF Mark
  <2> QED
    BY <2>3, <2>4
<1>8r. ASSUME NEW t \in Tasks, ReputationFails(t) PROVE BInv'
  <2>1. \E v \in Urls : audits[v] > 0
    BY <1>8r DEF ReputationFails, BInv, MarkBacked
  <2>2. \A u \in Urls : item'[u] = item[u] \/ item'[u] = "audited"
    BY <1>t, <1>8r DEF ReputationFails
  <2>3. UNCHANGED audits /\ \A r \in Tasks : pc'[r] = "mark" => pc[r] = "mark"
    BY <1>t, <1>8r DEF ReputationFails
  <2> QED
    BY <2>1, <2>2, <2>3 DEF BInv, SettledIsBacked, MarkBacked
<1>9. ASSUME \/ \E listed \in SUBSET Urls : Publish(listed)
             \/ TokensChange \/ UNCHANGED vars
      PROVE  NothingSettles
  BY <1>t, <1>9 DEF NothingSettles, Publish, TokensChange, vars
<1> QED
  BY <1>1, <1>2, <1>3, <1>4, <1>5, <1>6, <1>7, <1>8, <1>8r, <1>9, Unsettling
  DEF Next, Sync, Cycle, Process

\* Whatever the tasks do to an item at the same time, "audited" and "mesh_adopted" always
\* have a stored audit behind them.
THEOREM BackedHolds == Spec => []SettledIsBacked
<1>1. BInv => SettledIsBacked
  BY DEF BInv
<1> QED
  BY <1>1, TypeInit, TypeNext, BackedInit, BackedNext, PTL DEF Spec

-----------------------------------------------------------------------------
\* Task t may yet store an audit of u without looking at the cache again.
MayStore(t, u) ==
    \/ t \in Forced /\ (pc[t] \in {"fetch", "store"} \/ u \in todo[t])
    \/ url[t] = u /\ pc[t] \in {"gate", "audit", "persist"}
    \/ t \in Forced /\ url[t] = u /\ pc[t] \in {"lookup", "insert"}

Payers(u) == {t \in Tasks : MayStore(t, u)}

\* With a audits stored and b forced syncs, the tasks of S can store theirs too.
Potential(a, S, b) == a + Cardinality(S) <= Cardinality(Tasks) + b

DInv == \A u \in Urls : Potential(audits[u], Payers(u), boots)

LEMMA CardinalityOfTasks ==
  ASSUME NEW S \in SUBSET Tasks
  PROVE  /\ IsFiniteSet(S) /\ Cardinality(S) \in Nat
         /\ Cardinality(Tasks) \in Nat /\ Cardinality(S) <= Cardinality(Tasks)
<1>1. IsFiniteSet(Tasks)
  BY TasksAssumption
<1> QED
  BY <1>1, FS_Subset, FS_CardinalityType

\* Fewer payers for the same audits.
LEMMA FewerPayers ==
  ASSUME NEW S \in SUBSET Tasks, NEW T \in SUBSET S, NEW a \in Nat, NEW b \in Nat,
         Potential(a, S, b)
  PROVE  Potential(a, T, b)
<1>1. Cardinality(T) <= Cardinality(S) /\ Cardinality(T) \in Nat /\ Cardinality(S) \in Nat
      /\ Cardinality(Tasks) \in Nat
  BY CardinalityOfTasks, FS_Subset
<1> QED
  BY <1>1 DEF Potential

\* A forced sync brings one payer, and is counted.
LEMMA OneMorePayer ==
  ASSUME NEW S \in SUBSET Tasks, NEW t \in Tasks, NEW a \in Nat, NEW b \in Nat,
         Potential(a, S, b)
  PROVE  Potential(a, S \union {t}, b + 1)
<1>1. IsFiniteSet(S) /\ Cardinality(S) \in Nat /\ Cardinality(Tasks) \in Nat
  BY CardinalityOfTasks
<1>2. Cardinality(S \union {t}) \in {Cardinality(S), Cardinality(S) + 1}
  BY <1>1, FS_AddElement
<1> QED
  BY <1>1, <1>2 DEF Potential

\* A payer that stores its audit is one no more.
LEMMA PayerPays ==
  ASSUME NEW S \in SUBSET Tasks, NEW t \in S, NEW a \in Nat, NEW b \in Nat,
         Potential(a, S, b)
  PROVE  Potential(a + 1, S \ {t}, b)
<1>1. IsFiniteSet(S) /\ Cardinality(S) \in Nat /\ Cardinality(Tasks) \in Nat
  BY CardinalityOfTasks
<1>2. Cardinality(S \ {t}) = Cardinality(S) - 1
  BY <1>1, FS_RemoveElement
<1> QED
  BY <1>1, <1>2 DEF Potential

\* An article without an audit has room for every task.
LEMMA NothingPaid ==
  ASSUME NEW S \in SUBSET Tasks, NEW b \in Nat
  PROVE  Potential(0, S, b)
BY CardinalityOfTasks DEF Potential

LEMMA NoMorePayers ==
  ASSUME TypeOK, DInv, UNCHANGED <<audits, boots>>,
         NEW u \in Urls, Payers(u)' \subseteq Payers(u)
  PROVE  Potential(audits[u], Payers(u), boots)'
<1>1. /\ Payers(u) \in SUBSET Tasks /\ Payers(u)' \in SUBSET Payers(u)
      /\ audits[u] \in Nat /\ boots \in Nat /\ Potential(audits[u], Payers(u), boots)
  BY DEF DInv, TypeOK, Payers
<1>2. Potential(audits[u], Payers(u)', boots)
  BY <1>1, FewerPayers
<1> QED
  BY <1>2 DEF Potential
LEMMA DuplicatesInit == Init => DInv
<1> SUFFICES ASSUME Init, NEW u \in Urls PROVE Potential(audits[u], Payers(u), boots)
  BY DEF DInv
<1>1. Payers(u) \in SUBSET Tasks /\ audits[u] = 0 /\ boots \in Nat
  BY DEF Init, Payers
<1> QED
  BY <1>1, NothingPaid

LEMMA DuplicatesNext == TInv /\ DInv /\ [Next]_vars => DInv'
<1> SUFFICES ASSUME TInv, DInv, [Next]_vars,
                    NEW u \in Urls
             PROVE  Potential(audits[u], Payers(u), boots)'
  BY DEF DInv
<1>0. Syncs \subseteq Tasks /\ Cycles \subseteq Tasks /\ Cycles \intersect Forced = {}
      /\ u # NoUrl
  BY TasksAssumption DEF Tasks
<1>t. /\ pc \in [Tasks -> Steps] /\ todo \in [Tasks -> SUBSET Urls]
      /\ url \in [Tasks -> Urls \union {NoUrl}] /\ audits \in [Urls -> Nat] /\ boots \in Nat
      /\ TypeOK
  BY DEF TInv, TypeOK
<1>h. Holding
  BY DEF TInv
<1> USE <1>0, <1>t DEF Goto, Close, Proceed, Leave, Settle, EntryDone, Unsettled
<1>1. ASSUME NEW t \in Tasks, \/ Fetch(t) \/ FetchFails(t) \/ StoreValidators(t)
                              \/ StartCycle(t) \/ Finish(t) \/ CutShort(t)
      PROVE  Potential(audits[u], Payers(u), boots)'
  <2>1. Payers(u)' \subseteq Payers(u)
    BY <1>1 DEF Payers, MayStore, Fetch, FetchFails, StoreValidators, StartCycle, Finish,
                CutShort
  <2>2. UNCHANGED <<audits, boots>>
    BY <1>1 DEF Fetch, FetchFails, StoreValidators, StartCycle, Finish, CutShort
  <2> QED
    BY <2>1, <2>2, NoMorePayers
<1>2. ASSUME NEW t \in Cycles, Scan(t)
      PROVE  Potential(audits[u], Payers(u), boots)'
  <2>1. Payers(u)' \subseteq Payers(u) /\ UNCHANGED <<audits, boots>>
    BY <1>2 DEF Payers, MayStore, Scan
  <2> QED
    BY <2>1, NoMorePayers
<1>3. ASSUME NEW t \in Tasks, NextEntry(t)
      PROVE  Potential(audits[u], Payers(u), boots)'
  <2>1. Payers(u)' \subseteq Payers(u) /\ UNCHANGED <<audits, boots>>
    BY <1>3 DEF Payers, MayStore, NextEntry
  <2> QED
    BY <2>1, NoMorePayers
<1>4. ASSUME NEW t \in Tasks, LookUp(t) \/ Insert(t)
      PROVE  Potential(audits[u], Payers(u), boots)'
  <2>1. Payers(u)' \subseteq Payers(u) /\ UNCHANGED <<audits, boots>>
    BY <1>4 DEF Payers, MayStore, LookUp, Insert
  <2> QED
    BY <2>1, NoMorePayers
<1>5. ASSUME NEW t \in Tasks, Gate(t) \/ Capture(t) \/ AuditFails(t) \/ Mark(t)
                              \/ ReputationFails(t)
      PROVE  Potential(audits[u], Payers(u), boots)'
  <2>1. Payers(u)' \subseteq Payers(u) /\ UNCHANGED <<audits, boots>>
    BY <1>5 DEF Payers, MayStore, Gate, Capture, AuditFails, Mark, ReputationFails
  <2> QED
    BY <2>1, NoMorePayers
<1>6. ASSUME NEW t \in Tasks, Dedup(t)
      PROVE  Potential(audits[u], Payers(u), boots)'
  <2>1. UNCHANGED <<audits, boots>>
    BY <1>6 DEF Dedup
  <2>2. CASE audits[u] = 0
    <3>1. Payers(u)' \in SUBSET Tasks
      BY DEF Payers
    <3> QED
      BY <2>1, <2>2, <3>1, NothingPaid DEF Potential
  <2>3. CASE audits[u] # 0
    <3>1. Payers(u)' \subseteq Payers(u)
      BY <1>6, <2>3 DEF Payers, MayStore, Dedup
    <3> QED
      BY <2>1, <3>1, NoMorePayers
  <2> QED
    BY <2>2, <2>3
<1>7. ASSUME NEW t \in Tasks, Persist(t)
      PROVE  Potential(audits[u], Payers(u), boots)'
  <2>1. CASE url[t] = u
    <3>1. t \in Payers(u) /\ u \notin todo[t]
      BY <1>7, <1>h, <2>1 DEF Payers, MayStore, Persist, Holding
    <3>2. Payers(u)' \in SUBSET (Payers(u) \ {t})
      BY <1>7, <2>1, <3>1 DEF Payers, MayStore, Persist
    <3>3. audits'[u] = audits[u] + 1 /\ boots' = boots
      BY <1>7, <2>1 DEF Persist
    <3>4. Payers(u) \in SUBSET Tasks /\ Potential(audits[u], Payers(u), boots)
      BY DEF Payers, DInv
    <3>5. Potential(audits[u] + 1, Payers(u) \ {t}, boots)
      BY <3>1, <3>4, PayerPays
    <3>6. Potential(audits[u] + 1, Payers(u)', boots)
      BY <3>2, <3>4, <3>5, FewerPayers
    <3> QED
      BY <3>3, <3>6 DEF Potential
  <2>2. CASE url[t] # u
    <3>1. Payers(u)' \subseteq Payers(u) /\ audits'[u] = audits[u] /\ boots' = boots
      BY <1>7, <2>2 DEF Payers, MayStore, Persist
    <3>2. Payers(u)' \in SUBSET Payers(u) /\ Payers(u) \in SUBSET Tasks
          /\ Potential(audits[u], Payers(u), boots)
      BY <3>1 DEF Payers, DInv
    <3>3. Potential(audits[u], Payers(u)', boots)
      BY <3>2, FewerPayers
    <3> QED
      BY <3>1, <3>3 DEF Potential
  <2> QED
    BY <2>1, <2>2
<1>8. ASSUME NEW t \in Syncs, Poll(t)
      PROVE  Potential(audits[u], Payers(u), boots)'
  <2>1. CASE t \in Forced
    <3>1. Payers(u)' \in SUBSET (Payers(u) \union {t})
      BY <1>8, <2>1 DEF Payers, MayStore, Poll
    <3>2. UNCHANGED audits /\ boots' = boots + 1
      BY <1>8, <2>1 DEF Poll
    <3>3. Payers(u) \in SUBSET Tasks /\ Potential(audits[u], Payers(u), boots)
      BY DEF Payers, DInv
    <3>4. Potential(audits[u], Payers(u) \union {t}, boots + 1)
      BY <3>3, OneMorePayer
    <3>5. Payers(u) \union {t} \in SUBSET Tasks /\ audits[u] \in Nat /\ boots + 1 \in Nat
      BY <3>3
    <3>6. Potential(audits[u], Payers(u)', boots + 1)
      BY <3>1, <3>4, <3>5, FewerPayers
    <3> QED
      BY <3>2, <3>6 DEF Potential
  <2>2. CASE t \notin Forced
    <3>1. Payers(u)' \subseteq Payers(u) /\ UNCHANGED <<audits, boots>>
      BY <1>8, <2>2 DEF Payers, MayStore, Poll
    <3> QED
      BY <3>1, NoMorePayers
  <2> QED
    BY <2>1, <2>2
<1>9. ASSUME \/ \E listed \in SUBSET Urls : Publish(listed)
             \/ TokensChange \/ UNCHANGED vars
      PROVE  Potential(audits[u], Payers(u), boots)'
  <2>1. Payers(u)' \subseteq Payers(u) /\ UNCHANGED <<audits, boots>>
    BY <1>9 DEF Payers, MayStore, Publish, TokensChange, vars
  <2> QED
    BY <2>1, NoMorePayers
<1> QED
  BY <1>1, <1>2, <1>3, <1>4, <1>5, <1>6, <1>7, <1>8, <1>9 DEF Next, Sync, Cycle, Process

LEMMA PotentialBounds ==
  ASSUME NEW S \in SUBSET Tasks, NEW a \in Nat, NEW b \in Nat, Potential(a, S, b)
  PROVE  a <= Cardinality(Tasks) + b
BY CardinalityOfTasks DEF Potential

\* However tasks interleave, the audits stored for one article stay within one per task
\* and one per forced sync.
THEOREM DuplicatesHold == Spec => []DuplicatesBounded
<1>1. TInv /\ DInv => DuplicatesBounded
  <2> SUFFICES ASSUME TInv, DInv, NEW u \in Urls
               PROVE  audits[u] <= Cardinality(Tasks) + boots
    BY DEF DuplicatesBounded
  <2>1. audits[u] \in Nat /\ boots \in Nat /\ Payers(u) \in SUBSET Tasks
        /\ Potential(audits[u], Payers(u), boots)
    BY DEF TInv, TypeOK, DInv, Payers
  <2> QED
    BY <2>1, PotentialBounds
<1> QED
  BY <1>1, TypeInit, TypeNext, DuplicatesInit, DuplicatesNext, PTL DEF Spec

-----------------------------------------------------------------------------
\* The article is discovered, or in the hands of a sync.
Covered(u) ==
    \/ item[u] # "absent"
    \/ \E t \in Syncs : u \in todo[t] \/ (url[t] = u /\ pc[t] = "insert")

\* A sync that is about to store a version has the entries of that document to do.
StoresWhatItHolds(t) ==
    /\ pc[t] \in {"idle", "fetch"} => todo[t] = {}
    /\ pc[t] = "store" =>
        /\ known[t] <= feed.version
        /\ known[t] = feed.version => todo[t] = feed.urls

HInv ==
    /\ etag <= feed.version
    /\ \A t \in Syncs : StoresWhatItHolds(t)
    /\ ~cut /\ etag = feed.version => \A u \in feed.urls : Covered(u)

LEMMA HiddenInit == Init => HInv
BY DEF Init, HInv, StoresWhatItHolds, Tasks

\* A step that publishes and stores no version, and keeps what is covered.
LEMMA CoverKept ==
  ASSUME TInv, HInv, UNCHANGED <<feed, etag>>, cut => cut',
         \A t \in Syncs : StoresWhatItHolds(t)',
         ~cut' => \A u \in Urls : Covered(u) => Covered(u)'
  PROVE  HInv'
<1>1. feed.urls \subseteq Urls
  BY DEF TInv, TypeOK
<1> QED
  BY <1>1 DEF HInv

LEMMA HiddenNext == TInv /\ HInv /\ [Next]_vars => HInv'
<1> SUFFICES ASSUME TInv, HInv, [Next]_vars PROVE HInv'
  OBVIOUS
<1>0. Syncs \subseteq Tasks /\ Cycles \subseteq Tasks /\ Syncs \intersect Cycles = {}
      /\ NoUrl \notin Urls
  BY TasksAssumption DEF Tasks
<1>t. /\ pc \in [Tasks -> Steps] /\ todo \in [Tasks -> SUBSET Urls]
      /\ url \in [Tasks -> Urls \union {NoUrl}] /\ known \in [Tasks -> Versions]
      /\ item \in [Urls -> Statuses] /\ cut \in BOOLEAN
      /\ feed.urls \subseteq Urls /\ feed.version \in Int /\ etag \in Int
  BY TasksAssumption DEF TInv, TypeOK, Versions
<1>h. \A t \in Syncs : StoresWhatItHolds(t)
  BY DEF HInv
<1> USE <1>0, <1>t DEF Goto, Close, Proceed, Leave, Settle, EntryDone, Unsettled
<1>1. ASSUME NEW t \in Syncs, Poll(t) PROVE HInv'
  BY <1>1, <1>h, CoverKept DEF Poll, StoresWhatItHolds, Covered
<1>2. ASSUME NEW t \in Syncs, Fetch(t) \/ FetchFails(t) PROVE HInv'
  <2>1. todo[t] = {} /\ url[t] = NoUrl /\ pc[t] = "fetch"
    BY <1>2, <1>h DEF StoresWhatItHolds, Fetch, FetchFails, TInv, Holding, Early
  <2>2. \A r \in Syncs : StoresWhatItHolds(r)'
    BY <1>2, <1>h, <2>1 DEF Fetch, FetchFails, StoresWhatItHolds
  <2>3. \A u \in Urls : Covered(u) => Covered(u)'
    BY <1>2, <2>1 DEF Fetch, FetchFails, Covered
  <2> QED
    BY <1>2, <2>2, <2>3, CoverKept DEF Fetch, FetchFails
<1>3. ASSUME NEW t \in Syncs, StoreValidators(t) PROVE HInv'
  <2>1. \A r \in Syncs : StoresWhatItHolds(r)'
    BY <1>3, <1>h DEF StoreValidators, StoresWhatItHolds
  <2>2. /\ known[t] <= feed.version
        /\ known[t] = feed.version => todo[t] = feed.urls
    BY <1>3, <1>h DEF StoreValidators, StoresWhatItHolds
  <2>3. /\ etag' \in {known[t], etag}
        /\ UNCHANGED <<feed, todo, item, url, cut>>
        /\ \A r \in Syncs : pc[r] = "insert" => pc'[r] = "insert"
    BY <1>3 DEF StoreValidators
  <2> QED
    BY <2>1, <2>2, <2>3 DEF HInv, Covered
<1>4. ASSUME NEW t \in Cycles, StartCycle(t) \/ Scan(t) PROVE HInv'
  <2>1. \A r \in Syncs : StoresWhatItHolds(r)'
    BY <1>4, <1>h DEF StartCycle, Scan, StoresWhatItHolds
  <2>2. \A u \in Urls : Covered(u) => Covered(u)'
    BY <1>4 DEF StartCycle, Scan, Covered
  <2> QED
    BY <1>4, <2>1, <2>2, CoverKept DEF StartCycle, Scan
<1>5. ASSUME NEW t \in Tasks, NextEntry(t) PROVE HInv'
  <2>1. \A r \in Syncs : StoresWhatItHolds(r)'
    BY <1>5, <1>h DEF NextEntry, StoresWhatItHolds
  <2>2. ASSUME NEW u \in Urls, Covered(u) PROVE Covered(u)'
    <3>1. CASE item[u] # "absent"
      BY <1>5, <3>1 DEF NextEntry, Covered
    <3>2. CASE item[u] = "absent"
      <4>1. PICK r \in Syncs : u \in todo[r] \/ (url[r] = u /\ pc[r] = "insert")
        BY <2>2, <3>2 DEF Covered
      <4>2. u \in todo'[r] \/ (url'[r] = u /\ pc'[r] = "insert")
        BY <1>5, <3>2, <4>1 DEF NextEntry
      <4> QED
        BY <4>1, <4>2 DEF Covered
    <3> QED
      BY <3>1, <3>2
  <2> QED
    BY <1>5, <2>1, <2>2, CoverKept DEF NextEntry
<1>6. ASSUME NEW t \in Tasks, Finish(t) PROVE HInv'
  <2>1. \A r \in Syncs : StoresWhatItHolds(r)'
    BY <1>6, <1>h DEF Finish, StoresWhatItHolds
  <2>2. \A u \in Urls : Covered(u) => Covered(u)'
    BY <1>6 DEF Finish, Covered
  <2> QED
    BY <1>6, <2>1, <2>2, CoverKept DEF Finish
<1>7. ASSUME NEW t \in Tasks, Insert(t) PROVE HInv'
  <2>1. \A r \in Syncs : StoresWhatItHolds(r)'
    BY <1>7, <1>h DEF Insert, StoresWhatItHolds
  <2>2. ASSUME ~cut', NEW u \in Urls, Covered(u) PROVE Covered(u)'
    BY <1>7, <2>2 DEF Insert, Covered
  <2>3. UNCHANGED <<feed, etag>> /\ (cut => cut')
    BY <1>7 DEF Insert
  <2> QED
    BY <2>1, <2>2, <2>3, CoverKept
<1>8. ASSUME NEW t \in Tasks, \/ LookUp(t) \/ Dedup(t) \/ Gate(t) \/ Capture(t)
                              \/ Persist(t) \/ AuditFails(t) \/ Mark(t)
                              \/ ReputationFails(t)
      PROVE  HInv'
  <2>1. \A r \in Syncs : StoresWhatItHolds(r)'
    BY <1>8, <1>h DEF LookUp, Dedup, Gate, Capture, Persist, AuditFails, Mark,
                      ReputationFails, StoresWhatItHolds
  <2>2. ASSUME NEW u \in Urls, Covered(u) PROVE Covered(u)'
    BY <1>8, <2>2 DEF LookUp, Dedup, Gate, Capture, Persist, AuditFails, Mark,
                     ReputationFails, Covered
  <2>3. UNCHANGED <<feed, etag, cut>>
    BY <1>8 DEF LookUp, Dedup, Gate, Capture, Persist, AuditFails, Mark, ReputationFails
  <2> QED
    BY <2>1, <2>2, <2>3, CoverKept
<1>9. ASSUME NEW t \in Tasks, CutShort(t) PROVE HInv'
  <2>1. \A r \in Syncs : StoresWhatItHolds(r)'
    BY <1>9, <1>h DEF CutShort, StoresWhatItHolds
  <2> QED
    BY <1>9, <2>1, CoverKept DEF CutShort
<1>10. ASSUME NEW listed \in SUBSET Urls, Publish(listed) PROVE HInv'
  BY <1>10, <1>h DEF Publish, HInv, StoresWhatItHolds, Versions, TInv, TypeOK
<1>11. CASE TokensChange \/ UNCHANGED vars
  BY <1>11, <1>h, CoverKept DEF TokensChange, vars, StoresWhatItHolds, Covered
<1> QED
  BY <1>1, <1>2, <1>3, <1>4, <1>5, <1>6, <1>7, <1>8, <1>9, <1>10, <1>11
  DEF Next, Sync, Cycle, Process

\* A 304 hides nothing: while no task is cut short, the entries of the stored version are
\* all discovered or in the hands of a sync.
THEOREM NothingIsHidden == Spec => []NothingHidden
<1>1. TInv /\ HInv => NothingHidden
  BY DEF HInv, NothingHidden, Covered
<1> QED
  BY <1>1, TypeInit, TypeNext, HiddenInit, HiddenNext, PTL DEF Spec
=============================================================================
