--------------------------- MODULE AuditStore_proof ---------------------------
(***************************************************************************)
(* Proofs about AuditStore.                                                *)
(***************************************************************************)
EXTENDS Reports, FiniteSetTheorems, SequenceTheorems, WellFoundedInduction, TLAPS

Fields == {"at", "kind", "url", "content", "snap", "audit", "verdict", "method", "todo", "old", "count"}
RowFields == {"snap", "content", "verdict", "by", "method", "preserved", "adopted", "stored"}
Adoption == {"pack", "seed"}

IsSeq(s) == Len(s) \in Nat /\ s = [n \in 1..Len(s) |-> s[n]]

\* What the tables and the tasks look like.
Shape ==
    /\ DOMAIN task = Tasks /\ \A t \in Tasks : DOMAIN task[t] = Fields
    /\ IsSeq(snapshots) /\ IsSeq(audits)
    /\ \A i \in DOMAIN audits : DOMAIN audits[i] = RowFields
    /\ DOMAIN items = Urls

Complete(i) == \A r \in audits[i].verdict.rules : <<r, audits[i].by>> \in audits[i].stored
HasSnapshot(c) == \E s \in DOMAIN snapshots : snapshots[s].content = c
HasAudit(u) == \E c \in Shows[u] : \E i \in DOMAIN audits : audits[i].content = c

\* An audit is of a snapshot, and one that was adopted of a content that has one.
RowInv(i) ==
    /\ audits[i].snap \in DOMAIN snapshots
    /\ audits[i].adopted => HasSnapshot(audits[i].content)
RowsInv == \A i \in DOMAIN audits : RowInv(i)

\* What a writer knows at each of its steps, whatever the others did since it read.
TaskInv(t) ==
    LET w == task[t] IN
    /\ w.kind \in Adoption => t \in Adopters
    /\ w.at = "check" => w.kind \in Adoption
    /\ w.at \in {"snap", "seek", "audit"} /\ w.method \in Adoption => w.kind = w.method
    /\ w.at \in {"find", "persist"} => w.method \notin Adoption
    /\ w.at \in {"seek", "item"} => w.kind = "seed"
    /\ w.at \in {"seek", "audit"} /\ w.method \in Adoption => HasSnapshot(w.content)
    /\ w.at \in {"seek", "audit", "violations", "item"} => w.snap \in DOMAIN snapshots
    /\ w.at = "persist" => w.snap = 0 \/ w.snap \in DOMAIN snapshots
    /\ w.at \in {"violations", "item"} => w.audit \in DOMAIN audits /\ audits[w.audit].snap = w.snap
    /\ w.at = "violations" => \/ audits[w.audit].by = t /\ audits[w.audit].verdict = w.verdict
                              \/ Complete(w.audit)
    /\ w.kind = "seed" /\ w.at \in {"lookup", "evaluate", "find", "persist"} => w.content \in Shows[w.url]
    /\ w.at = "mark" => HasAudit(w.url)
TasksInv == \A t \in Tasks : TaskInv(t)

\* The audits of a content that were adopted, and the writers about to adopt it.
AdoptedRows(c) == {i \in DOMAIN audits : audits[i].content = c /\ audits[i].adopted}
Adopting(c) ==
    {t \in Tasks : /\ task[t].content = c
                   /\ \/ task[t].method = "pack" /\ task[t].at \in {"snap", "audit"}
                      \/ task[t].method = "seed" /\ task[t].at = "audit"}
Balance == \A c \in Contents : Cardinality(AdoptedRows(c)) + Cardinality(Adopting(c)) <= Cardinality(Adopters)

IInv == Shape /\ RowsInv /\ TasksInv /\ CompleteUnlessCut /\ SettledItemsHaveAudits /\ Balance

-----------------------------------------------------------------------------
LEMMA SeqShape == ASSUME NEW S, NEW q \in Seq(S) PROVE IsSeq(q)
  BY LenProperties DEF IsSeq

LEMMA AppendShape ==
    ASSUME NEW s, NEW e, IsSeq(s)
    PROVE  /\ IsSeq(Append(s, e)) /\ Len(Append(s, e)) = Len(s) + 1
           /\ DOMAIN s = 1..Len(s) /\ DOMAIN Append(s, e) = 1..(Len(s) + 1)
           /\ \A n \in DOMAIN s : Append(s, e)[n] = s[n]
           /\ Append(s, e)[Len(s) + 1] = e
<1> DEFINE S == {s[n] : n \in 1..Len(s)} \cup {e}
<1>1. s \in Seq(S)
  BY DEF IsSeq
<1>2. e \in S
  OBVIOUS
<1>3. /\ Append(s, e) \in Seq(S) /\ Len(Append(s, e)) = Len(s) + 1 /\ Len(s) \in Nat
      /\ DOMAIN s = 1..Len(s) /\ DOMAIN Append(s, e) = 1..(Len(s) + 1)
      /\ \A n \in 1..Len(s) : Append(s, e)[n] = s[n]
      /\ Append(s, e)[Len(s) + 1] = e
  BY <1>1, <1>2
<1>4. IsSeq(Append(s, e))
  BY <1>3, SeqShape
<1> QED BY <1>3, <1>4

\* A step of a task leaves the other tasks alone and assigns the fields it names.
LEMMA SetFacts ==
    ASSUME NEW t \in Tasks, Shape, NEW values, Set(t, values), DOMAIN values \subseteq Fields
    PROVE  /\ DOMAIN task' = Tasks
           /\ \A u \in Tasks \ {t} : task'[u] = task[u]
           /\ DOMAIN task'[t] = Fields
           /\ \A f \in DOMAIN values : task'[t][f] = values[f]
           /\ \A f \in Fields \ DOMAIN values : task'[t][f] = task[t][f]
  BY DEF Set, With, Shape

\* What every step of a writer leaves alone: the other writers, and of the tables what is there;
\* an audit may get another verdict, but then with its violations.
Alone(t) == \A u \in Tasks \ {t} : task'[u] = task[u]
Grow ==
    /\ \A s \in DOMAIN snapshots : s \in DOMAIN snapshots' /\ snapshots'[s] = snapshots[s]
    /\ \A i \in DOMAIN audits :
         /\ i \in DOMAIN audits'
         /\ audits'[i].snap = audits[i].snap /\ audits'[i].content = audits[i].content
         /\ Complete(i) => Complete(i)'
         /\ Complete(i)' \/ (audits'[i].by = audits[i].by /\ audits'[i].verdict = audits[i].verdict)

LEMMA GrowUnchanged == UNCHANGED <<snapshots, audits>> => Grow
  BY DEF Grow, Complete

LEMMA OthersKeep ==
    ASSUME NEW u, TaskInv(u), Grow, task'[u] = task[u] PROVE TaskInv(u)'
<1>1. \A c : HasSnapshot(c) => HasSnapshot(c)'
  BY DEF Grow, HasSnapshot
<1>2. \A v : HasAudit(v) => HasAudit(v)'
  BY DEF Grow, HasAudit
<1> QED BY <1>1, <1>2 DEF TaskInv, Grow, Adopters

LEMMA RowsKept ==
    ASSUME RowsInv, UNCHANGED <<snapshots, audits>> PROVE RowsInv'
  BY DEF RowsInv, RowInv, HasSnapshot

LEMMA SettledKept ==
    ASSUME Shape, SettledItemsHaveAudits, RowsInv, Grow, NEW u \in Urls, items'[u] = items[u],
           items'[u] \in {"audited", "mesh_adopted"}
    PROVE  OfUrl(u)' # {} \/ \E c \in Shows[u] : Ids(c)' # {}
<1>1. OfUrl(u) # {} => OfUrl(u)' # {}
  BY DEF OfUrl, Grow, RowsInv, RowInv
<1>2. \A c : Ids(c) # {} => Ids(c)' # {}
  BY DEF Ids, Grow
<1> QED BY <1>1, <1>2 DEF SettledItemsHaveAudits

LEMMA Finite == IInv => \A c : IsFiniteSet(AdoptedRows(c)) /\ IsFiniteSet(Adopting(c)) /\ IsFiniteSet(Adopters)
<1> SUFFICES ASSUME IInv, NEW c PROVE IsFiniteSet(AdoptedRows(c)) /\ IsFiniteSet(Adopting(c)) /\ IsFiniteSet(Adopters)
  OBVIOUS
<1>1. DOMAIN audits = 1..Len(audits) /\ Len(audits) \in Nat
  BY DEF IInv, Shape, IsSeq
<1>2. IsFiniteSet(DOMAIN audits)
  BY <1>1, FS_Interval
<1>3. AdoptedRows(c) \subseteq DOMAIN audits /\ Adopting(c) \subseteq Tasks /\ Adopters \subseteq Tasks
  BY DEF AdoptedRows, Adopting, Adopters
<1> QED BY <1>2, <1>3, FS_Subset, AuditStoreAssumption

LEMMA AdoptingAreAdopters == ASSUME TasksInv, NEW c PROVE Adopting(c) \subseteq Adopters
  BY DEF TasksInv, TaskInv, Adopting, Adoption

LEMMA BalanceKept ==
    ASSUME IInv, NEW c \in Contents, Adopting(c)' \subseteq Adopters,
           \/ AdoptedRows(c)' \subseteq AdoptedRows(c) /\ Adopting(c)' \subseteq Adopting(c)
           \/ AdoptedRows(c)' = {}
    PROVE  Cardinality(AdoptedRows(c)') + Cardinality(Adopting(c)') <= Cardinality(Adopters)
<1>1. /\ IsFiniteSet(AdoptedRows(c)) /\ IsFiniteSet(Adopting(c)) /\ IsFiniteSet(Adopters)
      /\ Cardinality(AdoptedRows(c)) + Cardinality(Adopting(c)) <= Cardinality(Adopters)
  BY Finite DEF IInv, Balance
<1>2. /\ Cardinality(Adopting(c)') <= Cardinality(Adopters) /\ Cardinality(Adopters) \in Nat
      /\ Cardinality(Adopting(c)') \in Nat
  BY <1>1, FS_Subset, FS_CardinalityType
<1>3. CASE AdoptedRows(c)' = {}
  BY <1>2, <1>3, FS_EmptySet
<1>4. CASE AdoptedRows(c)' \subseteq AdoptedRows(c) /\ Adopting(c)' \subseteq Adopting(c)
  <2>1. /\ Cardinality(AdoptedRows(c)') <= Cardinality(AdoptedRows(c))
        /\ Cardinality(Adopting(c)') <= Cardinality(Adopting(c))
        /\ Cardinality(AdoptedRows(c)') \in Nat /\ Cardinality(AdoptedRows(c)) \in Nat
        /\ Cardinality(Adopting(c)) \in Nat
    BY <1>1, <1>4, FS_Subset, FS_CardinalityType
  <2> QED BY <1>1, <1>2, <2>1
<1> QED BY <1>3, <1>4
-----------------------------------------------------------------------------
\* The ids a writer picks among those it read are ids.
LEMMA Least == ASSUME NEW S \in SUBSET Nat, IsFiniteSet(S), S # {} PROVE Min(S) \in S
<1> DEFINE Below(x) == {y \in S : y < x}
           All == {Below(x) : x \in S}
           Order == StrictSubsetOrdering(S)
<1>1. IsWellFoundedOn(Order, SUBSET S)
  BY FS_StrictSubsetOrderingWellFounded, FS_FiniteSubsetsOfFinite
<1>2. All \subseteq SUBSET S /\ All # {}
  OBVIOUS
<1>3. PICK A \in All : \A B \in All : ~ (<<B, A>> \in Order)
  <2> HIDE DEF All, Order
  <2> QED BY <1>1, <1>2, WFMin
<1>4. PICK x \in S : A = Below(x)
  BY <1>3
<1>5. ASSUME NEW y \in S, y < x PROVE FALSE
  <2>0. x \in Int /\ y \in Int /\ \A z \in S : z \in Int
    OBVIOUS
  <2>1. ASSUME NEW z \in S, z < y PROVE z < x
    BY <1>5, <2>0, <2>1
  <2>a. Below(y) \subseteq Below(x)
    BY <2>1
  <2>2. y \in Below(x) /\ y \notin Below(y)
    BY <1>5, <2>0
  <2>3. <<Below(y), Below(x)>> \in Order
    BY <2>a, <2>2 DEF StrictSubsetOrdering
  <2> QED BY <1>3, <1>4, <2>3
<1>6. \A y \in S : x <= y
  BY <1>5
<1> QED BY <1>6 DEF Min

LEMMA Greatest ==
    ASSUME NEW S \in SUBSET Nat, IsFiniteSet(S), S # {}
    PROVE  Max(S) \in S /\ \A y \in S : Max(S) >= y
<1> DEFINE Above(x) == {y \in S : y > x}
           All == {Above(x) : x \in S}
           Order == StrictSubsetOrdering(S)
<1>1. IsWellFoundedOn(Order, SUBSET S)
  BY FS_StrictSubsetOrderingWellFounded, FS_FiniteSubsetsOfFinite
<1>2. All \subseteq SUBSET S /\ All # {}
  OBVIOUS
<1>3. PICK A \in All : \A B \in All : ~ (<<B, A>> \in Order)
  <2> HIDE DEF All, Order
  <2> QED BY <1>1, <1>2, WFMin
<1>4. PICK x \in S : A = Above(x)
  BY <1>3
<1>5. ASSUME NEW y \in S, y > x PROVE FALSE
  <2>0. x \in Int /\ y \in Int /\ \A z \in S : z \in Int
    OBVIOUS
  <2>1. ASSUME NEW z \in S, z > y PROVE z > x
    BY <1>5, <2>0, <2>1
  <2>a. Above(y) \subseteq Above(x)
    BY <2>1
  <2>2. y \in Above(x) /\ y \notin Above(y)
    BY <1>5, <2>0
  <2>3. <<Above(y), Above(x)>> \in Order
    BY <2>a, <2>2 DEF StrictSubsetOrdering
  <2> QED BY <1>3, <1>4, <2>3
<1>6. \A y \in S : x >= y
  BY <1>5
<1> QED BY <1>6 DEF Max
LEMMA Picked ==
    ASSUME Shape, NEW S \in SUBSET DOMAIN snapshots, S # {}
    PROVE  Min(S) \in DOMAIN snapshots /\ Max(S) \in DOMAIN snapshots
<1>1. DOMAIN snapshots = 1..Len(snapshots) /\ Len(snapshots) \in Nat
  BY DEF Shape, IsSeq
<1>2. IsFiniteSet(1..Len(snapshots))
  BY <1>1, FS_Interval
<1>3. IsFiniteSet(S)
  BY <1>1, <1>2, FS_Subset
<1>4. S \in SUBSET Nat
  BY <1>1
<1> QED BY <1>3, <1>4, Least, Greatest

-----------------------------------------------------------------------------
\* A step that writes none of the tables, and one that lets no writer adopt what is adopted.
Local(t) ==
    /\ UNCHANGED <<snapshots, audits>> /\ Alone(t)
    /\ DOMAIN task' = Tasks /\ DOMAIN task'[t] = Fields /\ DOMAIN items' = Urls
    /\ TaskInv(t)'
Joins(t) == \A c : t \in Adopting(c)' => t \in Adopting(c) \/ AdoptedRows(c) = {}

LEMMA NextAttestationStep ==
    ASSUME IInv, NEW t \in Tasks, NextAttestation(t), task[t].kind \in Adoption
    PROVE  /\ DOMAIN task' = Tasks /\ DOMAIN task'[t] = Fields /\ Alone(t)
           /\ task'[t].kind \in {task[t].kind, "none"} /\ task'[t].at \in {"check", "burst", "idle"}
           /\ task'[t].at = "check" => task'[t].kind = task[t].kind
  BY DEF IInv, Shape, NextAttestation, Idle, Fields, Alone

LEMMA AnsweredStep ==
    ASSUME IInv, NEW t \in Tasks, Answered(t)
    PROVE  /\ DOMAIN task' = Tasks /\ DOMAIN task'[t] = Fields /\ Alone(t)
           /\ \/ task'[t].at = "mark" /\ task'[t].url = task[t].url /\ task[t].kind = "seed"
                 /\ task'[t].kind = task[t].kind
              \/ task'[t].at = "idle" /\ task'[t].kind = "none"
  BY DEF IInv, Shape, Answered, Idle, Fields, Alone

LEMMA AskStep == ASSUME IInv, NEW t \in Tasks, NEW u \in Urls, Ask(t, u) PROVE Local(t) /\ Joins(t)
<1>1. PICK k \in Kinds[t] \cap {"audit", "forced"}, c \in Shows[u] :
           Set(t, [at |-> "lookup", kind |-> k, url |-> u, content |-> c])
  BY DEF Ask
<1>2. /\ DOMAIN task' = Tasks /\ DOMAIN task'[t] = Fields /\ Alone(t)
      /\ task'[t].at = "lookup" /\ task'[t].kind = k
  BY <1>1, SetFacts DEF IInv, Fields, Alone
<1>3. UNCHANGED <<tables, items>>
  BY DEF Ask
<1>4. TaskInv(t)'
  BY <1>2 DEF TaskInv, Adoption
<1> QED BY <1>2, <1>3, <1>4 DEF Local, Joins, Adopting, IInv, Shape, tables

LEMMA PasteStep == ASSUME IInv, NEW t \in Tasks, NEW c \in Contents, Paste(t, c) PROVE Local(t) /\ Joins(t)
<1>1. Set(t, [at |-> "evaluate", kind |-> "text", url |-> Inline, content |-> c]) /\ UNCHANGED <<tables, items>>
  BY DEF Paste
<1>2. /\ DOMAIN task' = Tasks /\ DOMAIN task'[t] = Fields /\ Alone(t)
      /\ task'[t].at = "evaluate" /\ task'[t].kind = "text"
  BY <1>1, SetFacts DEF IInv, Fields, Alone
<1>4. TaskInv(t)'
  BY <1>2 DEF TaskInv, Adoption
<1> QED BY <1>1, <1>2, <1>4 DEF Local, Joins, Adopting, IInv, Shape, tables

LEMMA SubmitStep == ASSUME IInv, NEW t \in Tasks, NEW s \in Submissions, Submit(t, s) PROVE Local(t) /\ Joins(t)
<1> DEFINE known == {i \in DOMAIN snapshots : snapshots[i].url = s.url}
<1>1. /\ UNCHANGED <<tables, items>>
      /\ Set(t, [at |-> IF known = {} THEN "snap" ELSE "audit", kind |-> "submit", url |-> s.url,
                 content |-> s.content, verdict |-> s.verdict, method |-> s.method,
                 snap |-> IF known = {} THEN 0 ELSE Max(known)])
  BY DEF Submit
<1>2. /\ DOMAIN task' = Tasks /\ DOMAIN task'[t] = Fields /\ Alone(t)
      /\ task'[t].at = IF known = {} THEN "snap" ELSE "audit"
      /\ task'[t].kind = "submit" /\ task'[t].method = s.method
      /\ task'[t].snap = IF known = {} THEN 0 ELSE Max(known)
  <2> HIDE DEF known
  <2> QED BY <1>1, SetFacts DEF IInv, Fields, Alone
<1>3. known # {} => Max(known) \in DOMAIN snapshots
  BY Picked DEF IInv
<1>4. s.method \notin Adoption
  BY AuditStoreAssumption DEF Adoption
<1>5. TaskInv(t)'
  <2> HIDE DEF known
  <2> QED BY <1>1, <1>2, <1>3, <1>4 DEF TaskInv, Adoption, tables
<1> QED BY <1>1, <1>2, <1>4, <1>5 DEF Local, Joins, Adopting, IInv, Shape, tables, Adoption

LEMMA ImportStep == ASSUME IInv, NEW t \in Tasks, Import(t) PROVE Local(t) /\ Joins(t)
<1>1. PICK k \in Kinds[t] \cap {"pack", "seed"} : Set(t, [at |-> "check", kind |-> k, todo |-> Pack])
  BY DEF Import
<1>2. /\ DOMAIN task' = Tasks /\ DOMAIN task'[t] = Fields /\ Alone(t)
      /\ task'[t].at = "check" /\ task'[t].kind = k
  BY <1>1, SetFacts DEF IInv, Fields, Alone
<1>3. UNCHANGED <<tables, items>>
  BY DEF Import
<1>4. TaskInv(t)'
  BY <1>2 DEF TaskInv, Adoption, Adopters
<1> QED BY <1>2, <1>3, <1>4 DEF Local, Joins, Adopting, IInv, Shape, tables

LEMMA SweepStep == ASSUME IInv, NEW t \in Tasks, Sweep(t) PROVE Local(t) /\ Joins(t)
<1>1. Set(t, [at |-> "rescore", kind |-> "sweep", todo |-> Oldest]) /\ UNCHANGED <<tables, items>>
  BY DEF Sweep
<1>2. /\ DOMAIN task' = Tasks /\ DOMAIN task'[t] = Fields /\ Alone(t)
      /\ task'[t].at = "rescore" /\ task'[t].kind = "sweep"
  BY <1>1, SetFacts DEF IInv, Fields, Alone
<1>4. TaskInv(t)'
  BY <1>2 DEF TaskInv, Adoption
<1> QED BY <1>1, <1>2, <1>4 DEF Local, Joins, Adopting, IInv, Shape, tables
LEMMA LookupStep == ASSUME IInv, NEW t \in Tasks, Lookup(t) PROVE Local(t) /\ Joins(t)
<1>1. UNCHANGED <<tables, items>> /\ task[t].at = "lookup" /\ TaskInv(t)
  BY DEF Lookup, IInv, TasksInv
<1>2. CASE Answered(t) /\ Ids(task[t].content) # {}
  <2>1. TaskInv(t)'
    <3>1. task'[t].at = "mark" => HasAudit(task[t].url)
      BY <1>1, <1>2, AnsweredStep DEF TaskInv, HasAudit, Ids
    <3> QED BY <1>1, <1>2, AnsweredStep, <3>1 DEF TaskInv, Adoption, HasAudit, tables
  <2> QED BY <1>1, <1>2, <2>1, AnsweredStep DEF Local, Joins, Adopting, IInv, Shape, tables
<1>3. CASE Goto(t, "evaluate")
  <2>1. /\ DOMAIN task' = Tasks /\ DOMAIN task'[t] = Fields /\ Alone(t)
        /\ task'[t].at = "evaluate" /\ task'[t].kind = task[t].kind
        /\ task'[t].content = task[t].content /\ task'[t].url = task[t].url
    BY <1>3, SetFacts DEF IInv, Fields, Alone, Goto
  <2>2. TaskInv(t)'
    BY <1>1, <2>1 DEF TaskInv, Adoption, Adopters
  <2> QED BY <1>1, <2>1, <2>2 DEF Local, Joins, Adopting, IInv, Shape, tables
<1> QED BY <1>2, <1>3 DEF Lookup
LEMMA EvaluateStep == ASSUME IInv, NEW t \in Tasks, Evaluate(t) PROVE Local(t) /\ Joins(t)
<1> DEFINE then == IF task[t].kind = "text" THEN "snap" ELSE "find"
<1>1. UNCHANGED <<tables, items>> /\ task[t].at = "evaluate" /\ TaskInv(t)
  BY DEF Evaluate, IInv, TasksInv
<1>2. PICK m \in {"llm", "offline"} : \E v : Set(t, [at |-> then, verdict |-> v, method |-> m])
  BY DEF Evaluate
<1>3. /\ DOMAIN task' = Tasks /\ DOMAIN task'[t] = Fields /\ Alone(t)
      /\ task'[t].at = then /\ task'[t].kind = task[t].kind /\ task'[t].method = m
      /\ task'[t].content = task[t].content /\ task'[t].url = task[t].url
  <2> HIDE DEF then
  <2> QED BY <1>2, SetFacts DEF IInv, Fields, Alone
<1>4. m \notin Adoption
  BY DEF Adoption
<1>5. TaskInv(t)'
  BY <1>1, <1>3, <1>4 DEF TaskInv, Adopters
<1> QED BY <1>1, <1>3, <1>4, <1>5 DEF Local, Joins, Adopting, IInv, Shape, tables, Adoption

LEMMA FindStep == ASSUME IInv, NEW t \in Tasks, Find(t) PROVE Local(t) /\ Joins(t)
<1> DEFINE known == Captures(task[t].content)
<1>1. UNCHANGED <<tables, items>> /\ task[t].at = "find" /\ TaskInv(t)
  BY DEF Find, IInv, TasksInv
<1>2. Set(t, [at |-> "persist", snap |-> IF known = {} THEN 0 ELSE Min(known)])
  BY DEF Find
<1>3. known # {} => Min(known) \in DOMAIN snapshots
  BY Picked DEF IInv, Captures
<1>4. /\ DOMAIN task' = Tasks /\ DOMAIN task'[t] = Fields /\ Alone(t)
      /\ task'[t].at = "persist" /\ task'[t].kind = task[t].kind /\ task'[t].method = task[t].method
      /\ task'[t].snap = IF known = {} THEN 0 ELSE Min(known)
      /\ task'[t].content = task[t].content /\ task'[t].url = task[t].url
  <2> HIDE DEF known
  <2> QED BY <1>2, SetFacts DEF IInv, Fields, Alone
<1>5. TaskInv(t)'
  <2> HIDE DEF known
  <2> QED BY <1>1, <1>3, <1>4 DEF TaskInv, Adopters, tables
<1> QED BY <1>1, <1>4, <1>5 DEF Local, Joins, Adopting, IInv, Shape, tables

LEMMA HoldFacts ==
    ASSUME IInv, NEW t \in Tasks, NEW step, NEW snap, Hold(t, step, snap)
    PROVE  /\ DOMAIN task' = Tasks /\ DOMAIN task'[t] = Fields /\ Alone(t)
           /\ task'[t].at = step /\ task'[t].kind = task[t].kind /\ task'[t].method = task[t].kind
           /\ task'[t].snap = snap /\ task'[t].content = Head(task[t].todo).content
  BY SetFacts DEF IInv, Fields, Alone, Hold

LEMMA CheckStep == ASSUME IInv, NEW t \in Tasks, Check(t) PROVE Local(t) /\ Joins(t)
<1> PICK c : c = Head(task[t].todo).content
  OBVIOUS
<1> DEFINE known == Captures(c)
<1>1. /\ UNCHANGED <<tables, items>> /\ task[t].at = "check" /\ TaskInv(t)
      /\ task[t].kind \in Adoption
  BY DEF Check, IInv, TasksInv, TaskInv
<1>2. CASE known = {} /\ Hold(t, "snap", 0)
  <2>1. /\ DOMAIN task' = Tasks /\ DOMAIN task'[t] = Fields /\ Alone(t)
        /\ task'[t].at = "snap" /\ task'[t].kind = task[t].kind /\ task'[t].method = task[t].kind
        /\ task'[t].content = c
    BY <1>2, HoldFacts
  <2>2. TaskInv(t)'
    BY <1>1, <2>1 DEF TaskInv, Adopters, Adoption
  <2>3. AdoptedRows(c) = {}
    BY <1>2 DEF AdoptedRows, Captures, IInv, RowsInv, RowInv, HasSnapshot
  <2>4. Joins(t)
    BY <2>1, <2>3 DEF Joins, Adopting
  <2> QED BY <1>1, <2>1, <2>2, <2>4 DEF Local, IInv, Shape, tables
<1>3. CASE NextAttestation(t)
  <2>1. TaskInv(t)'
    BY <1>1, <1>3, NextAttestationStep DEF TaskInv, Adoption, Adopters
  <2> QED BY <1>1, <1>3, <2>1, NextAttestationStep DEF Local, Joins, Adopting, IInv, Shape, tables
<1>4. CASE known # {} /\ task[t].kind # "pack" /\ Hold(t, "seek", Min(known))
  <2>1. /\ DOMAIN task' = Tasks /\ DOMAIN task'[t] = Fields /\ Alone(t)
        /\ task'[t].at = "seek" /\ task'[t].kind = task[t].kind /\ task'[t].method = task[t].kind
        /\ task'[t].content = c /\ task'[t].snap = Min(known)
    BY <1>4, HoldFacts
  <2>2. Min(known) \in DOMAIN snapshots /\ HasSnapshot(c) /\ task[t].kind = "seed"
    BY <1>1, <1>4, Picked DEF IInv, Captures, HasSnapshot, Adoption
  <2>3. HasSnapshot(c)' /\ DOMAIN snapshots' = DOMAIN snapshots
    BY <1>1, <2>2 DEF HasSnapshot, tables
  <2>4. TaskInv(t)'
    BY <1>1, <2>1, <2>2, <2>3 DEF TaskInv, Adopters, Adoption
  <2> QED BY <1>1, <2>1, <2>2, <2>4 DEF Local, IInv, Shape, tables, Joins, Adopting
<1> QED BY <1>2, <1>3, <1>4 DEF Check

LEMMA SeekStep == ASSUME IInv, NEW t \in Tasks, Seek(t) PROVE Local(t) /\ Joins(t)
<1>1. UNCHANGED <<tables, items>> /\ task[t].at = "seek" /\ TaskInv(t) /\ task[t].kind = "seed"
  BY DEF Seek, IInv, TasksInv, TaskInv
<1>2. CASE NextAttestation(t)
  <2>1. TaskInv(t)'
    BY <1>1, <1>2, NextAttestationStep DEF TaskInv, Adoption, Adopters
  <2> QED BY <1>1, <1>2, <2>1, NextAttestationStep DEF Local, Joins, Adopting, IInv, Shape, tables, Adoption
<1>3. CASE Ids(task[t].content) = {} /\ Goto(t, "audit")
  <2>1. /\ DOMAIN task' = Tasks /\ DOMAIN task'[t] = Fields /\ Alone(t)
        /\ task'[t].at = "audit" /\ task'[t].kind = task[t].kind /\ task'[t].method = task[t].method
        /\ task'[t].content = task[t].content /\ task'[t].snap = task[t].snap
    BY <1>3, SetFacts DEF IInv, Fields, Alone, Goto
  <2>2. TaskInv(t)'
    BY <1>1, <2>1 DEF TaskInv, Adopters, Adoption, HasSnapshot, tables
  <2>3. AdoptedRows(task[t].content) = {}
    BY <1>3 DEF AdoptedRows, Ids
  <2>4. Joins(t)
    BY <2>1, <2>3 DEF Joins, Adopting
  <2> QED BY <1>1, <2>1, <2>2, <2>4 DEF Local, IInv, Shape, tables
<1> QED BY <1>2, <1>3 DEF Seek
\* A step settles an item only with an audit that is there.
Settles == \A u \in Urls : \/ items'[u] = items[u]
                            \/ items'[u] \notin {"audited", "mesh_adopted"}
                            \/ OfUrl(u) # {} \/ \E c \in Shows[u] : Ids(c) # {}

LEMMA CommitItemStep == ASSUME IInv, NEW t \in Tasks, CommitItem(t) PROVE Local(t) /\ Joins(t) /\ Settles
<1>1. /\ UNCHANGED tables /\ task[t].at = "item" /\ TaskInv(t) /\ task[t].kind = "seed" /\ NextAttestation(t)
      /\ task[t].audit \in DOMAIN audits /\ audits[task[t].audit].snap = task[t].snap
  BY DEF CommitItem, IInv, TasksInv, TaskInv
<1>2. DOMAIN items' = Urls
  BY DEF CommitItem, IInv, Shape
<1>3. Settles
  <2> PICK v : v = snapshots[task[t].snap].url
    OBVIOUS
  <2>1. OfUrl(v) # {}
    BY <1>1 DEF OfUrl
  <2>2. \A u \in Urls : items'[u] = items[u] \/ u = v
    BY DEF CommitItem, IInv, Shape
  <2> QED BY <2>1, <2>2 DEF Settles
<1>4. TaskInv(t)'
  BY <1>1, NextAttestationStep DEF TaskInv, Adoption, Adopters
<1> QED BY <1>1, <1>2, <1>3, <1>4, NextAttestationStep DEF Local, Joins, Adopting, tables, Adoption

LEMMA MarkStep == ASSUME IInv, NEW t \in Tasks, Mark(t) PROVE Local(t) /\ Joins(t) /\ Settles
<1>1. UNCHANGED tables /\ task[t].at = "mark" /\ TaskInv(t) /\ HasAudit(task[t].url)
  BY DEF Mark, IInv, TasksInv, TaskInv
<1>2. DOMAIN items' = Urls /\ \A u \in Urls : items'[u] = items[u] \/ u = task[t].url
  BY DEF Mark, IInv, Shape
<1>3. Settles
  BY <1>1, <1>2 DEF Settles, HasAudit, Ids
<1>4. /\ DOMAIN task' = Tasks /\ DOMAIN task'[t] = Fields /\ Alone(t)
      /\ task'[t].at = "burst" /\ task'[t].kind = task[t].kind
  BY SetFacts DEF IInv, Fields, Alone, Mark
<1>5. TaskInv(t)'
  BY <1>1, <1>4 DEF TaskInv, Adoption, Adopters
<1> QED BY <1>1, <1>2, <1>3, <1>4, <1>5 DEF Local, Joins, Adopting, tables

LEMMA AuditFailsStep == ASSUME IInv, NEW t \in Tasks, AuditFails(t) PROVE Local(t) /\ Joins(t) /\ Settles
<1>1. UNCHANGED tables /\ TaskInv(t)
  BY DEF AuditFails, IInv, TasksInv
<1>2. DOMAIN items' = Urls /\ \A u \in Urls : items'[u] = items[u] \/ items'[u] = "error"
  BY DEF AuditFails, IInv, Shape
<1>3. Settles
  BY <1>2 DEF Settles
<1>4. /\ DOMAIN task' = Tasks /\ DOMAIN task'[t] = Fields /\ Alone(t)
      /\ task'[t].at = "burst" /\ task'[t].kind = task[t].kind
  BY SetFacts DEF IInv, Fields, Alone, AuditFails
<1>5. TaskInv(t)'
  BY <1>1, <1>4 DEF TaskInv, Adoption, Adopters
<1> QED BY <1>1, <1>2, <1>3, <1>4, <1>5 DEF Local, Joins, Adopting, tables

LEMMA BurstItemStep == ASSUME IInv, NEW t \in Tasks, BurstItem(t) PROVE Local(t) /\ Joins(t) /\ Settles
<1> PICK v : v = Head(task[t].todo)
  OBVIOUS
<1>1. UNCHANGED tables /\ TaskInv(t) /\ task[t].at = "burst"
  BY DEF BurstItem, IInv, TasksInv
<1>2. DOMAIN items' = Urls /\ \A u \in Urls : items'[u] = items[u] \/ (u = v /\ OfUrl(v) # {})
  BY DEF BurstItem, IInv, Shape
<1>3. Settles
  BY <1>2 DEF Settles
<1>4. CASE Set(t, [todo |-> Tail(task[t].todo)])
  <2>1. /\ DOMAIN task' = Tasks /\ DOMAIN task'[t] = Fields /\ Alone(t)
        /\ task'[t].at = "burst" /\ task'[t].kind = task[t].kind
    BY <1>1, <1>4, SetFacts DEF IInv, Fields, Alone
  <2>2. TaskInv(t)'
    BY <1>1, <2>1 DEF TaskInv, Adoption, Adopters
  <2> QED BY <1>1, <1>2, <1>3, <2>1, <2>2 DEF Local, Joins, Adopting, tables
<1>5. CASE \E c \in Shows[v] : Set(t, [at |-> "lookup", url |-> v, content |-> c, todo |-> Tail(task[t].todo)])
  <2>1. PICK c \in Shows[v] : Set(t, [at |-> "lookup", url |-> v, content |-> c, todo |-> Tail(task[t].todo)])
    BY <1>5
  <2>2. /\ DOMAIN task' = Tasks /\ DOMAIN task'[t] = Fields /\ Alone(t)
        /\ task'[t].at = "lookup" /\ task'[t].kind = task[t].kind /\ task'[t].content = c /\ task'[t].url = v
    BY <2>1, SetFacts DEF IInv, Fields, Alone
  <2>3. TaskInv(t)'
    BY <1>1, <2>2 DEF TaskInv, Adoption, Adopters
  <2> QED BY <1>1, <1>2, <1>3, <2>2, <2>3 DEF Local, Joins, Adopting, tables
<1> QED BY <1>4, <1>5 DEF BurstItem

LEMMA BurstEndsStep == ASSUME IInv, NEW t \in Tasks, BurstEnds(t) PROVE Local(t) /\ Joins(t)
<1>1. /\ DOMAIN task' = Tasks /\ DOMAIN task'[t] = Fields /\ Alone(t)
      /\ task'[t].at = "idle" /\ task'[t].kind = "none"
  BY DEF BurstEnds, IInv, Shape, Idle, Fields, Alone
<1>2. TaskInv(t)'
  BY <1>1 DEF TaskInv, Adoption
<1> QED BY <1>1, <1>2 DEF BurstEnds, Local, Joins, Adopting, tables, IInv, Shape

LEMMA DoneStep ==
    ASSUME IInv, NEW t \in Tasks, Done(t)
    PROVE  /\ DOMAIN task' = Tasks /\ DOMAIN task'[t] = Fields /\ Alone(t)
           /\ task'[t].at \in {"rescore", "idle"} /\ task'[t].kind \in {"sweep", "none"}
  BY DEF IInv, Shape, Done, Idle, Fields, Alone

LEMMA RescoreStep == ASSUME IInv, NEW t \in Tasks, Rescore(t) PROVE Local(t) /\ Joins(t)
<1>1. UNCHANGED <<tables, items>> /\ task[t].at = "rescore" /\ TaskInv(t)
  BY DEF Rescore, IInv, TasksInv
<1>2. CASE Done(t)
  <2>1. TaskInv(t)'
    BY <1>2, DoneStep DEF TaskInv, Adoption
  <2> QED BY <1>1, <1>2, <2>1, DoneStep DEF Local, Joins, Adopting, IInv, Shape, tables
<1>3. CASE \E v \in Blank : Set(t, [at |-> "read", verdict |-> v])
  <2>1. /\ DOMAIN task' = Tasks /\ DOMAIN task'[t] = Fields /\ Alone(t)
        /\ task'[t].at = "read" /\ task'[t].kind = task[t].kind
    BY <1>3, SetFacts DEF IInv, Fields, Alone
  <2>2. TaskInv(t)'
    BY <1>1, <2>1 DEF TaskInv, Adoption, Adopters
  <2> QED BY <1>1, <2>1, <2>2 DEF Local, Joins, Adopting, IInv, Shape, tables
<1> QED BY <1>2, <1>3 DEF Rescore

LEMMA ReadStep == ASSUME IInv, NEW t \in Tasks, ReadViolations(t) PROVE Local(t) /\ Joins(t)
<1>1. UNCHANGED <<tables, items>> /\ task[t].at = "read" /\ TaskInv(t)
  BY DEF ReadViolations, IInv, TasksInv
<1>2. /\ DOMAIN task' = Tasks /\ DOMAIN task'[t] = Fields /\ Alone(t)
      /\ task'[t].at = "replace" /\ task'[t].kind = task[t].kind
  BY SetFacts DEF IInv, Fields, Alone, ReadViolations
<1>3. TaskInv(t)'
  BY <1>1, <1>2 DEF TaskInv, Adoption, Adopters
<1> QED BY <1>1, <1>2, <1>3 DEF Local, Joins, Adopting, IInv, Shape, tables

LEMMA CutStep == ASSUME IInv, NEW t \in Tasks, Cut(t) PROVE Local(t) /\ Joins(t)
<1>1. UNCHANGED <<tables, items>> /\ TaskInv(t)
  BY DEF Cut, IInv, TasksInv
<1>2. CASE task' = [task EXCEPT ![t] = Idle]
  <2>1. /\ DOMAIN task' = Tasks /\ DOMAIN task'[t] = Fields /\ Alone(t)
        /\ task'[t].at = "idle" /\ task'[t].kind = "none"
    BY <1>2 DEF IInv, Shape, Idle, Fields, Alone
  <2>2. TaskInv(t)'
    BY <2>1 DEF TaskInv, Adoption
  <2> QED BY <1>1, <2>1, <2>2 DEF Local, Joins, Adopting, IInv, Shape, tables
<1>3. CASE task[t].kind = "seed" /\ NextAttestation(t)
  <2>1. task[t].kind \in Adoption
    BY <1>3 DEF Adoption
  <2>2. TaskInv(t)'
    BY <1>1, <1>3, <2>1, NextAttestationStep DEF TaskInv, Adopters, Adoption
  <2> QED BY <1>1, <1>3, <2>1, <2>2, NextAttestationStep DEF Local, Joins, Adopting, IInv, Shape, tables
<1> QED BY <1>2, <1>3 DEF Cut
-----------------------------------------------------------------------------
\* The steps that write the tables.
SnapshotsGrow ==
    /\ IsSeq(snapshots')
    /\ \A s \in DOMAIN snapshots : s \in DOMAIN snapshots' /\ snapshots'[s] = snapshots[s]
Writes(t) ==
    /\ Alone(t) /\ Grow /\ TaskInv(t)' /\ RowsInv'
    /\ DOMAIN task' = Tasks /\ DOMAIN task'[t] = Fields /\ IsSeq(snapshots') /\ IsSeq(audits')
    /\ \A i \in DOMAIN audits' : DOMAIN audits'[i] = RowFields

LEMMA SnapshotAppended ==
    ASSUME IInv, NEW t \in Tasks, snapshots' = Captured(t)
    PROVE  /\ SnapshotsGrow /\ Len(snapshots) + 1 \in DOMAIN snapshots'
           /\ \E s \in DOMAIN snapshots' : snapshots'[s].content = task[t].content
<1> PICK new : new = [url |-> task[t].url, content |-> task[t].content]
  OBVIOUS
<1> PICK c : c = task[t].content
  OBVIOUS
<1>1. IsSeq(snapshots) /\ Len(snapshots) \in Nat
  BY DEF IInv, Shape, IsSeq
<1>2. snapshots' = Append(snapshots, new)
  BY DEF Captured
<1>3. /\ IsSeq(snapshots') /\ DOMAIN snapshots = 1..Len(snapshots) /\ DOMAIN snapshots' = 1..(Len(snapshots) + 1)
      /\ \A s \in DOMAIN snapshots : snapshots'[s] = snapshots[s]
      /\ snapshots'[Len(snapshots) + 1] = new
  BY <1>1, <1>2, AppendShape
<1>4. HasSnapshot(c)'
  BY <1>1, <1>3 DEF HasSnapshot
<1>5. SnapshotsGrow /\ Len(snapshots) + 1 \in DOMAIN snapshots'
  BY <1>1, <1>3 DEF SnapshotsGrow
<1> HIDE DEF SnapshotsGrow
<1> QED BY <1>4, <1>5 DEF HasSnapshot

LEMMA RowAppended ==
    ASSUME IInv, NEW row, audits' = Append(audits, row), SnapshotsGrow,
           DOMAIN row = RowFields, row.snap \in DOMAIN snapshots',
           row.adopted => \E s \in DOMAIN snapshots' : snapshots'[s].content = row.content
    PROVE  /\ Grow /\ IsSeq(audits') /\ RowsInv'
           /\ Len(audits) + 1 \notin DOMAIN audits /\ DOMAIN audits' = DOMAIN audits \cup {Len(audits) + 1}
           /\ \A i \in DOMAIN audits : audits'[i] = audits[i]
           /\ audits'[Len(audits) + 1] = row
           /\ \A i \in DOMAIN audits' : DOMAIN audits'[i] = RowFields
<1>1. IsSeq(audits) /\ Len(audits) \in Nat
  BY DEF IInv, Shape, IsSeq
<1>2. /\ IsSeq(audits') /\ DOMAIN audits = 1..Len(audits) /\ DOMAIN audits' = 1..(Len(audits) + 1)
      /\ \A i \in DOMAIN audits : audits'[i] = audits[i]
      /\ audits'[Len(audits) + 1] = row
  BY <1>1, AppendShape
<1>3. Len(audits) + 1 \notin DOMAIN audits /\ DOMAIN audits' = DOMAIN audits \cup {Len(audits) + 1}
  BY <1>1, <1>2
<1>4. Grow
  BY <1>2, <1>3 DEF Grow, SnapshotsGrow, Complete
<1>5. RowsInv'
  <2> SUFFICES ASSUME NEW i \in DOMAIN audits' PROVE RowInv(i)'
    BY DEF RowsInv
  <2>1. CASE i \in DOMAIN audits
    <3>1. RowInv(i) /\ audits'[i] = audits[i]
      BY <1>2, <2>1 DEF IInv, RowsInv
    <3> QED BY <3>1 DEF RowInv, HasSnapshot, SnapshotsGrow
  <2>2. CASE i = Len(audits) + 1
    BY <1>2, <2>2 DEF RowInv, HasSnapshot
  <2> QED BY <1>3, <2>1, <2>2
<1>6. \A i \in DOMAIN audits' : DOMAIN audits'[i] = RowFields
  BY <1>2, <1>3 DEF IInv, Shape
<1> QED BY <1>2, <1>3, <1>4, <1>5, <1>6

LEMMA CompletenessKept ==
    ASSUME IInv, NEW t \in Tasks, Alone(t), Grow, cut \subseteq cut', NEW i \in DOMAIN audits',
           \/ i \in DOMAIN audits /\ ~(task[t].at = "violations" /\ task[t].audit = i)
           \/ Complete(i)' \/ i \in cut'
           \/ task'[t].at = "violations" /\ task'[t].audit = i
    PROVE  \/ \A r \in audits'[i].verdict.rules : <<r, audits'[i].by>> \in audits'[i].stored
           \/ i \in cut'
           \/ \E u \in Tasks : task'[u].at = "violations" /\ task'[u].audit = i
<1>1. CASE i \in DOMAIN audits /\ ~(task[t].at = "violations" /\ task[t].audit = i)
  <2>1. Complete(i) \/ i \in cut \/ \E u \in Tasks : task[u].at = "violations" /\ task[u].audit = i
    BY <1>1 DEF IInv, CompleteUnlessCut, Complete
  <2>2. CASE Complete(i)
    <3>1. Complete(i)'
      BY <1>1, <2>2 DEF Grow
    <3> QED BY <3>1 DEF Complete
  <2>3. CASE i \in cut
    BY <2>3
  <2>4. CASE \E u \in Tasks : task[u].at = "violations" /\ task[u].audit = i
    BY <1>1, <2>4 DEF Alone
  <2> QED BY <2>1, <2>2, <2>3, <2>4
<1>2. CASE Complete(i)'
  BY <1>2 DEF Complete
<1> QED BY <1>1, <1>2
LEMMA PersistStep ==
    ASSUME IInv, NEW t \in Tasks, Persist(t)
    PROVE  /\ Writes(t) /\ CompleteUnlessCut'
           /\ \A c : AdoptedRows(c)' \subseteq AdoptedRows(c) /\ (t \in Adopting(c)' => t \in Adopting(c))
<1> PICK snap : snap = IF task[t].snap = 0 THEN Len(snapshots) + 1 ELSE task[t].snap
  OBVIOUS
<1> PICK row : row = [AuditRow(t, snap) EXCEPT !.stored = Rows(t, task[t].verdict)]
  OBVIOUS
<1> PICK n : n = Len(audits) + 1
  OBVIOUS
<1>1. /\ snapshots' = IF task[t].snap = 0 THEN Captured(t) ELSE snapshots
      /\ audits' = Append(audits, row) /\ Answered(t) /\ UNCHANGED <<items, history>>
      /\ task[t].at = "persist" /\ TaskInv(t)
  BY DEF Persist, IInv, TasksInv
<1>2. SnapshotsGrow /\ snap \in DOMAIN snapshots'
  <2>1. CASE task[t].snap = 0
    BY <1>1, <2>1, SnapshotAppended
  <2>2. CASE task[t].snap # 0
    BY <1>1, <2>2 DEF TaskInv, SnapshotsGrow, IInv, Shape
  <2> QED BY <2>1, <2>2
<1>3. /\ DOMAIN row = RowFields /\ row.snap = snap /\ row.content = task[t].content
      /\ row.verdict = task[t].verdict /\ row.by = t /\ row.stored = Rows(t, task[t].verdict)
      /\ ~ row.adopted
  <2> PICK base : base = AuditRow(t, snap)
    OBVIOUS
  <2>1. /\ DOMAIN base = RowFields /\ base.snap = snap /\ base.content = task[t].content
        /\ base.verdict = task[t].verdict /\ base.by = t
    BY DEF AuditRow, RowFields
  <2>2. ~ base.adopted
    BY <1>1 DEF AuditRow, TaskInv, Adoption
  <2>3. row = [base EXCEPT !.stored = Rows(t, task[t].verdict)]
    OBVIOUS
  <2> QED BY <2>1, <2>2, <2>3 DEF RowFields
<1>4. /\ Grow /\ IsSeq(audits') /\ RowsInv' /\ n \notin DOMAIN audits /\ DOMAIN audits' = DOMAIN audits \cup {n}
      /\ \A i \in DOMAIN audits : audits'[i] = audits[i]
      /\ audits'[n] = row /\ \A i \in DOMAIN audits' : DOMAIN audits'[i] = RowFields
  <2>1. row.snap \in DOMAIN snapshots'
    BY <1>2, <1>3
  <2>2. row.adopted => \E s \in DOMAIN snapshots' : snapshots'[s].content = row.content
    BY <1>3
  <2>3. DOMAIN row = RowFields /\ audits' = Append(audits, row) /\ SnapshotsGrow
    BY <1>1, <1>2, <1>3
  <2> QED BY <2>1, <2>2, <2>3, RowAppended
<1>5. TaskInv(t)'
  <2>1. task'[t].at = "mark" => HasAudit(task[t].url)'
    BY <1>1, <1>3, <1>4, AnsweredStep DEF TaskInv, HasAudit
  <2> QED BY <1>1, <2>1, AnsweredStep DEF TaskInv, Adoption, HasAudit, Adopters
<1>6. Writes(t)
  BY <1>1, <1>2, <1>4, <1>5, AnsweredStep DEF Writes, SnapshotsGrow
<1>7. CompleteUnlessCut'
  <2>1. Complete(n)'
    BY <1>3, <1>4 DEF Complete, Rows
  <2>2. cut' = cut /\ Alone(t)
    BY <1>1, AnsweredStep DEF history
  <2> QED BY <1>1, <1>4, <2>1, <2>2, CompletenessKept DEF CompleteUnlessCut
<1>8. ASSUME NEW c PROVE AdoptedRows(c)' \subseteq AdoptedRows(c) /\ (t \in Adopting(c)' => t \in Adopting(c))
  BY <1>1, <1>3, <1>4, AnsweredStep DEF AdoptedRows, Adopting
<1> QED BY <1>6, <1>7, <1>8

LEMMA CommitSnapshotStep ==
    ASSUME IInv, NEW t \in Tasks, CommitSnapshot(t)
    PROVE  /\ Writes(t) /\ CompleteUnlessCut'
           /\ \A c : AdoptedRows(c)' \subseteq AdoptedRows(c) /\ (t \in Adopting(c)' => t \in Adopting(c))
<1> PICK c : c = task[t].content
  OBVIOUS
<1>1. /\ snapshots' = Captured(t) /\ UNCHANGED <<audits, items, history>> /\ task[t].at = "snap" /\ TaskInv(t)
  BY DEF CommitSnapshot, IInv, TasksInv
<1>2. /\ SnapshotsGrow /\ Len(snapshots) + 1 \in DOMAIN snapshots'
      /\ HasSnapshot(c)'
  BY <1>1, SnapshotAppended DEF HasSnapshot
<1>3. /\ DOMAIN task' = Tasks /\ DOMAIN task'[t] = Fields /\ Alone(t)
      /\ task'[t].at = IF task[t].kind = "seed" THEN "seek" ELSE "audit"
      /\ task'[t].snap = Len(snapshots) + 1
      /\ task'[t].kind = task[t].kind /\ task'[t].method = task[t].method /\ task'[t].content = c
  BY SetFacts DEF CommitSnapshot, IInv, Fields, Alone
<1>4. Grow
  BY <1>1, <1>2 DEF Grow, SnapshotsGrow, Complete
<1>5. TaskInv(t)'
  BY <1>1, <1>2, <1>3 DEF TaskInv, Adoption, Adopters
<1>6. RowsInv'
  BY <1>1, <1>2 DEF IInv, RowsInv, RowInv, HasSnapshot, SnapshotsGrow
<1>7. Writes(t)
  BY <1>1, <1>2, <1>3, <1>4, <1>5, <1>6 DEF Writes, SnapshotsGrow, IInv, Shape
<1>8. CompleteUnlessCut'
  BY <1>1, <1>3, <1>4, CompletenessKept DEF CompleteUnlessCut, history
<1>9. ASSUME NEW d PROVE AdoptedRows(d)' \subseteq AdoptedRows(d) /\ (t \in Adopting(d)' => t \in Adopting(d))
  BY <1>1, <1>3 DEF AdoptedRows, Adopting, TaskInv, Adoption
<1> QED BY <1>7, <1>8, <1>9

LEMMA CommitAuditStep ==
    ASSUME IInv, NEW t \in Tasks, CommitAudit(t)
    PROVE  /\ Writes(t) /\ CompleteUnlessCut'
           /\ \A c : /\ AdoptedRows(c)' \subseteq AdoptedRows(c) \cup {Len(audits) + 1}
                     /\ Len(audits) + 1 \notin AdoptedRows(c)
                     /\ t \notin Adopting(c)'
                     /\ AdoptedRows(c)' # AdoptedRows(c) => t \in Adopting(c)
<1> PICK row : row = AuditRow(t, task[t].snap)
  OBVIOUS
<1> PICK n : n = Len(audits) + 1
  OBVIOUS
<1>1. /\ audits' = Append(audits, row) /\ UNCHANGED <<snapshots, items, history>>
      /\ task[t].at = "audit" /\ TaskInv(t)
  BY DEF CommitAudit, IInv, TasksInv
<1>2. /\ DOMAIN task' = Tasks /\ DOMAIN task'[t] = Fields /\ Alone(t)
      /\ task'[t].at = "violations" /\ task'[t].audit = n
      /\ task'[t].kind = task[t].kind /\ task'[t].snap = task[t].snap /\ task'[t].verdict = task[t].verdict
  BY SetFacts DEF CommitAudit, IInv, Fields, Alone
<1>3. /\ DOMAIN row = RowFields /\ row.snap = task[t].snap /\ row.content = task[t].content
      /\ row.verdict = task[t].verdict /\ row.by = t
      /\ row.adopted <=> task[t].method \in Adoption
  BY DEF AuditRow, RowFields, Adoption
<1>4. SnapshotsGrow /\ row.snap \in DOMAIN snapshots'
  BY <1>1, <1>3 DEF SnapshotsGrow, IInv, Shape, TaskInv
<1>5. row.adopted => \E s \in DOMAIN snapshots' : snapshots'[s].content = row.content
  BY <1>1, <1>3 DEF TaskInv, HasSnapshot
<1>6. /\ Grow /\ IsSeq(audits') /\ RowsInv' /\ n \notin DOMAIN audits /\ DOMAIN audits' = DOMAIN audits \cup {n}
      /\ \A i \in DOMAIN audits : audits'[i] = audits[i]
      /\ audits'[n] = row /\ \A i \in DOMAIN audits' : DOMAIN audits'[i] = RowFields
  BY <1>1, <1>3, <1>4, <1>5, RowAppended
<1>7. TaskInv(t)'
  BY <1>1, <1>2, <1>3, <1>4, <1>6 DEF TaskInv, Adoption, Adopters
<1>8. Writes(t)
  BY <1>2, <1>4, <1>6, <1>7 DEF Writes, SnapshotsGrow
<1>9. CompleteUnlessCut'
  BY <1>1, <1>2, <1>6, CompletenessKept DEF CompleteUnlessCut, history
<1>10. ASSUME NEW c
       PROVE  /\ AdoptedRows(c)' \subseteq AdoptedRows(c) \cup {n} /\ n \notin AdoptedRows(c)
              /\ t \notin Adopting(c)'
  BY <1>2, <1>6 DEF AdoptedRows, Adopting
<1>11. ASSUME NEW c, t \notin Adopting(c) PROVE AdoptedRows(c)' = AdoptedRows(c)
  <2>1. ~(row.adopted /\ row.content = c)
    BY <1>1, <1>3, <1>11 DEF Adopting, TaskInv, Adoption
  <2> QED BY <1>6, <2>1 DEF AdoptedRows
<1> QED BY <1>8, <1>9, <1>10, <1>11
LEMMA CommitViolationsStep ==
    ASSUME IInv, NEW t \in Tasks, CommitViolations(t)
    PROVE  /\ Writes(t) /\ CompleteUnlessCut'
           /\ \A c : AdoptedRows(c)' \subseteq AdoptedRows(c) /\ (t \in Adopting(c)' => t \in Adopting(c))
<1> PICK k : k = task[t].audit
  OBVIOUS
<1> PICK new : new = Rows(t, task[t].verdict)
  OBVIOUS
<1>1. /\ UNCHANGED <<snapshots, items, history>> /\ task[t].at = "violations" /\ TaskInv(t)
      /\ audits' = [audits EXCEPT ![k].stored = @ \cup new]
  BY DEF CommitViolations, IInv, TasksInv
<1>2. /\ k \in DOMAIN audits /\ audits[k].snap = task[t].snap
      /\ DOMAIN audits = 1..Len(audits) /\ Len(audits) \in Nat /\ IsSeq(audits) /\ IsSeq(snapshots)
      /\ DOMAIN audits[k] = RowFields
  BY <1>1 DEF TaskInv, IInv, Shape, IsSeq
<1>3. /\ DOMAIN audits' = DOMAIN audits /\ \A i \in DOMAIN audits \ {k} : audits'[i] = audits[i]
      /\ audits'[k] = [audits[k] EXCEPT !.stored = @ \cup new]
  BY <1>1, <1>2
<1>4. /\ DOMAIN audits'[k] = RowFields /\ audits'[k].stored = audits[k].stored \cup new
      /\ audits'[k].snap = audits[k].snap /\ audits'[k].content = audits[k].content
      /\ audits'[k].by = audits[k].by /\ audits'[k].verdict = audits[k].verdict
  BY <1>2, <1>3 DEF RowFields
<1>5. audits'[k].adopted => audits[k].adopted
  BY <1>2, <1>3 DEF RowFields
<1>6. IsSeq(audits')
  <2>1. audits' \in Seq({audits'[i] : i \in 1..Len(audits)})
    <3>1. audits' = [i \in 1..Len(audits) |-> audits'[i]]
      BY <1>1, <1>2
    <3> QED BY <1>2, <3>1
  <2> QED BY <2>1, SeqShape
<1>7. Grow
  BY <1>1, <1>3, <1>4 DEF Grow, Complete
<1>8. RowsInv'
  BY <1>1, <1>3, <1>4, <1>5 DEF IInv, RowsInv, RowInv, HasSnapshot
<1>9. Complete(k)'
  <2>1. CASE audits[k].by = t /\ audits[k].verdict = task[t].verdict
    BY <1>4, <2>1 DEF Complete, Rows
  <2>2. CASE Complete(k)
    BY <1>7, <1>2, <2>2 DEF Grow
  <2> QED BY <1>1, <2>1, <2>2 DEF TaskInv
<1>10. /\ DOMAIN task' = Tasks /\ DOMAIN task'[t] = Fields /\ Alone(t) /\ TaskInv(t)'
       /\ task'[t].at \in {"item", "check", "burst", "idle"}
  <2>1. CASE task[t].kind = "seed" /\ Goto(t, "item")
    <3>1. /\ DOMAIN task' = Tasks /\ DOMAIN task'[t] = Fields /\ Alone(t)
          /\ task'[t].at = "item" /\ task'[t].kind = task[t].kind
          /\ task'[t].snap = task[t].snap /\ task'[t].audit = k
      BY <2>1, SetFacts DEF IInv, Fields, Alone, Goto
    <3>2. TaskInv(t)'
      BY <1>1, <1>2, <1>3, <1>4, <2>1, <3>1 DEF TaskInv, Adoption, Adopters
    <3> QED BY <3>1, <3>2
  <2>2. CASE task[t].kind = "pack" /\ NextAttestation(t)
    <3>1. task[t].kind \in Adoption
      BY <2>2 DEF Adoption
    <3>2. TaskInv(t)'
      BY <1>1, <2>2, <3>1, NextAttestationStep DEF TaskInv, Adopters, Adoption
    <3> QED BY <2>2, <3>1, <3>2, NextAttestationStep
  <2>3. CASE task' = [task EXCEPT ![t] = Idle]
    <3>1. /\ DOMAIN task' = Tasks /\ DOMAIN task'[t] = Fields /\ Alone(t)
          /\ task'[t].at = "idle" /\ task'[t].kind = "none"
      BY <2>3 DEF IInv, Shape, Idle, Fields, Alone
    <3>2. TaskInv(t)'
      BY <3>1 DEF TaskInv, Adoption
    <3> QED BY <3>1, <3>2
  <2> QED BY <2>1, <2>2, <2>3 DEF CommitViolations
<1>11. Writes(t)
  BY <1>1, <1>2, <1>3, <1>4, <1>6, <1>7, <1>8, <1>10 DEF Writes, IInv, Shape
<1>12. CompleteUnlessCut'
  BY <1>1, <1>3, <1>7, <1>9, <1>10, CompletenessKept DEF CompleteUnlessCut, history
<1>13. ASSUME NEW c PROVE AdoptedRows(c)' \subseteq AdoptedRows(c) /\ (t \in Adopting(c)' => t \in Adopting(c))
  BY <1>3, <1>4, <1>5, <1>10 DEF AdoptedRows, Adopting
<1> QED BY <1>11, <1>12, <1>13

LEMMA ReplaceStep ==
    ASSUME IInv, NEW t \in Tasks, Replace(t)
    PROVE  /\ Writes(t) /\ CompleteUnlessCut'
           /\ \A c : AdoptedRows(c)' \subseteq AdoptedRows(c) /\ (t \in Adopting(c)' => t \in Adopting(c))
<1> PICK k : k = Head(task[t].todo)
  OBVIOUS
<1>1. /\ UNCHANGED <<snapshots, items, history>> /\ task[t].at = "replace" /\ TaskInv(t)
      /\ audits' = [audits EXCEPT ![k] = Rescored(@, t)] /\ Done(t)
  BY DEF Replace, IInv, TasksInv
<1>2. /\ DOMAIN audits = 1..Len(audits) /\ Len(audits) \in Nat /\ IsSeq(audits) /\ IsSeq(snapshots)
  BY DEF IInv, Shape, IsSeq
<1>3. /\ DOMAIN audits' = DOMAIN audits /\ \A i \in DOMAIN audits \ {k} : audits'[i] = audits[i]
      /\ k \in DOMAIN audits => audits'[k] = Rescored(audits[k], t)
  BY <1>1, <1>2
<1>4. ASSUME k \in DOMAIN audits
      PROVE  /\ DOMAIN audits'[k] = RowFields
             /\ audits'[k].snap = audits[k].snap /\ audits'[k].content = audits[k].content
             /\ audits'[k].by = t /\ audits'[k].verdict = task[t].verdict
             /\ audits'[k].stored = (audits[k].stored \ task[t].old) \cup Rows(t, task[t].verdict)
  BY <1>3, <1>4 DEF Rescored, RowFields, IInv, Shape
<1>5. ASSUME k \in DOMAIN audits PROVE ~ audits'[k].adopted
  BY <1>3, <1>5 DEF Rescored, RowFields, IInv, Shape
<1>6. IsSeq(audits')
  <2>1. audits' \in Seq({audits'[i] : i \in 1..Len(audits)})
    <3>1. audits' = [i \in 1..Len(audits) |-> audits'[i]]
      BY <1>1, <1>2
    <3> QED BY <1>2, <3>1
  <2> QED BY <2>1, SeqShape
<1>7. k \in DOMAIN audits => Complete(k)'
  BY <1>4 DEF Complete, Rows
<1>8. Grow
  BY <1>1, <1>3, <1>4, <1>7 DEF Grow, Complete
<1>9. RowsInv'
  BY <1>1, <1>3, <1>4, <1>5 DEF IInv, RowsInv, RowInv, HasSnapshot
<1>10. TaskInv(t)'
  BY <1>1, DoneStep DEF TaskInv, Adoption
<1>11. Writes(t)
  BY <1>1, <1>2, <1>3, <1>4, <1>6, <1>8, <1>9, <1>10, DoneStep DEF Writes, IInv, Shape
<1>12. CompleteUnlessCut'
  BY <1>1, <1>3, <1>7, <1>8, <1>11, CompletenessKept DEF CompleteUnlessCut, history, Writes
<1>13. ASSUME NEW c PROVE AdoptedRows(c)' \subseteq AdoptedRows(c) /\ (t \in Adopting(c)' => t \in Adopting(c))
  BY <1>1, <1>3, <1>4, <1>5, DoneStep DEF AdoptedRows, Adopting
<1> QED BY <1>11, <1>12, <1>13
-----------------------------------------------------------------------------
LEMMA TasksKept == ASSUME IInv, NEW t \in Tasks, Grow, Alone(t), TaskInv(t)' PROVE TasksInv'
<1> SUFFICES ASSUME NEW u \in Tasks PROVE TaskInv(u)'
  BY DEF TasksInv
<1>1. CASE u = t
  BY <1>1
<1>2. CASE u # t
  BY <1>2, OthersKeep DEF IInv, TasksInv, Alone
<1> QED BY <1>1, <1>2

LEMMA SettledStays == ASSUME IInv, Grow, Settles PROVE SettledItemsHaveAudits'
<1> SUFFICES ASSUME NEW u \in Urls, items'[u] \in {"audited", "mesh_adopted"}
             PROVE  OfUrl(u)' # {} \/ \E c \in Shows[u] : Ids(c)' # {}
  BY DEF SettledItemsHaveAudits
<1>1. OfUrl(u) # {} \/ \E c \in Shows[u] : Ids(c) # {}
  BY DEF Settles, IInv, SettledItemsHaveAudits
<1>2. OfUrl(u) # {} => OfUrl(u)' # {}
  BY DEF OfUrl, Grow, IInv, RowsInv, RowInv
<1>3. \A c : Ids(c) # {} => Ids(c)' # {}
  BY DEF Ids, Grow
<1> QED BY <1>1, <1>2, <1>3

\* A step that writes no table keeps the invariant.
LEMMA LocalKeeps ==
    ASSUME IInv, NEW t \in Tasks, Local(t), Joins(t), Settles, cut \subseteq cut',
           task[t].at = "violations" => task[t].audit \in cut'
    PROVE  IInv' /\ Grow
<1>1. Grow /\ Alone(t) /\ TaskInv(t)' /\ UNCHANGED <<snapshots, audits>>
  BY GrowUnchanged DEF Local
<1>2. Shape'
  BY DEF Local, IInv, Shape, Alone
<1>3. RowsInv'
  BY <1>1, RowsKept DEF IInv
<1>4. TasksInv'
  BY <1>1, TasksKept
<1>5. CompleteUnlessCut'
  <2> SUFFICES ASSUME NEW i \in DOMAIN audits'
               PROVE  \/ \A r \in audits'[i].verdict.rules : <<r, audits'[i].by>> \in audits'[i].stored
                      \/ i \in cut' \/ \E u \in Tasks : task'[u].at = "violations" /\ task'[u].audit = i
    BY DEF CompleteUnlessCut
  <2>1. i \in DOMAIN audits
    BY <1>1
  <2>2. i \in cut' \/ ~(task[t].at = "violations" /\ task[t].audit = i)
    OBVIOUS
  <2> QED BY <1>1, <2>1, <2>2, CompletenessKept
<1>6. SettledItemsHaveAudits'
  BY <1>1, SettledStays
<1>7. Balance'
  <2> SUFFICES ASSUME NEW c \in Contents
               PROVE  Cardinality(AdoptedRows(c)') + Cardinality(Adopting(c)') <= Cardinality(Adopters)
    BY DEF Balance, Adopters
  <2>1. Adopting(c)' \subseteq Adopters
    BY <1>4 DEF TasksInv, TaskInv, Adopting, Adopters, Adoption
  <2>2. AdoptedRows(c)' = AdoptedRows(c)
    BY <1>1 DEF AdoptedRows
  <2>3. AdoptedRows(c) = {} \/ Adopting(c)' \subseteq Adopting(c)
    BY <1>1 DEF Joins, Adopting, Alone
  <2> QED BY <2>1, <2>2, <2>3, BalanceKept
<1> QED BY <1>1, <1>2, <1>3, <1>4, <1>5, <1>6, <1>7 DEF IInv

\* A commit keeps the invariant if it keeps the balance.
LEMMA WritesKeeps ==
    ASSUME IInv, NEW t \in Tasks, Writes(t), CompleteUnlessCut', items' = items, Balance' PROVE IInv' /\ Grow
<1>1. Shape'
  BY DEF Writes, IInv, Shape, Alone
<1>2. TasksInv'
  BY TasksKept DEF Writes
<1>3. SettledItemsHaveAudits'
  BY SettledStays DEF Writes, Settles
<1> QED BY <1>1, <1>2, <1>3 DEF IInv, Writes

LEMMA BalanceWrites ==
    ASSUME IInv, NEW t \in Tasks, Writes(t),
           \A c : AdoptedRows(c)' \subseteq AdoptedRows(c) /\ (t \in Adopting(c)' => t \in Adopting(c))
    PROVE  Balance'
<1> SUFFICES ASSUME NEW c \in Contents
             PROVE  Cardinality(AdoptedRows(c)') + Cardinality(Adopting(c)') <= Cardinality(Adopters)
  BY DEF Balance, Adopters
<1>1. TasksInv'
  BY TasksKept DEF Writes
<1>2. Adopting(c)' \subseteq Adopters
  BY <1>1 DEF TasksInv, TaskInv, Adopting, Adopters, Adoption
<1>3. Adopting(c)' \subseteq Adopting(c)
  BY DEF Writes, Adopting, Alone
<1> QED BY <1>2, <1>3, BalanceKept

\* The commit of an adopted audit: its writer is no longer about to adopt the content.
LEMMA BalanceCommit == ASSUME IInv, NEW t \in Tasks, CommitAudit(t) PROVE Balance'
<1> SUFFICES ASSUME NEW c \in Contents
             PROVE  Cardinality(AdoptedRows(c)') + Cardinality(Adopting(c)') <= Cardinality(Adopters)
  BY DEF Balance, Adopters
<1> PICK n : n = Len(audits) + 1
  OBVIOUS
<1>1. /\ Writes(t) /\ n \notin AdoptedRows(c) /\ AdoptedRows(c)' \subseteq AdoptedRows(c) \cup {n}
      /\ t \notin Adopting(c)'
      /\ AdoptedRows(c)' # AdoptedRows(c) => t \in Adopting(c)
  BY CommitAuditStep
<1>2. Adopting(c)' \subseteq Adopting(c) \ {t}
  BY <1>1 DEF Writes, Adopting, Alone
<1>3. TasksInv'
  BY <1>1, TasksKept DEF Writes
<1>4. Adopting(c)' \subseteq Adopters
  BY <1>3 DEF TasksInv, TaskInv, Adopting, Adopters, Adoption
<1>5. CASE AdoptedRows(c)' = AdoptedRows(c)
  BY <1>2, <1>4, <1>5, BalanceKept
<1>6. CASE t \in Adopting(c)
  <2>1. /\ IsFiniteSet(AdoptedRows(c)) /\ IsFiniteSet(Adopting(c)) /\ IsFiniteSet(Adopters)
        /\ Cardinality(AdoptedRows(c)) + Cardinality(Adopting(c)) <= Cardinality(Adopters)
    BY Finite DEF IInv, Balance
  <2>2. /\ IsFiniteSet(AdoptedRows(c) \cup {n})
        /\ Cardinality(AdoptedRows(c) \cup {n}) = Cardinality(AdoptedRows(c)) + 1
    BY <1>1, <2>1, FS_AddElement
  <2>3. /\ IsFiniteSet(Adopting(c) \ {t})
        /\ Cardinality(Adopting(c) \ {t}) = Cardinality(Adopting(c)) - 1
    BY <1>6, <2>1, FS_RemoveElement
  <2>4. Cardinality(AdoptedRows(c)') <= Cardinality(AdoptedRows(c) \cup {n}) /\ IsFiniteSet(AdoptedRows(c)')
    BY <1>1, <2>2, FS_Subset
  <2>5. Cardinality(Adopting(c)') <= Cardinality(Adopting(c) \ {t}) /\ IsFiniteSet(Adopting(c)')
    BY <1>2, <2>3, FS_Subset
  <2>6. /\ Cardinality(AdoptedRows(c)') \in Nat /\ Cardinality(Adopting(c)') \in Nat
        /\ Cardinality(AdoptedRows(c)) \in Nat /\ Cardinality(Adopting(c)) \in Nat
        /\ Cardinality(Adopters) \in Nat
    BY <2>1, <2>4, <2>5, FS_CardinalityType
  <2> QED BY <2>1, <2>2, <2>3, <2>4, <2>5, <2>6
<1> QED BY <1>1, <1>5, <1>6

-----------------------------------------------------------------------------
LEMMA InitHolds == Init => IInv
<1> SUFFICES ASSUME Init PROVE IInv
  OBVIOUS
<1>1. /\ DOMAIN snapshots = {} /\ DOMAIN audits = {} /\ IsSeq(snapshots) /\ IsSeq(audits)
  <2>1. snapshots \in Seq({}) /\ audits \in Seq({})
    BY DEF Init
  <2>2. IsSeq(snapshots) /\ IsSeq(audits)
    BY <2>1, SeqShape
  <2>3. DOMAIN snapshots = {} /\ DOMAIN audits = {}
    BY DEF Init
  <2> QED BY <2>2, <2>3
<1>2. Shape
  BY <1>1 DEF Init, Shape, Idle, Fields
<1>3. TasksInv
  BY DEF Init, TasksInv, TaskInv, Idle, Adoption
<1>4. RowsInv /\ CompleteUnlessCut /\ SettledItemsHaveAudits
  BY <1>1 DEF Init, RowsInv, CompleteUnlessCut, SettledItemsHaveAudits
<1>5. Balance
  <2> SUFFICES ASSUME NEW c \in Contents
               PROVE  Cardinality(AdoptedRows(c)) + Cardinality(Adopting(c)) <= Cardinality(Adopters)
    BY DEF Balance
  <2>1. AdoptedRows(c) = {} /\ Adopting(c) = {}
    BY <1>1 DEF Init, AdoptedRows, Adopting, Idle
  <2>2. IsFiniteSet(Adopters)
    BY AuditStoreAssumption, FS_Subset DEF Adopters
  <2> QED BY <2>1, <2>2, FS_EmptySet, FS_CardinalityType
<1> QED BY <1>2, <1>3, <1>4, <1>5 DEF IInv

LEMMA StepHolds == IInv /\ [Next]_vars => IInv' /\ Grow
<1> SUFFICES ASSUME IInv, [Next]_vars PROVE IInv' /\ Grow
  OBVIOUS
<1>1. ASSUME NEW t \in Tasks, NEW u \in Urls, Ask(t, u) PROVE IInv' /\ Grow
  BY <1>1, AskStep, LocalKeeps DEF Ask, Settles, history
<1>2. ASSUME NEW t \in Tasks, NEW c \in Contents, Paste(t, c) PROVE IInv' /\ Grow
  BY <1>2, PasteStep, LocalKeeps DEF Paste, Settles, history
<1>3. ASSUME NEW t \in Tasks, NEW s \in Submissions, Submit(t, s) PROVE IInv' /\ Grow
  BY <1>3, SubmitStep, LocalKeeps DEF Submit, Settles, history
<1>4. ASSUME NEW t \in Tasks, Import(t) PROVE IInv' /\ Grow
  BY <1>4, ImportStep, LocalKeeps DEF Import, Settles, history
<1>5. ASSUME NEW t \in Tasks, Sweep(t) PROVE IInv' /\ Grow
  BY <1>5, SweepStep, LocalKeeps DEF Sweep, Settles, history
<1>6. ASSUME NEW t \in Tasks, AuditFails(t) PROVE IInv' /\ Grow
  BY <1>6, AuditFailsStep, LocalKeeps DEF AuditFails, history
<1>7. ASSUME NEW t \in Tasks, Cut(t) PROVE IInv' /\ Grow
  BY <1>7, CutStep, LocalKeeps DEF Cut, Settles
<1>8. ASSUME NEW t \in Tasks, Work(t) PROVE IInv' /\ Grow
  <2>1. CASE Lookup(t)
    BY <2>1, LookupStep, LocalKeeps DEF Lookup, Settles, history
  <2>2. CASE Evaluate(t)
    BY <2>2, EvaluateStep, LocalKeeps DEF Evaluate, Settles, history
  <2>3. CASE Find(t)
    BY <2>3, FindStep, LocalKeeps DEF Find, Settles, history
  <2>4. CASE Persist(t)
    BY <2>4, PersistStep, BalanceWrites, WritesKeeps DEF Persist
  <2>5. CASE Check(t)
    BY <2>5, CheckStep, LocalKeeps DEF Check, Settles, history
  <2>6. CASE Seek(t)
    BY <2>6, SeekStep, LocalKeeps DEF Seek, Settles, history
  <2>7. CASE CommitSnapshot(t)
    BY <2>7, CommitSnapshotStep, BalanceWrites, WritesKeeps DEF CommitSnapshot
  <2>8. CASE CommitAudit(t)
    BY <2>8, CommitAuditStep, BalanceCommit, WritesKeeps DEF CommitAudit
  <2>9. CASE CommitViolations(t)
    BY <2>9, CommitViolationsStep, BalanceWrites, WritesKeeps DEF CommitViolations
  <2>10. CASE CommitItem(t)
    BY <2>10, CommitItemStep, LocalKeeps DEF CommitItem, history
  <2>11. CASE BurstItem(t)
    BY <2>11, BurstItemStep, LocalKeeps DEF BurstItem, history
  <2>12. CASE Mark(t)
    BY <2>12, MarkStep, LocalKeeps DEF Mark, history
  <2>13. CASE BurstEnds(t)
    BY <2>13, BurstEndsStep, LocalKeeps DEF BurstEnds, Settles, history
  <2>14. CASE Rescore(t)
    BY <2>14, RescoreStep, LocalKeeps DEF Rescore, Settles, history
  <2>15. CASE ReadViolations(t)
    BY <2>15, ReadStep, LocalKeeps DEF ReadViolations, Settles, history
  <2>16. CASE Replace(t)
    BY <2>16, ReplaceStep, BalanceWrites, WritesKeeps DEF Replace
  <2> QED BY <1>8, <2>1, <2>2, <2>3, <2>4, <2>5, <2>6, <2>7, <2>8, <2>9, <2>10, <2>11, <2>12, <2>13,
             <2>14, <2>15, <2>16 DEF Work
<1>9. CASE UNCHANGED vars
  <2>1. Shape'
    BY <1>9 DEF vars, IInv, Shape
  <2>2. RowsInv' /\ TasksInv'
    BY <1>9 DEF vars, IInv, RowsInv, RowInv, TasksInv, TaskInv, HasSnapshot, HasAudit, Complete, Adopters
  <2>3. CompleteUnlessCut'
    BY <1>9 DEF vars, IInv, CompleteUnlessCut
  <2>4. SettledItemsHaveAudits'
    BY <1>9 DEF vars, IInv, SettledItemsHaveAudits, OfUrl, Ids
  <2>5. Balance'
    BY <1>9 DEF vars, IInv, Balance, AdoptedRows, Adopting, Adopters
  <2>6. Grow
    BY <1>9, GrowUnchanged DEF vars
  <2> QED BY <2>1, <2>2, <2>3, <2>4, <2>5, <2>6 DEF IInv
<1> QED BY <1>1, <1>2, <1>3, <1>4, <1>5, <1>6, <1>7, <1>8, <1>9 DEF Next

\* The invariant of the stored audits: what a writer read is still there when it writes.
THEOREM Invariant == Spec => []IInv
<1> QED BY InitHolds, StepHolds, PTL DEF Spec

\* No writer takes a snapshot or an audit away or gives it another content, and an audit that
\* gets another verdict has that verdict's violations at once (rescore.py:119-167).
THEOREM NothingLost == Spec => [][Grow]_vars
<1>1. IInv /\ [Next]_vars => [Grow]_vars
  BY StepHolds
<1> QED BY <1>1, Invariant, PTL DEF Spec

\* Whoever wrote an audit, and whatever a sweep replaced, the rules of its verdict are in its
\* violations, unless a writer is at them or was cut short there (rescore.py, packs.py, evaluator.py).
THEOREM AuditsComplete == Spec => []CompleteUnlessCut
<1>1. IInv => CompleteUnlessCut
  BY DEF IInv
<1> QED BY <1>1, Invariant, PTL

\* Imports and germinations that run at the same time adopt a content at most once each, and
\* later ones never: the guards of packs.py and germinate.py leave no other duplicates.
THEOREM AdoptionBound == Spec => []AdoptionsBounded
<1>1. IInv => AdoptionsBounded
  <2> SUFFICES ASSUME IInv, NEW c \in Contents
               PROVE  Cardinality({i \in Ids(c) : audits[i].adopted}) <= Cardinality(Adopters)
    BY DEF AdoptionsBounded
  <2>1. {i \in Ids(c) : audits[i].adopted} = AdoptedRows(c)
    BY DEF AdoptedRows, Ids
  <2>2. Cardinality(AdoptedRows(c)) + Cardinality(Adopting(c)) <= Cardinality(Adopters)
    BY DEF IInv, Balance
  <2>3. IsFiniteSet(AdoptedRows(c)) /\ IsFiniteSet(Adopting(c)) /\ IsFiniteSet(Adopters)
    BY Finite
  <2>4. /\ Cardinality(AdoptedRows(c)) \in Nat /\ Cardinality(Adopting(c)) \in Nat
        /\ Cardinality(Adopters) \in Nat
    BY <2>3, FS_CardinalityType
  <2> HIDE DEF IInv
  <2>5. Cardinality(AdoptedRows(c)) <= Cardinality(Adopters)
    BY <2>2, <2>4
  <2> QED BY <2>1, <2>5
<1> QED BY <1>1, Invariant, PTL

\* A feed item that a germination settled has an audit of its url or of what its page showed.
THEOREM SettledHaveAudits == Spec => []SettledItemsHaveAudits
<1>1. IInv => SettledItemsHaveAudits
  BY DEF IInv
<1> QED BY <1>1, Invariant, PTL

-----------------------------------------------------------------------------
\* The places of a finite set, in their order, are its members, each of them once.
LEMMA Ranked ==
    ASSUME NEW S \in SUBSET Nat, IsFiniteSet(S)
    PROVE  /\ Cardinality(S) \in Nat /\ Ascending(S) \in [1..Cardinality(S) -> S]
           /\ \A k \in S : \E m \in 1..Cardinality(S) : Ascending(S)[m] = k
           /\ \A l, m \in 1..Cardinality(S) : Ascending(S)[l] = Ascending(S)[m] => l = m
<1> DEFINE n == Cardinality(S)
           Upto(k) == {j \in S : j <= k}
           rank == [k \in S |-> Cardinality(Upto(k))]
           R == {rank[k] : k \in S}
<1>1. n \in Nat
  BY FS_CardinalityType
<1>2. ASSUME NEW k \in S PROVE IsFiniteSet(Upto(k)) /\ rank[k] \in 1..n
  <2>1. Upto(k) \in SUBSET S /\ k \in Upto(k)
    OBVIOUS
  <2>2. IsFiniteSet(Upto(k)) /\ Cardinality(Upto(k)) <= n /\ Cardinality(Upto(k)) \in Nat
    BY <2>1, FS_Subset, FS_CardinalityType
  <2>3. Cardinality(Upto(k)) # 0
    BY <2>1, <2>2, FS_EmptySet
  <2> QED BY <1>1, <2>2, <2>3
<1>3. ASSUME NEW k \in S, NEW l \in S, k < l PROVE rank[k] # rank[l]
  <2>0. k \in Int /\ l \in Int /\ \A j \in S : j \in Int
    OBVIOUS
  <2>1. Upto(k) \in SUBSET Upto(l) /\ l \in Upto(l) /\ l \notin Upto(k)
    <3>1. ASSUME NEW j \in S, j <= k PROVE j <= l
      BY <1>3, <2>0, <3>1
    <3>2. l <= l /\ ~(l <= k)
      BY <1>3, <2>0
    <3> QED BY <3>1, <3>2
  <2> HIDE DEF Upto
  <2>2. Upto(l) # Upto(k)
    BY <2>1
  <2>3. Cardinality(Upto(l)) # Cardinality(Upto(k))
    BY <1>2, <2>1, <2>2, FS_Subset
  <2> QED BY <2>3
<1>4. \A k, l \in S : rank[k] = rank[l] => k = l
  <2> SUFFICES ASSUME NEW k \in S, NEW l \in S, rank[k] = rank[l], k # l PROVE FALSE
    OBVIOUS
  <2>1. k < l \/ l < k
    OBVIOUS
  <2> HIDE DEF rank
  <2> QED BY <1>3, <2>1
<1>5. R = 1..n
  <2>1. rank \in Bijection(S, R)
    <3> HIDE DEF Upto
    <3>1. rank \in [S -> R] /\ \A r \in R : \E k \in S : rank[k] = r
      OBVIOUS
    <3> HIDE DEF rank, R
    <3> QED BY <1>4, <3>1 DEF Bijection, Injection, Surjection, IsInjective
  <2>2. Cardinality(R) = n
    <3> HIDE DEF R, rank
    <3> QED BY <2>1, FS_Bijection DEF ExistsBijection
  <2>3. R \in SUBSET (1..n)
    BY <1>2
  <2>4. IsFiniteSet(1..n) /\ Cardinality(1..n) = n
    BY <1>1, FS_Interval
  <2> HIDE DEF R
  <2> QED BY <2>2, <2>3, <2>4, FS_Subset
<1>6. \A m \in 1..n : Ascending(S)[m] \in S /\ rank[Ascending(S)[m]] = m
  <2> SUFFICES ASSUME NEW m \in 1..n PROVE Ascending(S)[m] \in S /\ rank[Ascending(S)[m]] = m
    OBVIOUS
  <2>1. PICK k \in S : rank[k] = m
    BY <1>5
  <2>2. Ascending(S)[m] = CHOOSE x \in S : Cardinality(Upto(x)) = m
    BY DEF Ascending
  <2>3. Cardinality(Upto(k)) = m
    BY <2>1
  <2> HIDE DEF Upto
  <2>4. Ascending(S)[m] \in S /\ Cardinality(Upto(Ascending(S)[m])) = m
    BY <2>2, <2>3
  <2> QED BY <2>4
<1>7. Ascending(S) \in [1..n -> S]
  BY <1>6 DEF Ascending
<1>8. ASSUME NEW k \in S PROVE \E m \in 1..n : Ascending(S)[m] = k
  <2>1. rank[k] \in 1..n
    BY <1>2
  <2> HIDE DEF rank
  <2> QED BY <1>4, <1>6, <2>1
<1> HIDE DEF rank
<1> QED BY <1>1, <1>6, <1>7, <1>8

\* What a sequence of the rows at some places is.
LEMMA Chosen ==
    ASSUME NEW rows, NEW S \in SUBSET Nat, IsFiniteSet(S)
    PROVE  /\ IsSeq(At(rows, S)) /\ Len(At(rows, S)) = Cardinality(S) /\ Len(At(rows, S)) \in Nat
           /\ DOMAIN At(rows, S) = 1..Len(At(rows, S))
           /\ \A m \in DOMAIN At(rows, S) : At(rows, S)[m] = rows[Ascending(S)[m]]
           /\ \A m \in DOMAIN At(rows, S) : \E k \in S : At(rows, S)[m] = rows[k]
           /\ \A k \in S : \E m \in DOMAIN At(rows, S) : At(rows, S)[m] = rows[k]
<1> DEFINE n == Cardinality(S)
           a == Ascending(S)
<1>1. n \in Nat /\ a \in [1..n -> S] /\ \A k \in S : \E m \in 1..n : a[m] = k
  BY Ranked
<1>2. At(rows, S) = [m \in 1..n |-> rows[a[m]]]
  BY <1>1 DEF At
<1> HIDE DEF a, n
<1>3. [m \in 1..n |-> rows[a[m]]] \in Seq({rows[k] : k \in S})
  BY <1>1
<1>4. IsSeq(At(rows, S)) /\ Len(At(rows, S)) = n
  <2>1. Len([m \in 1..n |-> rows[a[m]]]) = n
    BY <1>1
  <2> QED BY <1>2, <1>3, <2>1, SeqShape
<1>5. DOMAIN At(rows, S) = 1..n /\ \A m \in 1..n : At(rows, S)[m] = rows[a[m]]
  BY <1>2
<1>6. ASSUME NEW m \in 1..n PROVE \E k \in S : At(rows, S)[m] = rows[k]
  <2>1. a[m] \in S /\ At(rows, S)[m] = rows[a[m]]
    BY <1>1, <1>5
  <2> QED BY <2>1
<1>7. ASSUME NEW k \in S PROVE \E m \in 1..n : At(rows, S)[m] = rows[k]
  <2> PICK m \in 1..n : a[m] = k
    BY <1>1
  <2> QED BY <1>5
<1> QED BY <1>1, <1>4, <1>5, <1>6, <1>7 DEF n, a

\* A sequence that has every member of a set once.
IsListing(s, D) ==
    /\ s \in Seq(D)
    /\ \A i \in D : \E k \in DOMAIN s : s[k] = i
    /\ \A k, l \in DOMAIN s : s[k] = s[l] => k = l

\* A listing grows by what it did not have, at its end or at its front.
LEMMA ListingGrows ==
    ASSUME NEW D, NEW s, IsListing(s, D), NEW id, id \notin D
    PROVE  IsListing(Append(s, id), D \cup {id}) /\ IsListing(<<id>> \o s, D \cup {id})
<1> DEFINE E == D \cup {id}
           n == Len(s)
<1>1. n \in Nat /\ DOMAIN s = 1..n /\ s \in Seq(E) /\ <<id>> \in Seq(E) /\ \A k \in 1..n : s[k] \in D
  BY DEF IsListing
<1>2. IsListing(Append(s, id), E)
  <2> PICK q : q = Append(s, id)
    OBVIOUS
  <2>1. /\ q \in Seq(E) /\ DOMAIN q = 1..(n + 1) /\ q[n + 1] = id
        /\ \A k \in 1..n : q[k] = s[k]
    BY <1>1
  <2>2. \A i \in E : \E k \in 1..(n + 1) : q[k] = i
    BY <1>1, <2>1 DEF IsListing
  <2>3. \A k, l \in 1..(n + 1) : q[k] = q[l] => k = l
    BY <1>1, <2>1 DEF IsListing
  <2> QED BY <2>1, <2>2, <2>3 DEF IsListing
<1>3. IsListing(<<id>> \o s, E)
  <2> PICK q : q = <<id>> \o s
    OBVIOUS
  <2>1. /\ q \in Seq(E) /\ Len(q) = 1 + n
        /\ \A k \in 1..(1 + n) : q[k] = IF k <= 1 THEN id ELSE s[k - 1]
    <3>1. Len(<<id>>) = 1 /\ <<id>>[1] = id
      OBVIOUS
    <3>2. /\ q \in Seq(E) /\ Len(q) = 1 + n
          /\ \A k \in 1..(1 + n) : q[k] = IF k <= 1 THEN <<id>>[k] ELSE s[k - 1]
      BY <1>1, <3>1, ConcatProperties
    <3> QED BY <1>1, <3>1, <3>2
  <2>2. DOMAIN q = 1..(n + 1) /\ q[1] = id /\ \A k \in 1..n : q[k + 1] = s[k]
    BY <1>1, <2>1
  <2>3. \A i \in E : \E k \in 1..(n + 1) : q[k] = i
    <3> SUFFICES ASSUME NEW i \in D PROVE \E k \in 1..(n + 1) : q[k] = i
      BY <1>1, <2>2
    <3>1. PICK k \in 1..n : s[k] = i
      BY <1>1 DEF IsListing
    <3>2. k + 1 \in 1..(n + 1)
      BY <1>1
    <3> QED BY <2>2, <3>1, <3>2
  <2>4. \A k, l \in 1..(n + 1) : q[k] = q[l] => k = l
    <3> SUFFICES ASSUME NEW k \in 1..(n + 1), NEW l \in 1..(n + 1), q[k] = q[l] PROVE k = l
      OBVIOUS
    <3>1. CASE k = 1 \/ l = 1
      BY <1>1, <2>1, <3>1
    <3>2. CASE k # 1 /\ l # 1
      <4>1. k - 1 \in 1..n /\ l - 1 \in 1..n /\ s[k - 1] = s[l - 1]
        BY <1>1, <2>1, <3>2
      <4>2. k - 1 = l - 1
        BY <1>1, <4>1 DEF IsListing
      <4> QED BY <1>1, <4>2
    <3> QED BY <3>1, <3>2
  <2> QED BY <2>1, <2>2, <2>3, <2>4 DEF IsListing
<1> QED BY <1>2, <1>3

\* A listing from which one is taken out lists the others.
LEMMA ListingShrinks ==
    ASSUME NEW D, NEW s, IsListing(s, D), NEW id
    PROVE  IsListing(At(s, {k \in DOMAIN s : s[k] # id}), D \ {id})
<1> PICK S : S = {k \in DOMAIN s : s[k] # id}
  OBVIOUS
<1> PICK q : q = At(s, S)
  OBVIOUS
<1>1. Len(s) \in Nat /\ DOMAIN s = 1..Len(s) /\ \A k \in DOMAIN s : s[k] \in D
  BY DEF IsListing
<1>2. S \in SUBSET (1..Len(s)) /\ IsFiniteSet(S) /\ S \in SUBSET Nat
  <2>1. IsFiniteSet(1..Len(s)) /\ S \in SUBSET (1..Len(s))
    BY <1>1, FS_Interval
  <2>2. IsFiniteSet(S)
    BY <2>1, FS_Subset
  <2> QED BY <1>1, <2>1, <2>2
<1>3. \A k \in S : s[k] \in D \ {id} /\ k \in DOMAIN s
  BY <1>1
<1>4. \A i \in D \ {id} : \E k \in S : s[k] = i
  BY DEF IsListing
<1>5. /\ IsSeq(q) /\ Len(q) = Cardinality(S) /\ Len(q) \in Nat /\ DOMAIN q = 1..Len(q)
      /\ \A m \in DOMAIN q : q[m] = s[Ascending(S)[m]]
  <2>1. IsFiniteSet(S) /\ S \in SUBSET Nat
    BY <1>2
  <2>2. /\ IsSeq(At(s, S)) /\ Len(At(s, S)) = Cardinality(S) /\ Len(At(s, S)) \in Nat
        /\ DOMAIN At(s, S) = 1..Len(At(s, S))
        /\ \A m \in DOMAIN At(s, S) : At(s, S)[m] = s[Ascending(S)[m]]
    BY <2>1, Chosen
  <2> QED BY <2>2
<1>6. /\ Ascending(S) \in [1..Len(q) -> S] /\ \A k \in S : \E m \in 1..Len(q) : Ascending(S)[m] = k
      /\ \A l, m \in 1..Len(q) : Ascending(S)[l] = Ascending(S)[m] => l = m
  <2>1. IsFiniteSet(S) /\ S \in SUBSET Nat
    BY <1>2
  <2>2. /\ Ascending(S) \in [1..Cardinality(S) -> S]
        /\ \A k \in S : \E m \in 1..Cardinality(S) : Ascending(S)[m] = k
        /\ \A l, m \in 1..Cardinality(S) : Ascending(S)[l] = Ascending(S)[m] => l = m
    BY <2>1, Ranked
  <2> QED BY <1>5, <2>2
<1>7. \A m \in 1..Len(q) : Ascending(S)[m] \in S /\ q[m] \in D \ {id}
  BY <1>3, <1>5, <1>6
<1>8. q \in Seq(D \ {id})
  <2>1. q = [m \in 1..Len(q) |-> q[m]]
    BY <1>5 DEF IsSeq
  <2>2. [m \in 1..Len(q) |-> q[m]] \in Seq(D \ {id})
    BY <1>5, <1>7
  <2> QED BY <2>1, <2>2
<1>9. \A i \in D \ {id} : \E m \in DOMAIN q : q[m] = i
  <2> SUFFICES ASSUME NEW i \in D \ {id} PROVE \E m \in DOMAIN q : q[m] = i
    OBVIOUS
  <2>1. PICK k \in S : s[k] = i
    BY <1>4
  <2>2. PICK m \in 1..Len(q) : Ascending(S)[m] = k
    BY <1>6
  <2> QED BY <1>5, <2>1, <2>2
<1>10. \A k, l \in DOMAIN q : q[k] = q[l] => k = l
  <2> SUFFICES ASSUME NEW k \in DOMAIN q, NEW l \in DOMAIN q, q[k] = q[l] PROVE k = l
    OBVIOUS
  <2>1. Ascending(S)[k] \in DOMAIN s /\ Ascending(S)[l] \in DOMAIN s
        /\ s[Ascending(S)[k]] = s[Ascending(S)[l]]
    BY <1>3, <1>5, <1>7
  <2>2. Ascending(S)[k] = Ascending(S)[l]
    BY <2>1 DEF IsListing
  <2> QED BY <1>5, <1>6, <2>2
<1>11. IsListing(q, D \ {id})
  BY <1>8, <1>9, <1>10 DEF IsListing
<1> QED BY <1>11

-----------------------------------------------------------------------------
\* Each audit has one place in the order, and what a sweep has yet to do are audits.
Sweeping == {"rescore", "read", "replace"}
SweepInv(t) == task[t].at \in Sweeping => task[t].todo \in Seq(DOMAIN audits) /\ task[t].todo # <<>>
OInv == IsListing(order, DOMAIN audits) /\ \A t \in Tasks : SweepInv(t)

\* A sweep takes audits out of the order.
LEMMA OldestAreAudits == ASSUME IsListing(order, DOMAIN audits) PROVE Oldest \in Seq(DOMAIN audits)
<1> PICK S : S = {k \in DOMAIN order : NeedsModel(order[k])}
  OBVIOUS
<1> PICK due : due = At(order, S)
  OBVIOUS
<1> DEFINE n == Min({Limit, Len(due)})
<1>1. Len(order) \in Nat /\ DOMAIN order = 1..Len(order) /\ \A k \in DOMAIN order : order[k] \in DOMAIN audits
  BY DEF IsListing
<1>2. IsFiniteSet(S) /\ S \in SUBSET Nat /\ S \subseteq DOMAIN order
  <2>1. IsFiniteSet(1..Len(order)) /\ S \in SUBSET (1..Len(order))
    BY <1>1, FS_Interval
  <2>2. IsFiniteSet(S)
    BY <2>1, FS_Subset
  <2> QED BY <1>1, <2>1, <2>2
<1>3. /\ Len(due) \in Nat /\ DOMAIN due = 1..Len(due)
      /\ \A m \in DOMAIN due : \E k \in S : due[m] = order[k]
  <2>1. /\ Len(At(order, S)) \in Nat /\ DOMAIN At(order, S) = 1..Len(At(order, S))
        /\ \A m \in DOMAIN At(order, S) : \E k \in S : At(order, S)[m] = order[k]
    BY <1>2, Chosen
  <2> QED BY <2>1
<1>4. n \in Nat /\ n <= Len(due)
  <2>1. Limit \in Nat
    BY AuditStoreAssumption
  <2>2. n \in {Limit, Len(due)} /\ \A x \in {Limit, Len(due)} : n <= x
    <3>1. \E m \in {Limit, Len(due)} : \A x \in {Limit, Len(due)} : m <= x
      <4>1. CASE Limit <= Len(due)
        BY <1>3, <2>1, <4>1
      <4>2. CASE ~(Limit <= Len(due))
        BY <1>3, <2>1, <4>2
      <4> QED BY <4>1, <4>2
    <3> QED BY <3>1 DEF Min
  <2> QED BY <1>3, <2>1, <2>2
<1> HIDE DEF n
<1>5. ASSUME NEW m \in 1..n PROVE due[m] \in DOMAIN audits
  <2>1. m \in DOMAIN due
    BY <1>3, <1>4
  <2>2. PICK k \in S : due[m] = order[k]
    BY <1>3, <2>1
  <2> QED BY <1>1, <1>2, <2>2
<1>6. SubSeq(due, 1, n) \in Seq(DOMAIN audits)
  BY <1>4, <1>5, SubSeqProperties
<1>7. Oldest = SubSeq(due, 1, n)
  BY DEF Oldest, n
<1> QED BY <1>6, <1>7

\* A step that is no sweep's leaves its task at no sweep.
LEMMA CalmStep ==
    ASSUME IInv, NEW t \in Tasks,
           \/ \E u \in Urls : Ask(t, u)
           \/ \E c \in Contents : Paste(t, c)
           \/ \E s \in Submissions : Submit(t, s)
           \/ Import(t) \/ AuditFails(t) \/ Cut(t)
           \/ Lookup(t) \/ Evaluate(t) \/ Find(t) \/ Persist(t) \/ Check(t) \/ Seek(t)
           \/ CommitSnapshot(t) \/ CommitAudit(t) \/ CommitViolations(t) \/ CommitItem(t)
           \/ BurstItem(t) \/ Mark(t) \/ BurstEnds(t)
    PROVE  Alone(t) /\ task'[t].at \notin Sweeping
<1> USE DEF Sweeping
<1>0. Shape /\ TaskInv(t) /\ t \in DOMAIN task
  BY DEF IInv, TasksInv, Shape
<1>a. ASSUME NEW values, Set(t, values), DOMAIN values \subseteq Fields,
             "at" \in DOMAIN values => values["at"] \notin Sweeping,
             "at" \notin DOMAIN values => task[t].at \notin Sweeping
      PROVE  Alone(t) /\ task'[t].at \notin Sweeping
  <2>1. task'[t].at = IF "at" \in DOMAIN values THEN values["at"] ELSE task[t].at
    BY <1>a, <1>0, SetFacts DEF Fields
  <2>2. Alone(t)
    BY <1>a, <1>0, SetFacts DEF Alone
  <2> QED BY <1>a, <2>1, <2>2
<1>b. task' = [task EXCEPT ![t] = Idle] => Alone(t) /\ task'[t].at \notin Sweeping
  <2>1. Idle.at = "idle"
    BY DEF Idle
  <2> QED BY <1>0, <2>1 DEF Alone
<1>c. NextAttestation(t) /\ task[t].kind \in Adoption => Alone(t) /\ task'[t].at \notin Sweeping
  BY NextAttestationStep
<1>d. Answered(t) => Alone(t) /\ task'[t].at \notin Sweeping
  BY AnsweredStep
<1>e. ASSUME NEW step, step \notin Sweeping, Goto(t, step) PROVE Alone(t) /\ task'[t].at \notin Sweeping
  BY <1>a, <1>e DEF Goto, Fields
<1>f. ASSUME NEW step, step \notin Sweeping, NEW snap, Hold(t, step, snap) PROVE Alone(t) /\ task'[t].at \notin Sweeping
  BY <1>a, <1>f DEF Hold, Fields
<1>1. ASSUME NEW u \in Urls, Ask(t, u) PROVE Alone(t) /\ task'[t].at \notin Sweeping
  BY <1>a, <1>1 DEF Ask, Fields
<1>2. ASSUME NEW c \in Contents, Paste(t, c) PROVE Alone(t) /\ task'[t].at \notin Sweeping
  BY <1>a, <1>2 DEF Paste, Fields
<1>3. ASSUME NEW s \in Submissions, Submit(t, s) PROVE Alone(t) /\ task'[t].at \notin Sweeping
  BY <1>a, <1>3 DEF Submit, Fields
<1>4. CASE Import(t)
  BY <1>a, <1>4 DEF Import, Fields
<1>5. CASE AuditFails(t)
  BY <1>a, <1>5 DEF AuditFails, Fields
<1>6. CASE Cut(t)
  BY <1>b, <1>c, <1>6 DEF Cut, Adoption
<1>7. CASE Lookup(t)
  BY <1>d, <1>e, <1>7 DEF Lookup
<1>8. CASE Evaluate(t)
  BY <1>a, <1>8 DEF Evaluate, Fields
<1>9. CASE Find(t)
  BY <1>a, <1>9 DEF Find, Fields
<1>10. CASE Persist(t)
  BY <1>d, <1>10 DEF Persist
<1>11. CASE Check(t)
  BY <1>0, <1>c, <1>f, <1>11 DEF Check, TaskInv
<1>12. CASE Seek(t)
  BY <1>0, <1>c, <1>e, <1>12 DEF Seek, TaskInv, Adoption
<1>13. CASE CommitSnapshot(t)
  BY <1>a, <1>13 DEF CommitSnapshot, Fields
<1>14. CASE CommitAudit(t)
  BY <1>a, <1>14 DEF CommitAudit, Fields
<1>15. CASE CommitViolations(t)
  BY <1>b, <1>c, <1>e, <1>15 DEF CommitViolations, Adoption
<1>16. CASE CommitItem(t)
  BY <1>0, <1>c, <1>16 DEF CommitItem, TaskInv, Adoption
<1>17. CASE BurstItem(t)
  BY <1>a, <1>17 DEF BurstItem, Fields
<1>18. CASE Mark(t)
  BY <1>a, <1>18 DEF Mark, Fields
<1>19. CASE BurstEnds(t)
  BY <1>b, <1>19 DEF BurstEnds
<1> QED BY <1>1, <1>2, <1>3, <1>4, <1>5, <1>6, <1>7, <1>8, <1>9, <1>10, <1>11, <1>12, <1>13, <1>14, <1>15,
           <1>16, <1>17, <1>18, <1>19

LEMMA TailOf ==
    ASSUME NEW D, NEW q \in Seq(D), q # <<>>
    PROVE  Head(q) \in D /\ Tail(q) \in Seq(D) /\ (Len(q) > 1 => Tail(q) # <<>>)
<1>1. Len(q) \in Nat /\ Tail(q) \in Seq(D) /\ Len(Tail(q)) = Len(q) - 1 /\ Head(q) \in D
  BY HeadTailProperties
<1>2. Tail(q) = <<>> => Len(Tail(q)) = 0
  <2>1. Len(<<>>) = 0
    OBVIOUS
  <2> QED BY <2>1
<1> QED BY <1>1, <1>2

\* What a sweep goes on with when it is done with an audit.
LEMMA DoneLeavesAudits ==
    ASSUME IInv, NEW t \in Tasks, Done(t), SweepInv(t), task[t].at \in Sweeping,
           DOMAIN audits' = DOMAIN audits
    PROVE  Alone(t) /\ SweepInv(t)'
<1> DEFINE todo == task[t].todo
<1>1. todo \in Seq(DOMAIN audits) /\ todo # <<>>
  BY DEF SweepInv
<1>2. Tail(todo) \in Seq(DOMAIN audits) /\ (Len(todo) > 1 => Tail(todo) # <<>>)
  BY <1>1, TailOf
<1>3. task'[t].at \in Sweeping => task'[t].todo = Tail(todo) /\ Len(todo) > 1
  BY DEF Done, Idle, Sweeping, IInv, Shape
<1> QED BY <1>2, <1>3, DoneStep DEF SweepInv

LEMMA OrderStep == IInv /\ OInv /\ [Next]_vars => OInv'
<1> SUFFICES ASSUME IInv, OInv, [Next]_vars PROVE OInv'
  OBVIOUS
<1> USE DEF tables
<1>1. Grow
  BY StepHolds
<1>2. ASSUME NEW u \in Tasks, task'[u] = task[u] PROVE SweepInv(u)'
  <2>1. DOMAIN audits \subseteq DOMAIN audits'
    BY <1>1 DEF Grow
  <2>2. ASSUME NEW A, NEW B, A \subseteq B, NEW q \in Seq(A) PROVE q \in Seq(B)
    BY <2>2
  <2>3. SweepInv(u)
    BY DEF OInv
  <2> QED BY <1>2, <2>1, <2>2, <2>3 DEF SweepInv
<1>a. ASSUME NEW t \in Tasks, Alone(t), SweepInv(t)', IsListing(order, DOMAIN audits)' PROVE OInv'
  BY <1>2, <1>a DEF OInv, Alone
<1>b. order' = order /\ DOMAIN audits' = DOMAIN audits => IsListing(order, DOMAIN audits)'
  BY DEF OInv, IsListing
<1>c. ASSUME NEW t \in Tasks, Alone(t), task'[t].at \notin Sweeping, IsListing(order, DOMAIN audits)' PROVE OInv'
  BY <1>a, <1>c DEF SweepInv
<1>d. /\ IsSeq(audits) /\ Len(audits) + 1 \notin DOMAIN audits
      /\ \A row : DOMAIN Append(audits, row) = DOMAIN audits \cup {Len(audits) + 1}
  <2>1. IsSeq(audits) /\ Len(audits) \in Nat /\ DOMAIN audits = 1..Len(audits)
    BY DEF IInv, Shape, IsSeq
  <2> QED BY <2>1, AppendShape
<1>3. ASSUME NEW t \in Tasks, NEW u \in Urls, Ask(t, u) PROVE OInv'
  BY <1>3, <1>b, <1>c, CalmStep DEF Ask
<1>4. ASSUME NEW t \in Tasks, NEW c \in Contents, Paste(t, c) PROVE OInv'
  BY <1>4, <1>b, <1>c, CalmStep DEF Paste
<1>5. ASSUME NEW t \in Tasks, NEW s \in Submissions, Submit(t, s) PROVE OInv'
  BY <1>5, <1>b, <1>c, CalmStep DEF Submit
<1>6. ASSUME NEW t \in Tasks, Import(t) \/ AuditFails(t) \/ Cut(t) PROVE OInv'
  <2>1. order' = order /\ audits' = audits
    BY <1>6 DEF Import, AuditFails, Cut
  <2> QED BY <1>6, <2>1, <1>b, <1>c, CalmStep
<1>7. ASSUME NEW t \in Tasks, Sweep(t) PROVE OInv'
  <2>1. /\ Alone(t) /\ task'[t].todo = Oldest /\ UNCHANGED <<order, audits>>
    BY <1>7, SetFacts DEF Sweep, IInv, Alone, Fields
  <2>2. Oldest \in Seq(DOMAIN audits) /\ Oldest # <<>>
    BY <1>7, OldestAreAudits DEF OInv, Sweep
  <2> QED BY <2>1, <2>2, <1>a, <1>b DEF SweepInv
<1>8. ASSUME NEW t \in Tasks, Work(t) PROVE OInv'
  <2>1. CASE \/ Lookup(t) \/ Evaluate(t) \/ Find(t) \/ Check(t) \/ Seek(t) \/ CommitSnapshot(t) \/ CommitItem(t)
             \/ BurstItem(t) \/ Mark(t) \/ BurstEnds(t)
    <3>1. order' = order /\ audits' = audits
      BY <2>1 DEF Lookup, Evaluate, Find, Check, Seek, CommitSnapshot, CommitItem, BurstItem, Mark, BurstEnds
    <3> QED BY <2>1, <3>1, <1>b, <1>c, CalmStep
  <2>2. CASE Persist(t)
    <3> PICK n : n = Len(audits) + 1
      OBVIOUS
    <3>1. DOMAIN audits' = DOMAIN audits \cup {n} /\ order' = Append(order, n) /\ n \notin DOMAIN audits
      BY <2>2, <1>d DEF Persist
    <3> PICK D : D = DOMAIN audits
      OBVIOUS
    <3>a. IsListing(order, D) /\ n \notin D
      BY <3>1 DEF OInv
    <3>b. IsListing(Append(order, n), D \cup {n}) /\ IsListing(<<n>> \o order, D \cup {n})
      BY <3>a, ListingGrows
    <3>c. IsListing(order', D \cup {n})
      BY <3>1, <3>b
    <3>2. IsListing(order, DOMAIN audits)'
      BY <3>1, <3>c
    <3> QED BY <2>2, <3>2, <1>c, CalmStep
  <2>3. CASE CommitAudit(t)
    <3> PICK n : n = Len(audits) + 1
      OBVIOUS
    <3>1. /\ DOMAIN audits' = DOMAIN audits \cup {n} /\ n \notin DOMAIN audits
          /\ order' = Append(order, n) \/ order' = <<n>> \o order
      BY <2>3, <1>d DEF CommitAudit
    <3> PICK D : D = DOMAIN audits
      OBVIOUS
    <3>a. IsListing(order, D) /\ n \notin D
      BY <3>1 DEF OInv
    <3>b. IsListing(Append(order, n), D \cup {n}) /\ IsListing(<<n>> \o order, D \cup {n})
      BY <3>a, ListingGrows
    <3>c. IsListing(order', D \cup {n})
      BY <3>1, <3>b
    <3>2. IsListing(order, DOMAIN audits)'
      BY <3>1, <3>c
    <3> QED BY <2>3, <3>2, <1>c, CalmStep
  <2>4. CASE CommitViolations(t)
    <3>1. order' = order /\ DOMAIN audits' = DOMAIN audits
      BY <2>4 DEF CommitViolations
    <3> QED BY <2>4, <3>1, <1>b, <1>c, CalmStep
  <2>5. CASE Rescore(t)
    <3>1. order' = order /\ audits' = audits /\ task[t].at \in Sweeping /\ SweepInv(t)
      BY <2>5 DEF Rescore, Sweeping, OInv
    <3>2. CASE Done(t)
      BY <3>1, <3>2, <1>a, <1>b, DoneLeavesAudits
    <3>3. CASE \E v \in Blank : Set(t, [at |-> "read", verdict |-> v])
      <4>1. Alone(t) /\ task'[t].todo = task[t].todo
        BY <3>3, SetFacts DEF IInv, Alone, Fields
      <4> QED BY <3>1, <4>1, <1>a, <1>b DEF SweepInv
    <3> QED BY <2>5, <3>2, <3>3 DEF Rescore
  <2>6. CASE ReadViolations(t)
    <3>1. order' = order /\ audits' = audits /\ task[t].at \in Sweeping /\ SweepInv(t)
      BY <2>6 DEF ReadViolations, Sweeping, OInv
    <3>2. Alone(t) /\ task'[t].todo = task[t].todo
      BY <2>6, SetFacts DEF IInv, Alone, Fields, ReadViolations
    <3> QED BY <3>1, <3>2, <1>a, <1>b DEF SweepInv
  <2>7. CASE Replace(t)
    <3> PICK id : id = Head(task[t].todo)
      OBVIOUS
    <3>1. /\ DOMAIN audits' = DOMAIN audits /\ Done(t) /\ task[t].at \in Sweeping /\ SweepInv(t)
          /\ order' = Append(At(order, {k \in DOMAIN order : order[k] # id}), id)
      BY <2>7 DEF Replace, Sweeping, OInv
    <3>2. id \in DOMAIN audits
      BY <3>1, TailOf DEF SweepInv
    <3>3. IsListing(At(order, {k \in DOMAIN order : order[k] # id}), DOMAIN audits \ {id})
      BY ListingShrinks DEF OInv
    <3>4. IsListing(order', (DOMAIN audits \ {id}) \cup {id})
      BY <3>1, <3>3, ListingGrows
    <3>5. (DOMAIN audits \ {id}) \cup {id} = DOMAIN audits'
      BY <3>1, <3>2
    <3>6. IsListing(order, DOMAIN audits)'
      BY <3>4, <3>5
    <3> QED BY <3>1, <3>6, <1>a, DoneLeavesAudits
  <2> QED BY <1>8, <2>1, <2>2, <2>3, <2>4, <2>5, <2>6, <2>7 DEF Work
<1>9. CASE UNCHANGED vars
  BY <1>9, <1>2, <1>b DEF vars, OInv
<1> QED BY <1>3, <1>4, <1>5, <1>6, <1>7, <1>8, <1>9 DEF Next

LEMMA OrderInit == Init => OInv
<1> SUFFICES ASSUME Init PROVE OInv
  OBVIOUS
<1>1. order = <<>> /\ audits = <<>>
  BY DEF Init
<1>2. IsListing(order, DOMAIN audits)
  BY <1>1 DEF IsListing
<1> QED BY <1>2 DEF Init, OInv, SweepInv, Sweeping, Idle

\* Every audit has one place in the order of its time, whatever sweeps do to others meanwhile.
THEOREM EachHasItsPlace == Spec => [](IsListing(order, DOMAIN audits))
<1>1. OInv => IsListing(order, DOMAIN audits)
  BY DEF OInv
<1> QED BY OrderInit, OrderStep, Invariant, <1>1, PTL DEF Spec

-----------------------------------------------------------------------------
\* The place of an audit in the order.
LEMMA PlacedOnce ==
    ASSUME IsListing(order, DOMAIN audits)
    PROVE  /\ Len(order) \in Nat /\ DOMAIN order = 1..Len(order) /\ \A k \in DOMAIN order : order[k] \in DOMAIN audits
           /\ \A i \in DOMAIN audits : Placed(i) \in DOMAIN order /\ order[Placed(i)] = i
           /\ \A k \in DOMAIN order : Placed(order[k]) = k
<1>1. Len(order) \in Nat /\ DOMAIN order = 1..Len(order) /\ \A k \in DOMAIN order : order[k] \in DOMAIN audits
  BY DEF IsListing
<1>2. \A i \in DOMAIN audits : Placed(i) \in DOMAIN order /\ order[Placed(i)] = i
  BY DEF IsListing, Placed
<1>3. \A k \in DOMAIN order : Placed(order[k]) = k
  BY <1>1, <1>2 DEF IsListing
<1> QED BY <1>1, <1>2, <1>3

\* The newest of some audits is the one of them that no other comes after.
LEMMA NewestOf ==
    ASSUME IsListing(order, DOMAIN audits), NEW S \in SUBSET DOMAIN audits, S # {}
    PROVE  /\ Newest(S) \in S /\ \A j \in S : Placed(j) <= Placed(Newest(S))
           /\ \A i \in S : (\A j \in S : Placed(j) <= Placed(i)) => i = Newest(S)
<1> DEFINE P == {Placed(j) : j \in S}
<1>1. /\ Len(order) \in Nat /\ P \in SUBSET (1..Len(order)) /\ \A i \in S : Placed(i) \in Nat /\ order[Placed(i)] = i
  BY PlacedOnce
<1>2. IsFiniteSet(1..Len(order))
  BY <1>1, FS_Interval
<1>3. P \in SUBSET Nat /\ IsFiniteSet(P) /\ P # {}
  <2>1. P # {}
    OBVIOUS
  <2> HIDE DEF P
  <2>2. IsFiniteSet(P)
    BY <1>1, <1>2, FS_Subset
  <2> QED BY <1>1, <2>1, <2>2
<1>4. PICK i \in S : \A j \in S : Placed(j) <= Placed(i)
  <2>1. Max(P) \in P /\ \A y \in P : Max(P) >= y
    <3> HIDE DEF P
    <3> QED BY <1>3, Greatest
  <2>2. PICK i \in S : Placed(i) = Max(P)
    BY <2>1
  <2>3. ASSUME NEW j \in S PROVE Placed(j) <= Placed(i)
    <3>1. Placed(j) \in P /\ Placed(i) \in Nat /\ Placed(j) \in Nat
      BY <1>1
    <3> HIDE DEF P
    <3> QED BY <2>1, <2>2, <3>1
  <2> QED BY <2>3
<1>5. Newest(S) = CHOOSE x \in S : \A j \in S : Placed(j) <= Placed(x)
  BY DEF Newest
<1>6. Newest(S) \in S /\ \A j \in S : Placed(j) <= Placed(Newest(S))
  BY <1>4, <1>5
<1>7. ASSUME NEW x \in S, \A j \in S : Placed(j) <= Placed(x) PROVE x = Newest(S)
  <2>1. Placed(x) <= Placed(Newest(S)) /\ Placed(Newest(S)) <= Placed(x)
    BY <1>6, <1>7
  <2>2. Placed(x) = Placed(Newest(S))
    BY <1>1, <1>6, <2>1
  <2> QED BY <1>1, <1>6, <2>2
<1> QED BY <1>6, <1>7

LEMMA Mirrored ==
    ASSUME NEW n \in Nat, NEW k \in 1..n, NEW p \in 1..n, ~(p <= (n - k) + 1)
    PROVE  (n - p) + 1 \in 1..n /\ (n - p) + 1 \in 1..(k - 1) /\ (n - ((n - p) + 1)) + 1 = p
  OBVIOUS

LEMMA RangeAt ==
    ASSUME NEW rows, NEW S \in SUBSET Nat, IsFiniteSet(S)
    PROVE  Range(At(rows, S)) = {rows[k] : k \in S}
<1>1. /\ \A m \in DOMAIN At(rows, S) : \E k \in S : At(rows, S)[m] = rows[k]
      /\ \A k \in S : \E m \in DOMAIN At(rows, S) : At(rows, S)[m] = rows[k]
  BY Chosen
<1> QED BY <1>1 DEF Range

\* The keys of the rows in reverse order.
Mirrors(keys, key, n) == DOMAIN keys = 1..n /\ \A k \in 1..n : keys[k] = key[order[(n - k) + 1]]

\* Of the rows in reverse order, those with a key that none before has are the newest with it.
LEMMA FirstAreNewest ==
    ASSUME IsListing(order, DOMAIN audits), NEW n, n = Len(order),
           NEW key, NEW keys, Mirrors(keys, key, n)
    PROVE  /\ FirstPlaces(keys) \in SUBSET (1..n)
           /\ \A k \in 1..n :
                 /\ order[(n - k) + 1] \in DOMAIN audits
                 /\ k \in FirstPlaces(keys) <=>
                      \A j \in DOMAIN audits :
                         key[j] = key[order[(n - k) + 1]] => Placed(j) <= Placed(order[(n - k) + 1])
           /\ \A i \in DOMAIN audits : \E k \in 1..n : order[(n - k) + 1] = i
<1>1. /\ n \in Nat /\ DOMAIN order = 1..n /\ \A k \in 1..n : order[k] \in DOMAIN audits /\ Placed(order[k]) = k
      /\ \A i \in DOMAIN audits : Placed(i) \in 1..n /\ order[Placed(i)] = i
  BY PlacedOnce
<1>2. \A k \in 1..n : (n - k) + 1 \in 1..n
  BY <1>1
<1>3. FirstPlaces(keys) = {k \in 1..n : \A l \in 1..(k - 1) : keys[l] # keys[k]}
  BY DEF FirstPlaces, Mirrors
<1>a. \A k \in 1..n : keys[k] = key[order[(n - k) + 1]]
  BY DEF Mirrors
<1>4. ASSUME NEW k \in 1..n
      PROVE  /\ order[(n - k) + 1] \in DOMAIN audits
             /\ k \in FirstPlaces(keys) <=> \A j \in DOMAIN audits : key[j] = key[order[(n - k) + 1]]
                                                => Placed(j) <= Placed(order[(n - k) + 1])
  <2> PICK i : i = order[(n - k) + 1]
    OBVIOUS
  <2>1. i \in DOMAIN audits /\ Placed(i) = (n - k) + 1 /\ keys[k] = key[i]
    BY <1>1, <1>2, <1>a
  <2>2. ASSUME k \in FirstPlaces(keys), NEW j \in DOMAIN audits, key[j] = key[i], ~(Placed(j) <= Placed(i)) PROVE FALSE
    <3> PICK l : l = (n - Placed(j)) + 1
      OBVIOUS
    <3>0. Placed(j) \in 1..n
      BY <1>1
    <3>1. l \in 1..n /\ l \in 1..(k - 1) /\ (n - l) + 1 = Placed(j)
      BY <1>1, <2>1, <2>2, <3>0, Mirrored
    <3>2. keys[l] = key[j]
      BY <1>1, <1>a, <3>1
    <3> QED BY <1>3, <2>1, <2>2, <3>1, <3>2
  <2>3. ASSUME \A j \in DOMAIN audits : key[j] = key[i] => Placed(j) <= Placed(i), NEW l \in 1..(k - 1) PROVE keys[l] # keys[k]
    <3>0. l \in 1..n /\ (n - l) + 1 \in 1..n /\ (n - l) + 1 > (n - k) + 1
      BY <1>1
    <3>1. /\ order[(n - l) + 1] \in DOMAIN audits /\ Placed(order[(n - l) + 1]) = (n - l) + 1
          /\ keys[l] = key[order[(n - l) + 1]]
      BY <1>1, <1>a, <3>0
    <3> PICK j : j = order[(n - l) + 1]
      OBVIOUS
    <3>2. j \in DOMAIN audits /\ ~(Placed(j) <= Placed(i))
      BY <1>1, <2>1, <3>0, <3>1
    <3> QED BY <2>1, <2>3, <3>1, <3>2
  <2> QED BY <1>3, <2>1, <2>2, <2>3
<1>5. ASSUME NEW i \in DOMAIN audits PROVE \E k \in 1..n : order[(n - k) + 1] = i
  <2> PICK k : k = (n - Placed(i)) + 1
    OBVIOUS
  <2>0. Placed(i) \in 1..n
    BY <1>1
  <2>1. k \in 1..n /\ (n - k) + 1 = Placed(i)
    BY <1>1, <2>0
  <2> QED BY <1>1, <2>1
<1> QED BY <1>3, <1>4, <1>5

\* The rows of a table in reverse order.
LEMMA Reversed ==
    ASSUME IsListing(order, DOMAIN audits)
    PROVE  /\ Len(order) \in Nat /\ Len(Reverse(order)) = Len(order) /\ DOMAIN Reverse(order) = 1..Len(order)
           /\ \A k \in 1..Len(order) : Reverse(order)[k] = order[(Len(order) - k) + 1]
           /\ DOMAIN Exported = 1..Len(order)
           /\ \A k \in 1..Len(order) : Exported[k] = Entry(order[(Len(order) - k) + 1])
<1>1. Len(order) \in Nat /\ DOMAIN order = 1..Len(order)
  BY DEF IsListing
<1>2. Reverse(order) = [k \in 1..Len(order) |-> order[(Len(order) - k) + 1]]
  BY DEF Reverse
<1>3. Len(Reverse(order)) = Len(order)
  BY <1>1, <1>2
<1>4. DOMAIN Exported = 1..Len(order) /\ \A k \in 1..Len(order) : Exported[k] = Entry(Reverse(order)[k])
  BY <1>1 DEF Exported
<1> QED BY <1>1, <1>2, <1>3, <1>4

\* An audit is in the list of reports when no newer one is of its url.
LEMMA Listed ==
    ASSUME IsListing(order, DOMAIN audits)
    PROVE  Range(Listing) = {i \in DOMAIN audits : \A j \in OfUrl(UrlOf(i)) : Placed(j) <= Placed(i)}
<1> PICK key : key = [i \in DOMAIN audits |-> UrlOf(i)]
  OBVIOUS
<1> PICK n : n = Len(order)
  OBVIOUS
<1> PICK rows : rows = Reverse(order)
  OBVIOUS
<1> PICK keys : keys = [k \in DOMAIN rows |-> UrlOf(rows[k])]
  OBVIOUS
<1> PICK S : S = FirstPlaces(keys)
  OBVIOUS
<1>1. n \in Nat /\ DOMAIN rows = 1..n /\ \A k \in 1..n : rows[k] = order[(n - k) + 1] /\ rows[k] \in DOMAIN audits
  <2>1. n \in Nat /\ DOMAIN order = 1..n /\ \A k \in 1..n : order[k] \in DOMAIN audits
    BY DEF IsListing
  <2>2. DOMAIN rows = 1..n /\ \A k \in 1..n : rows[k] = order[(n - k) + 1] /\ (n - k) + 1 \in 1..n
    BY <2>1, Reversed
  <2> QED BY <2>1, <2>2
<1>2. Mirrors(keys, key, n)
  BY <1>1 DEF Mirrors
<1>3. /\ S \in SUBSET (1..n)
      /\ \A k \in 1..n : k \in S <=> \A j \in DOMAIN audits : key[j] = key[order[(n - k) + 1]]
                                       => Placed(j) <= Placed(order[(n - k) + 1])
      /\ \A i \in DOMAIN audits : \E k \in 1..n : order[(n - k) + 1] = i
  <2>1. FirstPlaces(keys) \in SUBSET (1..n)
    BY <1>2, FirstAreNewest
  <2>2. \A k \in 1..n : k \in FirstPlaces(keys) <=>
                      \A j \in DOMAIN audits :
                         key[j] = key[order[(n - k) + 1]] => Placed(j) <= Placed(order[(n - k) + 1])
    BY <1>2, FirstAreNewest
  <2>3. \A i \in DOMAIN audits : \E k \in 1..n : order[(n - k) + 1] = i
    BY <1>2, FirstAreNewest
  <2> QED BY <2>1, <2>2, <2>3
<1>4. IsFiniteSet(S) /\ S \in SUBSET Nat
  <2>1. n \in Nat
    BY <1>1
  <2>2. IsFiniteSet(1..n)
    BY <2>1, FS_Interval
  <2>3. IsFiniteSet(S)
    BY <1>3, <2>2, FS_Subset
  <2> QED BY <1>1, <1>3, <2>3
<1>5. Listing = At(rows, S)
  BY DEF Listing, OnePerUrl
<1>6. Range(Listing) = {rows[k] : k \in S}
  BY <1>4, <1>5, RangeAt
<1>7. \A i \in DOMAIN audits : OfUrl(UrlOf(i)) = {j \in DOMAIN audits : key[j] = key[i]}
  BY DEF OfUrl, UrlOf
<1>8. ASSUME NEW k \in S PROVE rows[k] \in DOMAIN audits /\ \A j \in OfUrl(UrlOf(rows[k])) : Placed(j) <= Placed(rows[k])
  <2> PICK i : i = rows[k]
    OBVIOUS
  <2>1. k \in 1..n /\ i \in DOMAIN audits /\ i = order[(n - k) + 1]
    BY <1>1, <1>3
  <2>2. \A j \in DOMAIN audits : key[j] = key[i] => Placed(j) <= Placed(i)
    BY <1>3, <2>1
  <2> QED BY <1>7, <2>1, <2>2
<1>9. ASSUME NEW i \in DOMAIN audits, \A j \in OfUrl(UrlOf(i)) : Placed(j) <= Placed(i) PROVE \E k \in S : rows[k] = i
  <2>1. PICK k \in 1..n : order[(n - k) + 1] = i
    BY <1>3
  <2>2. \A j \in DOMAIN audits : key[j] = key[i] => Placed(j) <= Placed(i)
    BY <1>7, <1>9
  <2>3. k \in S
    BY <1>3, <2>1, <2>2
  <2> QED BY <1>1, <2>1, <2>3
<1> QED BY <1>6, <1>8, <1>9

\* What counts of an exported audit.
EntryOf(i, e) == e.url = UrlOf(i) /\ e.content = audits[i].content /\ e.id = i

LEMMA EntryFacts ==
    ASSUME IsListing(order, DOMAIN audits), NEW n, n = Len(order)
    PROVE  DOMAIN Exported = 1..n /\ \A k \in 1..n : EntryOf(order[(n - k) + 1], Exported[k])
<1>1. DOMAIN Exported = 1..n /\ \A k \in 1..n : Exported[k] = Entry(order[(n - k) + 1])
  BY Reversed
<1> QED BY <1>1 DEF Entry, EntryOf, UrlOf

\* An audit that is the newest with its key is exported before all others with that key.
LEMMA NewestComesFirst ==
    ASSUME IsListing(order, DOMAIN audits), NEW n, n = Len(order),
           NEW key, NEW keys, Mirrors(keys, key, n), NEW i \in DOMAIN audits,
           \A j \in DOMAIN audits : key[j] = key[i] => Placed(j) <= Placed(i)
    PROVE  \E k \in FirstPlaces(keys) : k \in 1..n /\ order[(n - k) + 1] = i
<1>1. /\ \A k \in 1..n : k \in FirstPlaces(keys) <=>
                      \A j \in DOMAIN audits :
                         key[j] = key[order[(n - k) + 1]] => Placed(j) <= Placed(order[(n - k) + 1])
  BY FirstAreNewest
<1>2. \E k \in 1..n : order[(n - k) + 1] = i
  BY FirstAreNewest
<1> QED BY <1>1, <1>2

\* Where the order is a listing, the first with a content in a pack is the newest with it.
LEMMA NewestAreAdopted == IsListing(order, DOMAIN audits) => PackCarriesNewest
<1> SUFFICES ASSUME IsListing(order, DOMAIN audits), NEW c \in Contents, Ids(c) # {}
             PROVE  \E e \in Adopted(Exported) : e.content = c /\ \A j \in Ids(c) : Placed(j) <= Placed(e.id)
  BY DEF PackCarriesNewest
<1> PICK n : n = Len(order)
  OBVIOUS
<1> PICK key : key = [i \in DOMAIN audits |-> audits[i].content]
  OBVIOUS
<1> PICK pack : pack = Exported
  OBVIOUS
<1> PICK keys : keys = [k \in DOMAIN pack |-> pack[k].content]
  OBVIOUS
<1> PICK i : i = Newest(Ids(c))
  OBVIOUS
<1>1. Ids(c) \in SUBSET DOMAIN audits /\ \A j \in DOMAIN audits : j \in Ids(c) <=> key[j] = c
  BY DEF Ids
<1>2. i \in Ids(c) /\ \A j \in Ids(c) : Placed(j) <= Placed(i)
  BY <1>1, NewestOf
<1>3. DOMAIN pack = 1..n /\ \A k \in 1..n : EntryOf(order[(n - k) + 1], pack[k])
  BY EntryFacts
<1>4. Mirrors(keys, key, n)
  <2>1. n \in Nat /\ DOMAIN order = 1..n /\ \A k \in 1..n : order[k] \in DOMAIN audits
    BY PlacedOnce
  <2>2. ASSUME NEW k \in 1..n PROVE keys[k] = key[order[(n - k) + 1]]
    <3>1. (n - k) + 1 \in 1..n
      BY <2>1
    <3> QED BY <1>3, <2>1, <3>1 DEF EntryOf
  <2> QED BY <1>3, <2>2 DEF Mirrors
<1>5. \A j \in DOMAIN audits : key[j] = key[i] => Placed(j) <= Placed(i)
  BY <1>1, <1>2
<1>6. PICK k \in FirstPlaces(keys) : k \in 1..n /\ order[(n - k) + 1] = i
  <2>1. i \in DOMAIN audits
    BY <1>1, <1>2
  <2> QED BY <1>4, <1>5, <2>1, NewestComesFirst
<1>7. pack[k].content = c /\ pack[k].id = i
  BY <1>1, <1>2, <1>3, <1>6 DEF EntryOf
<1>8. pack[k] \in Adopted(Exported)
  BY <1>6 DEF Adopted
<1> QED BY <1>2, <1>7, <1>8

\* Where the order is a listing, all lookups by url go to the newest audit of it.
LEMMA LatestIsShown == IsListing(order, DOMAIN audits) => LatestEverywhere
<1> SUFFICES ASSUME IsListing(order, DOMAIN audits), NEW u \in Held, OfUrl(u) # {}
             PROVE  /\ {i \in Range(Listing) : UrlOf(i) = u} = {ReportOf(u)}
                    /\ u \notin Fixtures => \E shown \in Catalog : shown.url = u /\ shown.id = ReportOf(u)
                    /\ Site[u] # Unlisted => LatestByUrl(Site[u]) \cap OfUrl(u) = {ReportOf(u)}
  BY DEF LatestEverywhere
<1> PICK n : n = Len(order)
  OBVIOUS
<1> PICK key : key = [i \in DOMAIN audits |-> UrlOf(i)]
  OBVIOUS
<1> PICK rows : rows = Exported
  OBVIOUS
<1> PICK keys : keys = [k \in DOMAIN rows |-> rows[k].url]
  OBVIOUS
<1> PICK i : i = ReportOf(u)
  OBVIOUS
<1>1. OfUrl(u) \in SUBSET DOMAIN audits /\ \A j \in DOMAIN audits : /\ j \in OfUrl(u) <=> UrlOf(j) = u
                                                                     /\ key[j] = UrlOf(j)
  BY DEF OfUrl, UrlOf
<1>2. /\ i \in OfUrl(u) /\ \A j \in OfUrl(u) : Placed(j) <= Placed(i)
      /\ \A x \in OfUrl(u) : (\A j \in OfUrl(u) : Placed(j) <= Placed(x)) => x = i
  BY <1>1, NewestOf DEF ReportOf
<1>3. {j \in Range(Listing) : UrlOf(j) = u} = {i}
  <2>1. \A x : x \in Range(Listing) <=> x \in DOMAIN audits /\ \A j \in OfUrl(UrlOf(x)) : Placed(j) <= Placed(x)
    BY Listed
  <2>2. i \in Range(Listing) /\ UrlOf(i) = u
    BY <1>1, <1>2, <2>1
  <2>3. ASSUME NEW x \in Range(Listing), UrlOf(x) = u PROVE x = i
    BY <1>1, <1>2, <2>1, <2>3
  <2> QED BY <2>2, <2>3
<1>4. ASSUME u \notin Fixtures PROVE \E shown \in Catalog : shown.url = u /\ shown.id = i
  <2>1. DOMAIN rows = 1..n /\ \A k \in 1..n : EntryOf(order[(n - k) + 1], rows[k])
    BY EntryFacts
  <2>2. Mirrors(keys, key, n)
    <3>1. n \in Nat /\ DOMAIN order = 1..n /\ \A k \in 1..n : order[k] \in DOMAIN audits
      BY PlacedOnce
    <3>2. ASSUME NEW k \in 1..n PROVE keys[k] = key[order[(n - k) + 1]]
      <4>1. (n - k) + 1 \in 1..n
        BY <3>1
      <4> QED BY <1>1, <2>1, <3>1, <4>1 DEF EntryOf
    <3> QED BY <2>1, <3>2 DEF Mirrors
  <2>3. \A j \in DOMAIN audits : key[j] = key[i] => Placed(j) <= Placed(i)
    BY <1>1, <1>2
  <2>4. PICK k \in FirstPlaces(keys) : k \in 1..n /\ order[(n - k) + 1] = i
    <3>1. i \in DOMAIN audits
      BY <1>1, <1>2
    <3> QED BY <2>2, <2>3, <3>1, NewestComesFirst
  <2>5. rows[k].url = u /\ rows[k].id = i
    BY <1>1, <1>2, <2>1, <2>4 DEF EntryOf
  <2> DEFINE shown == [url |-> rows[k].url, id |-> rows[k].id, heading |-> Heading(rows[k].score)]
  <2>6. shown \in Catalog
    BY <1>4, <2>4, <2>5 DEF Catalog
  <2>7. shown.url = u /\ shown.id = i
    BY <2>5
  <2> HIDE DEF shown
  <2> QED BY <2>6, <2>7
<1>5. LatestByUrl(Site[u]) \cap OfUrl(u) = {i}
  <2>1. ASSUME NEW x \in LatestByUrl(Site[u]) \cap OfUrl(u) PROVE x = i
    BY <1>1, <1>2 DEF LatestByUrl
  <2>2. i \in LatestByUrl(Site[u])
    BY <1>1, <1>2 DEF LatestByUrl
  <2> QED BY <1>2, <2>1, <2>2
<1> QED BY <1>3, <1>4, <1>5

\* However audits come to a node and are made again, a pack of all of them gives whoever imports
\* it the newest on each content (packs.py).
THEOREM PackAlwaysNewest == Spec => []PackCarriesNewest
<1> QED BY EachHasItsPlace, NewestAreAdopted, PTL

\* However audits come to a node and are made again, the report of a url, the list, the catalog
\* and the profile show the same audit of it, the newest (audits.py, germinate.py, weather.py).
THEOREM ReportsAlwaysLatest == Spec => []LatestEverywhere
<1> QED BY EachHasItsPlace, LatestIsShown, PTL
===============================================================================
