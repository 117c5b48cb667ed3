------------------------------ MODULE AuditStore ------------------------------
(***************************************************************************)
(* The tables snapshot, audit and violation, and everything that writes    *)
(* them: audits of a page (evaluator.py), texts given to the tools, packs  *)
(* of attestations (packs.py), the seeds and the burst of a germination    *)
(* (germinate.py), submissions of peers (api/mesh.py), and the sweep that  *)
(* replaces offline audits by the model's (rescore.py).                    *)
(*                                                                         *)
(* A writer is a coroutine with a session of its own; others run at every  *)
(* await of it, and an exception, a cancellation or the end of the process *)
(* cuts it short between two of them.  Only an audit of a page commits its *)
(* rows at once.  No column but the primary keys is unique.  A violation   *)
(* is a rule and the writer that cited it; audited_at is the place in      *)
(* `order`; captured_at follows the ids of snapshots.  The DELETEs of      *)
(* init_db change nothing: their connection is closed without a commit.    *)
(***************************************************************************)
EXTENDS Integers, Sequences, FiniteSets, SequencesExt, FiniteSetsExt

CONSTANTS
    Tasks,
    Kinds,          \* what each task may be asked to do
    Urls, Contents,
    Shows,          \* the contents each page shows, now one, now another
    Inline,         \* the url of texts without a page
    Answers,        \* the verdicts the model may give of a content
    Blank,          \* those it may give of an empty page
    Detected,       \* the verdict of the detectors
    Pack,           \* attestations of a pack: url, content, verdict
    Submissions,    \* attestations that peers submit
    Limit,          \* audits a sweep takes
    Burst,          \* audits a germination makes
    MaxRows,        \* bound on the audits stored or begun
    MaxCuts         \* bound on the writers cut short

ASSUME AuditStoreAssumption ==
    /\ IsFiniteSet(Tasks) /\ Inline \notin Urls
    /\ \A s \in Submissions : s.method \notin {"pack", "seed"}  \* no peer's method is one of the model's own
    /\ Limit \in Nat \ {0} /\ Burst \in Nat /\ MaxRows \in Nat /\ MaxCuts \in Nat

VARIABLES
    snapshots,      \* rows of table snapshot, by id: url and content
    audits,         \* rows of table audit, by id, with their violations
    order,          \* ids of audits, by audited_at
    items,          \* processing_status of the feed item of each url
    task,           \* what each task does, and the values it holds
    cut,            \* history: audits whose writer was cut short before its last commit,
    cuts,           \*          the writers that were cut short,
    missed          \*          and what the last sweep to take it did not rescore

vars == <<snapshots, audits, order, items, task, cut, cuts, missed>>
tables == <<snapshots, audits, order>>
history == <<cut, cuts, missed>>

Idle == [at |-> "idle", kind |-> "none", url |-> Inline, content |-> "", snap |-> 0, audit |-> 0,
         verdict |-> Detected, method |-> "none", todo |-> <<>>, old |-> {}, count |-> 0]

Init ==
    /\ snapshots = <<>> /\ audits = <<>> /\ order = <<>>
    /\ items \in [Urls -> {"none", "pending"}]
    /\ task = [t \in Tasks |-> Idle] /\ cut = {} /\ cuts = 0 /\ missed = {}

-----------------------------------------------------------------------------
With(record, values) == [f \in DOMAIN record |-> IF f \in DOMAIN values THEN values[f] ELSE record[f]]
Set(t, values) == task' = [task EXCEPT ![t] = With(@, values)]
Goto(t, step) == Set(t, [at |-> step])
Ids(c) == {i \in DOMAIN audits : audits[i].content = c}
OfUrl(u) == {i \in DOMAIN audits : snapshots[audits[i].snap].url = u}
Captures(c) == {s \in DOMAIN snapshots : snapshots[s].content = c}
Rows(t, v) == {<<r, t>> : r \in v.rules}

\* Places in ascending order, and the rows at them.
Ascending(places) ==
    [n \in 1..Cardinality(places) |-> CHOOSE k \in places : Cardinality({j \in places : j <= k}) = n]
At(rows, places) == LET at == Ascending(places) IN [n \in DOMAIN at |-> rows[at[n]]]

\* An attestation of a pack is done: the next one, and after the seeds the burst, over the
\* items that wait in the queue.
Waiting == {u \in Urls : items[u] = "pending"}
NextAttestation(t) ==
    task' = [task EXCEPT ![t] =
        IF Len(task[t].todo) > 1 THEN [task[t] EXCEPT !.at = "check", !.todo = Tail(@)]
        ELSE IF task[t].kind = "seed"
        THEN [Idle EXCEPT !.at = "burst", !.kind = "seed", !.todo = SetToSeq(Waiting)]
        ELSE Idle]

\* The caller of audit_url has its report.
Answered(t) ==
    task' = [task EXCEPT ![t] =
        IF task[t].kind = "seed"
        THEN [Idle EXCEPT !.at = "mark", !.kind = "seed", !.todo = task[t].todo, !.url = task[t].url,
                          !.count = task[t].count + 1]
        ELSE Idle]

-----------------------------------------------------------------------------
\* audit_url: the page is captured first.
Room == Len(audits) + Cardinality({t \in Tasks : task[t].at # "idle"}) < MaxRows

Ask(t, u) ==
    /\ task[t].at = "idle" /\ Room
    /\ \E k \in Kinds[t] \cap {"audit", "forced"} :
         \E c \in Shows[u] : Set(t, [at |-> "lookup", kind |-> k, url |-> u, content |-> c])
    /\ UNCHANGED <<tables, items, history>>

\* The oldest audit of the content is the answer, unless the caller wants a new one.
Lookup(t) ==
    /\ task[t].at = "lookup"
    /\ IF task[t].kind # "forced" /\ Ids(task[t].content) # {} THEN Answered(t) ELSE Goto(t, "evaluate")
    /\ UNCHANGED <<tables, items, history>>

\* A text is evaluated without a page and without asking the cache.
Paste(t, c) ==
    /\ task[t].at = "idle" /\ "text" \in Kinds[t] /\ Room
    /\ Set(t, [at |-> "evaluate", kind |-> "text", url |-> Inline, content |-> c])
    /\ UNCHANGED <<tables, items, history>>

\* The model answers, or the detectors do.
Evaluate(t) ==
    /\ task[t].at = "evaluate"
    /\ LET then == IF task[t].kind = "text" THEN "snap" ELSE "find" IN
       \/ \E v \in Answers[task[t].content] : Set(t, [at |-> then, verdict |-> v, method |-> "llm"])
       \/ Set(t, [at |-> then, verdict |-> Detected, method |-> "offline"])
    /\ UNCHANGED <<tables, items, history>>

\* A snapshot of the same content is taken, whatever url it has.
Find(t) ==
    /\ task[t].at = "find"
    /\ Set(t, [at |-> "persist", snap |-> IF Captures(task[t].content) = {} THEN 0
                                          ELSE Min(Captures(task[t].content))])
    /\ UNCHANGED <<tables, items, history>>

\* An audit row of a task, before its violations.
AuditRow(t, snap) ==
    [snap |-> snap, content |-> task[t].content, verdict |-> task[t].verdict, by |-> t,
     method |-> task[t].method, preserved |-> task[t].method \in {"offline", "pack"},
     adopted |-> task[t].method \in {"pack", "seed"}, stored |-> {}]

Captured(t) == Append(snapshots, [url |-> task[t].url, content |-> task[t].content])

\* Mutant of Persist: the violations follow with another commit.
PersistVerdict(t) ==
    /\ task[t].at = "persist"
    /\ LET new == task[t].snap = 0
           snap == IF new THEN Len(snapshots) + 1 ELSE task[t].snap
       IN  /\ snapshots' = IF new THEN Captured(t) ELSE snapshots
           /\ audits' = Append(audits, AuditRow(t, snap))
    /\ order' = Append(order, Len(audits) + 1)
    /\ Answered(t)
    /\ UNCHANGED <<items, history>>

\* Snapshot, audit and violations of a page are committed together.
Persist(t) ==
    /\ task[t].at = "persist"
    /\ LET new == task[t].snap = 0
           snap == IF new THEN Len(snapshots) + 1 ELSE task[t].snap
       IN  /\ snapshots' = IF new THEN Captured(t) ELSE snapshots
           /\ audits' = Append(audits, [AuditRow(t, snap) EXCEPT !.stored = Rows(t, task[t].verdict)])
    /\ order' = Append(order, Len(audits) + 1)
    /\ Answered(t)
    /\ UNCHANGED <<items, history>>

-----------------------------------------------------------------------------
\* A pack, or the seeds of a germination, attestation by attestation.
Import(t) ==
    /\ task[t].at = "idle" /\ Room
    /\ \E k \in Kinds[t] \cap {"pack", "seed"} : Set(t, [at |-> "check", kind |-> k, todo |-> Pack])
    /\ UNCHANGED <<tables, items, history>>

\* The attestation a task is at, and the step it goes on with.
Hold(t, step, snap) ==
    LET item == Head(task[t].todo) IN
    Set(t, [at |-> step, url |-> item.url, content |-> item.content, verdict |-> item.verdict,
            method |-> task[t].kind, snap |-> snap])

\* Mutant of Check: an attestation is known by the url of its page.
CheckByUrl(t) ==
    /\ task[t].at = "check"
    /\ LET known == {s \in DOMAIN snapshots : snapshots[s].url = Head(task[t].todo).url} IN
       IF known = {} THEN Hold(t, "snap", 0)
       ELSE IF task[t].kind = "pack" THEN NextAttestation(t)
       ELSE Hold(t, "audit", Min(known))
    /\ UNCHANGED <<tables, items, history>>

\* A pack passes over every content that has a snapshot; the seeds use that snapshot.
Check(t) ==
    /\ task[t].at = "check"
    /\ LET known == Captures(Head(task[t].todo).content) IN
       IF known = {} THEN Hold(t, "snap", 0)
       ELSE IF task[t].kind = "pack" THEN NextAttestation(t)
       ELSE Hold(t, "seek", Min(known))
    /\ UNCHANGED <<tables, items, history>>

\* The seeds also pass over a content that has an audit.
Seek(t) ==
    /\ task[t].at = "seek"
    /\ IF Ids(task[t].content) # {} THEN NextAttestation(t) ELSE Goto(t, "audit")
    /\ UNCHANGED <<tables, items, history>>

\* A submission is attached to the last snapshot of its url, whatever its content.
Submit(t, s) ==
    /\ task[t].at = "idle" /\ "submit" \in Kinds[t] /\ Room
    /\ LET known == {i \in DOMAIN snapshots : snapshots[i].url = s.url} IN
       Set(t, [at |-> IF known = {} THEN "snap" ELSE "audit", kind |-> "submit", url |-> s.url,
               content |-> s.content, verdict |-> s.verdict, method |-> s.method,
               snap |-> IF known = {} THEN 0 ELSE Max(known)])
    /\ UNCHANGED <<tables, items, history>>

\* Three commits: the snapshot, the audit, its violations.
CommitSnapshot(t) ==
    /\ task[t].at = "snap"
    /\ snapshots' = Captured(t)
    /\ Set(t, [at |-> IF task[t].kind = "seed" THEN "seek" ELSE "audit", snap |-> Len(snapshots) + 1])
    /\ UNCHANGED <<audits, order, items, history>>

\* A peer dates its audits itself.
CommitAudit(t) ==
    /\ task[t].at = "audit"
    /\ audits' = Append(audits, AuditRow(t, task[t].snap))
    /\ LET id == Len(audits) + 1 IN
       /\ order' \in {Append(order, id)} \cup (IF task[t].kind = "submit" THEN {<<id>> \o order} ELSE {})
       /\ Set(t, [at |-> "violations", audit |-> id])
    /\ UNCHANGED <<snapshots, items, history>>

CommitViolations(t) ==
    /\ task[t].at = "violations"
    /\ audits' = [audits EXCEPT ![task[t].audit].stored = @ \cup Rows(t, task[t].verdict)]
    /\ CASE task[t].kind = "seed" -> Goto(t, "item")
         [] task[t].kind = "pack" -> NextAttestation(t)
         [] OTHER -> task' = [task EXCEPT ![t] = Idle]
    /\ UNCHANGED <<snapshots, order, items, history>>

\* The seeds enter a feed item of the snapshot's url, if there is none.
CommitItem(t) ==
    /\ task[t].at = "item"
    /\ LET u == snapshots[task[t].snap].url IN
       items' = IF u \in Urls /\ items[u] = "none" THEN [items EXCEPT ![u] = "mesh_adopted"] ELSE items
    /\ NextAttestation(t)
    /\ UNCHANGED <<tables, history>>

-----------------------------------------------------------------------------
\* Mutant of BurstItem: the item is settled before its audit.
BurstSettles(t) ==
    /\ task[t].at = "burst" /\ task[t].todo # <<>> /\ task[t].count < Burst
    /\ LET u == Head(task[t].todo) IN
       /\ items' = [items EXCEPT ![u] = "audited"]
       /\ \E c \in Shows[u] :
            Set(t, [at |-> "lookup", url |-> u, content |-> c, todo |-> Tail(task[t].todo)])
    /\ UNCHANGED <<tables, history>>

\* The burst: an item of the list it loaded is adopted if its url has an audit; otherwise it is
\* audited, or left when the headroom is gone.
BurstItem(t) ==
    /\ task[t].at = "burst" /\ task[t].todo # <<>> /\ task[t].count < Burst
    /\ LET u == Head(task[t].todo) IN
       IF OfUrl(u) # {}
       THEN /\ items' = [items EXCEPT ![u] = "mesh_adopted"]
            /\ Set(t, [todo |-> Tail(task[t].todo)])
       ELSE /\ \/ Set(t, [todo |-> Tail(task[t].todo)])
               \/ \E c \in Shows[u] :
                    Set(t, [at |-> "lookup", url |-> u, content |-> c, todo |-> Tail(task[t].todo)])
            /\ UNCHANGED items
    /\ UNCHANGED <<tables, history>>

Mark(t) ==
    /\ task[t].at = "mark"
    /\ items' = [items EXCEPT ![task[t].url] = "audited"]
    /\ Set(t, [at |-> "burst"])
    /\ UNCHANGED <<tables, history>>

AuditFails(t) ==
    /\ task[t].kind = "seed" /\ task[t].at \in {"lookup", "evaluate", "find", "persist"}
    /\ items' = [items EXCEPT ![task[t].url] = "error"]
    /\ Set(t, [at |-> "burst"])
    /\ UNCHANGED <<tables, history>>

BurstEnds(t) ==
    /\ task[t].at = "burst" /\ (task[t].todo = <<>> \/ task[t].count >= Burst)
    /\ task' = [task EXCEPT ![t] = Idle]
    /\ UNCHANGED <<tables, items, history>>

-----------------------------------------------------------------------------
\* A sweep loads the oldest audits that are offline or marked as preserving the quota.
NeedsModel(i) == audits[i].preserved \/ audits[i].method = "offline"
Oldest == LET due == At(order, {k \in DOMAIN order : NeedsModel(order[k])})
          IN  SubSeq(due, 1, Min({Limit, Len(due)}))

Sweep(t) ==
    /\ task[t].at = "idle" /\ "sweep" \in Kinds[t]
    /\ Oldest # <<>>
    /\ Set(t, [at |-> "rescore", kind |-> "sweep", todo |-> Oldest])
    /\ missed' = missed \ ToSet(Oldest)
    /\ UNCHANGED <<tables, items, cut, cuts>>

Done(t) == task' = [task EXCEPT ![t] =
    IF Len(@.todo) > 1 THEN [Idle EXCEPT !.at = "rescore", !.kind = "sweep", !.todo = Tail(task[t].todo)] ELSE Idle]

\* Mutant of Rescore: a failure ends the sweep.
RescoreStops(t) ==
    /\ task[t].at = "rescore"
    /\ \/ /\ task' = [task EXCEPT ![t] = Idle]
          /\ missed' = missed \cup {Head(task[t].todo)}
       \/ /\ \E v \in Blank : Set(t, [at |-> "read", verdict |-> v])
          /\ UNCHANGED missed
    /\ UNCHANGED <<tables, items, cut, cuts>>

\* No row has the path of its page, so the model is shown an empty one with the title.  An
\* exception, or an answer without the model, leaves the audit as it is; the next has its turn.
Rescore(t) ==
    /\ task[t].at = "rescore"
    /\ \/ /\ Done(t)
          /\ missed' = missed \cup {Head(task[t].todo)}
       \/ /\ \E v \in Blank : Set(t, [at |-> "read", verdict |-> v])
          /\ UNCHANGED missed
    /\ UNCHANGED <<tables, items, cut, cuts>>

\* Mutant of Rescored: the audit stays marked.
RescoredPreserved(row, t) ==
    [row EXCEPT !.verdict = task[t].verdict, !.by = t, !.method = "llm", !.adopted = FALSE,
                !.stored = (@ \ task[t].old) \cup Rows(t, task[t].verdict)]

\* The columns a sweep assigns, and the violations it read replaced by those it found.
Rescored(row, t) ==
    [row EXCEPT !.verdict = task[t].verdict, !.by = t, !.method = "llm", !.adopted = FALSE, !.preserved = FALSE,
                !.stored = (@ \ task[t].old) \cup Rows(t, task[t].verdict)]

ReadViolations(t) ==
    /\ task[t].at = "read"
    /\ Set(t, [at |-> "replace", old |-> audits[Head(task[t].todo)].stored])
    /\ UNCHANGED <<tables, items, history>>

Replace(t) ==
    /\ task[t].at = "replace"
    /\ LET id == Head(task[t].todo) IN
       /\ audits' = [audits EXCEPT ![id] = Rescored(@, t)]
       /\ order' = Append(At(order, {k \in DOMAIN order : order[k] # id}), id)
    /\ Done(t)
    /\ UNCHANGED <<snapshots, items, history>>

\* Anything ends a writer between two steps; the seeds go on with their next attestation when
\* it is an exception.
Cut(t) ==
    /\ task[t].at # "idle" /\ cuts < MaxCuts
    /\ cuts' = cuts + 1
    /\ cut' = IF task[t].at = "violations" THEN cut \cup {task[t].audit} ELSE cut
    /\ missed' = IF task[t].kind = "sweep" THEN missed \cup ToSet(task[t].todo) ELSE missed
    /\ \/ task' = [task EXCEPT ![t] = Idle]
       \/ task[t].kind = "seed" /\ task[t].at \in {"check", "seek", "snap", "audit", "violations", "item"}
            /\ NextAttestation(t)
    /\ UNCHANGED <<tables, items>>

Work(t) ==
    \/ Lookup(t) \/ Evaluate(t) \/ Find(t) \/ Persist(t)
    \/ Check(t) \/ Seek(t) \/ CommitSnapshot(t) \/ CommitAudit(t) \/ CommitViolations(t) \/ CommitItem(t)
    \/ BurstItem(t) \/ Mark(t) \/ BurstEnds(t)
    \/ Rescore(t) \/ ReadViolations(t) \/ Replace(t)

Next ==
    \E t \in Tasks :
         \/ \E u \in Urls : Ask(t, u)
         \/ \E c \in Contents : Paste(t, c)
         \/ \E s \in Submissions : Submit(t, s)
         \/ Import(t) \/ Sweep(t) \/ Work(t) \/ AuditFails(t) \/ Cut(t)

Spec == Init /\ [][Next]_vars

\* The event loop runs a sweep that was called: what it awaits returns or raises.  Nobody has
\* to call one, and no other writer has to go on.
Sweepers == {t \in Tasks : "sweep" \in Kinds[t]}
FairSpec == Spec /\ \A t \in Sweepers : WF_vars(Work(t))

-----------------------------------------------------------------------------
\* Atomicity: whoever wrote an audit, and whatever sweeps replaced it meanwhile, the rules of
\* its verdict are in its violations, unless a writer is at them or was cut short there.
CompleteUnlessCut ==
    \A i \in DOMAIN audits :
        \/ \A r \in audits[i].verdict.rules : <<r, audits[i].by>> \in audits[i].stored
        \/ i \in cut
        \/ \E t \in Tasks : task[t].at = "violations" /\ task[t].audit = i

\* Retries and restarts: however often packs are imported and nodes germinate, a content is
\* adopted by each of them once, as far as they run at the same time.
Adopters == {t \in Tasks : Kinds[t] \cap {"pack", "seed"} # {}}
AdoptionsBounded ==
    \A c \in Contents : Cardinality({i \in Ids(c) : audits[i].adopted}) <= Cardinality(Adopters)

\* A feed item that a germination settled has an audit of what its page has shown, also when
\* another url of the same content has it.
SettledItemsHaveAudits ==
    \A u \in Urls : items[u] \in {"audited", "mesh_adopted"} =>
        OfUrl(u) # {} \/ \E c \in Shows[u] : Ids(c) # {}

\* A sweep passes over what it fails on: each audit on its list is the model's in the end, or
\* the model failed on this one, or the sweep itself was cut short (rescore.py:84, 163-165);
\* whoever adds, replaces or dates back audits meanwhile.
SweepsPass ==
    \A i \in 1..MaxRows :
        (\E t \in Tasks : task[t].kind = "sweep" /\ i \in ToSet(task[t].todo))
            ~> ((i \in DOMAIN audits /\ ~NeedsModel(i)) \/ i \in missed)

\* Not so: the violations of an audit are those of the evaluation whose score it has.  A sweep
\* replaces an audit whose importer has its violations still to commit (rescore.py:119).
VerdictOfOneEvaluation ==
    \A i \in DOMAIN audits : \A row \in audits[i].stored : row[2] = audits[i].by

\* Not so: who asks for a page has the latest audit of its content (evaluator.py:310): a forced
\* audit is stored, and the oldest is what every later caller is given.
LatestIsServed ==
    \A c \in Contents : Ids(c) # {} =>
        \A j \in Ids(c) : audits[Min(Ids(c))].method = "offline" => audits[j].method = "offline"
================================================================================
