----------------------------- MODULE FeedIngestion ----------------------------
(***************************************************************************)
(* The items of one syndicated feed from publication to audit, and the     *)
(* tasks that work on them at the same time: feed syncs (sync_single_feed  *)
(* of credence/feeds/worker.py, run by the sifter daemon, at boot, by      *)
(* germination and by callers of the API) and boredom cycles               *)
(* (run_boredom_cycle of credence/feeds/boredom.py), with the effort       *)
(* avoidance of credence/feeds/dedup.py and the cache and persistence of   *)
(* audit_url (credence/pipeline/evaluator.py).                             *)
(*                                                                         *)
(* A step is the code between two awaits that another task's commit can    *)
(* tell apart.  A document of the feed is a version and the articles it    *)
(* lists; the version stands for ETag and Last-Modified.                   *)
(***************************************************************************)
EXTENDS Integers, FiniteSets

CONSTANTS
    Urls,           \* articles
    Syncs,          \* tasks that sync the feed
    Forced,         \* those with force_refresh: the sentinel burst at boot
    Discovering,    \* those with evaluate_novel=False: germination
    Cycles,         \* tasks that run boredom cycles
    IsSentinel,     \* the subscription is in sentinel mode
    NoUrl,          \* no article
    MaxVersion,     \* bound on the documents published
    MaxBoots        \* bound on the forced syncs of a behaviour

Tasks == Syncs \union Cycles

ASSUME TasksAssumption ==
    /\ IsFiniteSet(Tasks) /\ Syncs \intersect Cycles = {}
    /\ Forced \subseteq Syncs /\ Discovering \subseteq Syncs \ Forced
    /\ IsSentinel \in BOOLEAN /\ NoUrl \notin Urls
    /\ MaxVersion \in Nat \ {0} /\ MaxBoots \in Nat

VARIABLES
    feed,       \* the document the publisher serves
    etag,       \* version stored with the subscription
    item,       \* FeedItem.processing_status of each article
    audits,     \* audits stored for each article
    tokens,     \* headroom: the breaker is closed and 30% of the day is left
    boots,      \* forced syncs so far
    cut,        \* history: an exception, a cancellation or a crash ended a task
    pc,         \* what each task does next
    todo,       \* the articles each has yet to process
    url,        \* the one it processes
    held,       \* the status the task loaded or wrote last
    known       \* what it read at its start: a version, or the headroom of a cycle

vars == <<feed, etag, item, audits, tokens, boots, cut, pc, todo, url, held, known>>

Statuses == {"absent", "pending", "audited", "mesh_adopted", "skipped", "error"}
Steps == {"idle", "fetch", "store", "scan", "next", "lookup", "insert", "dedup", "gate",
          "audit", "persist", "mark", "fail"}
Versions == 0..MaxVersion

Init ==
    /\ \E listed \in SUBSET Urls : feed = [version |-> 1, urls |-> listed]
    /\ etag = 0
    /\ item = [u \in Urls |-> "absent"]
    /\ audits = [u \in Urls |-> 0]
    /\ tokens = TRUE /\ boots = 0 /\ cut = FALSE
    /\ pc = [t \in Tasks |-> "idle"]
    /\ todo = [t \in Tasks |-> {}]
    /\ url = [t \in Tasks |-> NoUrl]
    /\ held = [t \in Tasks |-> "absent"]
    /\ known = [t \in Tasks |-> 0]

Goto(t, step) == pc' = [pc EXCEPT ![t] = step]

\* The task's session is closed, and what it held is forgotten.
Close(t) ==
    /\ Goto(t, "idle")
    /\ todo' = [todo EXCEPT ![t] = {}]
    /\ url' = [url EXCEPT ![t] = NoUrl]
    /\ held' = [held EXCEPT ![t] = "absent"]
    /\ known' = [known EXCEPT ![t] = 0]

\* The item is done with, whatever became of it.
EntryDone(t) ==
    /\ Goto(t, "next")
    /\ url' = [url EXCEPT ![t] = NoUrl]
    /\ held' = [held EXCEPT ![t] = "absent"]

\* A status is committed, and the task is done with the item.  A column the task believes
\* unchanged is not written.
Settle(t, status) ==
    /\ item' = [item EXCEPT ![url[t]] = IF held[t] = status THEN @ ELSE status]
    /\ EntryDone(t)

\* The item is left as it is.
Leave(t) == EntryDone(t) /\ UNCHANGED item

\* The step is over, and no item of the table changed.
Proceed(t, step) == Goto(t, step) /\ UNCHANGED <<item, url, held>>

Unsettled == <<feed, etag, tokens, boots, todo, known>>

-----------------------------------------------------------------------------
(* A sync polls the feed.                                                  *)

\* The sync loads the subscription; a forced one sends no validators.
Poll(t) ==
    /\ pc[t] = "idle"
    /\ IF t \in Forced THEN boots < MaxBoots /\ boots' = boots + 1 ELSE UNCHANGED boots
    /\ known' = [known EXCEPT ![t] = IF t \in Forced THEN 0 ELSE etag]
    /\ Goto(t, "fetch")
    /\ UNCHANGED <<feed, etag, item, audits, tokens, cut, todo, url, held>>

\* 304 Not Modified ends the poll; a new document carries its validators and entries.
Fetch(t) ==
    /\ pc[t] = "fetch"
    /\ IF known[t] = feed.version THEN Close(t)
       ELSE /\ Goto(t, "store")
            /\ todo' = [todo EXCEPT ![t] = feed.urls]
            /\ known' = [known EXCEPT ![t] = feed.version]
            /\ UNCHANGED <<url, held>>
    /\ UNCHANGED <<feed, etag, item, audits, tokens, boots, cut>>

\* Mutant of FetchFails: an answer that cannot be parsed still brings its validators.
FetchFailsStored(t) ==
    /\ pc[t] = "fetch"
    /\ Goto(t, "store")
    /\ known' = [known EXCEPT ![t] = feed.version]
    /\ UNCHANGED <<feed, etag, item, audits, tokens, boots, cut, todo, url, held>>

\* A network or parse error is reported in the summary.
FetchFails(t) ==
    /\ pc[t] = "fetch"
    /\ Close(t)
    /\ UNCHANGED <<feed, etag, item, audits, tokens, boots, cut>>

\* The validators are committed before any entry is processed.  A forced sync may hold
\* them already, and then writes none.
StoreValidators(t) ==
    /\ pc[t] = "store"
    /\ etag' = known[t] \/ (t \in Forced /\ UNCHANGED etag)
    /\ known' = [known EXCEPT ![t] = 0]
    /\ Goto(t, "next")
    /\ UNCHANGED <<feed, item, audits, tokens, boots, cut, todo, url, held>>

-----------------------------------------------------------------------------
(* A boredom cycle picks pending items.                                    *)

\* The cycle reads the headroom once.
StartCycle(t) ==
    /\ pc[t] = "idle"
    /\ known' = [known EXCEPT ![t] = IF tokens THEN 1 ELSE 0]
    /\ Goto(t, "scan")
    /\ UNCHANGED <<feed, etag, item, audits, tokens, boots, cut, todo, url, held>>

\* Which pending items it picks is the subject of BoredomCycle.
Scan(t) ==
    /\ pc[t] = "scan"
    /\ \E picks \in SUBSET {u \in Urls : item[u] = "pending"} :
           todo' = [todo EXCEPT ![t] = picks]
    /\ Goto(t, "next")
    /\ UNCHANGED <<feed, etag, item, audits, tokens, boots, cut, url, held, known>>

-----------------------------------------------------------------------------
(* The items, one after the other.                                         *)

\* A sync looks the article up; one that only discovers passes over those it finds.
NextEntry(t) ==
    /\ pc[t] = "next"
    /\ \E u \in todo[t] :
        /\ todo' = [todo EXCEPT ![t] = @ \ {u}]
        /\ IF t \in Cycles
           THEN /\ Goto(t, "dedup")
                /\ url' = [url EXCEPT ![t] = u]
                /\ held' = [held EXCEPT ![t] = "pending"]
           ELSE IF t \in Discovering /\ item[u] # "absent"
           THEN UNCHANGED <<pc, url, held>>
           ELSE /\ Goto(t, IF item[u] = "absent" THEN "insert" ELSE "lookup")
                /\ url' = [url EXCEPT ![t] = u]
                /\ held' = [held EXCEPT ![t] = item[u]]
    /\ UNCHANGED <<feed, etag, item, audits, tokens, boots, cut, known>>

Finish(t) ==
    /\ pc[t] = "next" /\ todo[t] = {}
    /\ Close(t)
    /\ UNCHANGED <<feed, etag, item, audits, tokens, boots, cut>>

\* An article with an audit is marked and left, unless the audit was made offline and
\* there is an API key now.
LookUp(t) ==
    /\ pc[t] = "lookup"
    /\ \/ audits[url[t]] > 0 /\ t \notin Forced /\ Settle(t, "audited")
       \/ Proceed(t, IF t \in Forced THEN "gate" ELSE "dedup")
    /\ UNCHANGED <<audits, cut>> /\ UNCHANGED Unsettled

\* Mutant of Insert: the sync ends in silence when the article is taken.
InsertSwallows(t) ==
    /\ pc[t] = "insert"
    /\ IF item[url[t]] = "absent"
       THEN /\ item' = [item EXCEPT ![url[t]] = "pending"]
            /\ held' = [held EXCEPT ![t] = "pending"]
            /\ Goto(t, IF t \in Forced THEN "gate" ELSE "dedup")
            /\ UNCHANGED <<url, todo, known>>
       ELSE Close(t) /\ UNCHANGED item
    /\ UNCHANGED <<feed, etag, audits, tokens, boots, cut>>

\* item_url is unique: a task that finds it taken raises, and the sync ends.
Insert(t) ==
    /\ pc[t] = "insert"
    /\ IF item[url[t]] = "absent"
       THEN /\ item' = [item EXCEPT ![url[t]] = "pending"]
            /\ held' = [held EXCEPT ![t] = "pending"]
            /\ Goto(t, IF t \in Forced THEN "gate" ELSE "dedup")
            /\ UNCHANGED <<cut, url, todo, known>>
       ELSE cut' = TRUE /\ Close(t) /\ UNCHANGED item
    /\ UNCHANGED <<feed, etag, audits, tokens, boots>>

\* Mutant of Dedup: the cache is not asked.
DedupNever(t) ==
    /\ pc[t] = "dedup"
    /\ Proceed(t, "gate")
    /\ UNCHANGED <<audits, cut>> /\ UNCHANGED Unsettled

\* check_mesh_effort_avoidance: an article audited before is not audited again.  The
\* cycle marks it as adopted; the sync only counts it.
Dedup(t) ==
    /\ pc[t] = "dedup"
    /\ IF audits[url[t]] = 0 THEN Proceed(t, "gate")
       ELSE IF t \in Cycles THEN Settle(t, "mesh_adopted")
       ELSE Leave(t)
    /\ UNCHANGED <<audits, cut>> /\ UNCHANGED Unsettled

\* A sync asks the governor and marks the item as skipped; a cycle leaves it pending.
Gate(t) ==
    /\ pc[t] = "gate"
    /\ IF t \in Cycles
       THEN IF known[t] = 1 THEN Proceed(t, "audit")
            ELSE Leave(t)
       ELSE IF ~tokens /\ ~IsSentinel THEN Settle(t, "skipped")
       ELSE IF t \in Discovering THEN Leave(t)
       ELSE Proceed(t, "audit")
    /\ UNCHANGED <<audits, cut>> /\ UNCHANGED Unsettled

-----------------------------------------------------------------------------
(* audit_url, and what becomes of the item.                                *)

\* Mutant of Capture: the item is marked before its audit is stored.
CaptureMarks(t) ==
    /\ pc[t] = "audit"
    /\ Proceed(t, "mark")
    /\ UNCHANGED <<audits, cut>> /\ UNCHANGED Unsettled

\* The page is captured.  Its text may have been audited before, under this address or
\* another; a changed page is evaluated.
Capture(t) ==
    /\ pc[t] = "audit"
    /\ \/ t \notin Forced /\ (\E u \in Urls : audits[u] > 0) /\ Proceed(t, "mark")
       \/ Proceed(t, "persist")
    /\ UNCHANGED <<audits, cut>> /\ UNCHANGED Unsettled

\* Snapshot, audit and violations are one commit.
Persist(t) ==
    /\ pc[t] = "persist"
    /\ audits' = [audits EXCEPT ![url[t]] = @ + 1]
    /\ Proceed(t, "mark")
    /\ UNCHANGED cut /\ UNCHANGED Unsettled

AuditFails(t) ==
    /\ pc[t] \in {"audit", "persist"}
    /\ Proceed(t, "fail")
    /\ UNCHANGED <<audits, cut>> /\ UNCHANGED Unsettled

Mark(t) ==
    /\ pc[t] \in {"mark", "fail"}
    /\ Settle(t, IF pc[t] = "mark" THEN "audited" ELSE "error")
    /\ UNCHANGED <<audits, cut>> /\ UNCHANGED Unsettled

\* A cycle updates the reputation of the domain when it has marked the item; if that
\* raises, the item is marked again.
ReputationFails(t) ==
    /\ pc[t] = "mark" /\ t \in Cycles
    /\ item' = [item EXCEPT ![url[t]] = "audited"]
    /\ held' = [held EXCEPT ![t] = "audited"]
    /\ Goto(t, "fail")
    /\ UNCHANGED <<audits, cut, url>> /\ UNCHANGED Unsettled

\* A locked database, a cancellation or a crash: the task ends and its work is lost.
CutShort(t) ==
    /\ pc[t] # "idle"
    /\ cut' = TRUE /\ Close(t)
    /\ UNCHANGED <<feed, etag, item, audits, tokens, boots>>

-----------------------------------------------------------------------------
Publish(listed) ==
    /\ feed.version < MaxVersion
    /\ feed' = [version |-> feed.version + 1, urls |-> listed]
    /\ UNCHANGED <<etag, item, audits, tokens, boots, cut, pc, todo, url, held, known>>

TokensChange ==
    /\ tokens' = ~tokens
    /\ UNCHANGED <<feed, etag, item, audits, boots, cut, pc, todo, url, held, known>>

Process(t) == NextEntry(t) \/ Finish(t) \/ LookUp(t) \/ Insert(t) \/ Dedup(t) \/ Gate(t)
                  \/ Capture(t) \/ Persist(t) \/ AuditFails(t) \/ Mark(t)
                  \/ ReputationFails(t)

Sync(t) == Poll(t) \/ StoreValidators(t) \/ Process(t)
Cycle(t) == StartCycle(t) \/ Scan(t) \/ Process(t)

Next ==
    \/ \E t \in Syncs : Sync(t) \/ Fetch(t) \/ FetchFails(t) \/ CutShort(t)
    \/ \E t \in Cycles : Cycle(t) \/ CutShort(t)
    \/ \E listed \in SUBSET Urls : Publish(listed)
    \/ TokensChange

Spec == Init /\ [][Next]_vars

\* The daemons poll and cycle for ever, the event loop runs every task, an audit ends or
\* raises, and a publisher that is asked again and again answers.
Fairness ==
    /\ \A t \in Syncs : WF_vars(Sync(t)) /\ SF_vars(Fetch(t))
    /\ \A t \in Cycles : WF_vars(Cycle(t))
FairSpec == Spec /\ Fairness

-----------------------------------------------------------------------------
TypeOK ==
    /\ feed \in [version: Versions, urls: SUBSET Urls]
    /\ etag \in Versions /\ boots \in Nat
    /\ item \in [Urls -> Statuses] /\ audits \in [Urls -> Nat]
    /\ tokens \in BOOLEAN /\ cut \in BOOLEAN
    /\ pc \in [Tasks -> Steps] /\ todo \in [Tasks -> SUBSET Urls]
    /\ url \in [Tasks -> Urls \union {NoUrl}] /\ held \in [Tasks -> Statuses]
    /\ known \in [Tasks -> Versions]

\* Nothing locks an article between the check of the cache and the commit of its audit,
\* so it may be paid for more than once: by every task at the same time, and by every
\* forced sync, but no more.
DuplicatesBounded == \A u \in Urls : audits[u] <= Cardinality(Tasks) + boots

\* An item said to be settled has an audit behind it: its own if it was adopted, or that
\* of the same text under another address.
SettledIsBacked ==
    \A u \in Urls :
        /\ item[u] = "audited" => \E v \in Urls : audits[v] > 0
        /\ item[u] = "mesh_adopted" => audits[u] > 0

\* A version is stored only with the entries of its document discovered or in a task's
\* hands, as long as no task was cut short: the 304 that follows hides nothing.
NothingHidden ==
    ~cut /\ etag = feed.version =>
        \A u \in feed.urls :
            \/ item[u] # "absent"
            \/ \E t \in Syncs : u \in todo[t] \/ (url[t] = u /\ pc[t] = "insert")

\* ... so that an article that stays listed is discovered.
ListedIsDiscovered ==
    [](~cut) => \A u \in Urls : <>[](u \in feed.urls) => <>(item[u] # "absent")

-----------------------------------------------------------------------------
\* "deferred_budget_headroom" (worker.py:136), "deferral" (worker.py:126): an item the
\* sync defers for want of tokens is taken up again once there are tokens for good.
DeferredReturns ==
    <>[]tokens => \A u \in Urls : item[u] = "skipped" ~> item[u] # "skipped"
=============================================================================
