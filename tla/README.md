# Credence in TLA+

TLA+ modules beside the code of Credence (`src/credence`), a node that discovers
syndicated articles, audits them with heuristics and a language model within a token
budget, keeps a standing for every publisher's domain, gossips signed results to other
nodes, and shows what it found.  The modules are checked by TLC on small instances and,
where the table of theorems says so, proved by TLAPS for all values of their constants.
Every definition that stands for code names its lines in `PROJECT.json` under "map".

## The system

| component | state | operations | talks to |
|---|---|---|---|
| domain reputation (`feeds/reputation.py`) | `DomainReputation` row: score, status, streaks, subjects, factor; interval of the subscriptions | update by a report, sync of the interval | cycles, with the row they hold |
| token governor (`pipeline/governor.py`, `cache/distributed.py`) | `TokenUsage` rows, brake, overrides | headroom, check before a call, record after it | audits, syncs, cycles |
| profiles and advice (`config.py`, `pipeline/cost_optimizer.py`, `server/api/cost.py`) | environment, settings, overrides of the desk | set, advise, apply, stop and resume | governor |
| evaluation (`pipeline/evaluator.py`, `subagents.py`, `scoring.py`, `heuristics/`) | `Snapshot`, `Audit`, `Violation` rows | cache, evaluate, persist | governor, drivers, registry |
| drivers (`pipeline/adapters.py`) | none | choice of a driver, a call, its price | providers of models |
| standards (`taxonomy_loader.py`, `pipeline/rfc.py`) | catalogs, rule index and proposals in memory | load, hot reload, propose, vote, lint, gauntlet, quorums | evaluation, API |
| feed sync (`feeds/worker.py`, `sifter.py`, `dedup.py`, `parser.py`) | validators of `FeedSubscription`, `FeedItem` rows | poll, insert, deduplicate, gate, audit | publishers, pipeline |
| subscriptions (`feeds/sentinel.py`, `server/mcp/feed_tools.py`, `sifter.py`) | `FeedSubscription` rows, sentinel flags of sites | add, remove, sentinel on and off, evict, boot | sync, cycle |
| boredom cycle (`feeds/boredom.py`) | none of its own | select, probe, audit, expand roots | governor, pipeline, reputation |
| feed health and discovery (`feeds/health.py`, `feeds/discovery.py`) | none | quality of a sample, endpoints of a page | sites |
| root expansion (`feeds/roots.py`) | subscriptions and items | candidates, probe, subscribe, harvest | sites, sync |
| subjects (`subjects/registry.py`) | tree of subjects | load, classify | roots, reputation |
| capture and blobs (`ingestion/`, `storage/local.py`, `storage/base.py`) | browser slots, stored artifacts | fetch, render, extract, store | sites |
| stored audits (`evaluator.py`, `germinate.py`, `storage/backup/packs.py`, `pipeline/rescore.py`, `server/api/mesh.py`) | `Snapshot`, `Audit`, `Violation`, status of items | audit, force, paste, submit, germinate, import, rescore | pipeline |
| what reads them (`storage/revisions.py`, `subjects/weather.py`, `analytics.py`, `mesh/stats.py`, `feeds/digest.py`, `server/`, `cli/`) | none | packs, catalogs, history, profiles, weather, lookups, badges | users, other nodes |
| gossip relay (`mesh/relay.py`, `protocol.py`) | peers, ids seen | connect, admit, announce, rebroadcast | other nodes |
| judgement of the mesh (`subjects/expertise.py`, `mesh/consensus.py`, `merit.py`, `quality.py`, `badges.py`) | `DomainMetric`, `PeerMetric` rows | record, slash, weigh, rank | tools, API |
| discovery of peers (`mesh/discovery.py`, `seed.py`, `hardware_guard.py`) | none | four tiers, limits | relay |
| backups (`storage/backup/*`) | archives, manifests, database file | create, rotate, upload, restore | cloud |
| start (`db.py`, `identity.py`) | schema, key file | migrate, create tables, load or make the key | every process |

Everything runs on one event loop per process: daemons (sifter, boredom), the boot task,
the periodic backup and the requests of the API interleave at every `await`, each with a
database session of its own that keeps loaded rows after a commit (`db.py:169-184`,
`expire_on_commit=False`) and writes changed columns only.  That is where the hard
behaviours are:

* a row is read, an audit takes minutes, and the row is written as it was remembered;
* a budget or a ceiling is checked before the work and the use is recorded after it;
* validators of a feed are stored before its entries are processed, so a 304 may hide
  what was not;
* an audit, its snapshot and its violations are committed one after the other by some
  writers, and others read or replace them in between;
* the registry of standards changes under an evaluation that awaits the model;
* a task may end anywhere: an exception outside the handler, a locked database, a
  cancellation, a crash; nothing restarts a daemon but the node;
* gossip reaches a node over several ways, with different hop counts, while links fail;
* two processes of a node migrate the same database and make the same key.

`PROJECT.json` lists these at their lines ("hazards") with the properties that cover them.

## Modules

| module | models | state |
|---|---|---|
| `ReputationUpdate` | `update_domain_reputation` as operators on a record; percentages in hundredths, scores in tenths | none |
| `DomainReputation` | one domain under any sequence of reports, one update at a time: the promise | `rec`, `audits` |
| `ReputationSessions` | the same row under sessions that load, insert, update by columns, commit, refresh and sync the interval; implements `DomainReputation` | the row, the copies held, intervals |
| `TokenBudget` | concurrent audits between check and record, time, brake, override | totals of hour and day, step and use of each audit |
| `CostProfiles` over `Drivers` | profiles, environment, desk, limits, advice; which driver is called and what it costs | environment, settings, desk, usage, advice |
| `Startup` | `init_db` statement by statement and the node's key, in several processes | schema, key file, processes |
| `BoredomCycle` | the queue under whole cycles of several callers: selection, partition, probes, substitutes, burst, guard | queue, standings, headroom |
| `Subscriptions` | the table of feeds under its writers, Sentinel Mode await by await | rows, flags of sites, calls |
| `FeedQuality` | endpoints of a page, quality of a sample of reports | a sample and a page |
| `Roots` over `FeedDocuments` | expansion candidate by candidate in sessions that break and go on; what a document lists; how a text is classified | subscriptions, items, sessions |
| `Capture` | both ways of capture, the semaphore, retries, artifacts in files or S3; extraction of a document | visits, slots, blobs |
| `FeedIngestion` | the steps of syncs (daemon, forced at boot, germination) and cycles on the items of one feed | document, validators, statuses, audits, each task's step |
| `Standards` | catalogs, indexes, prompts, deltas and staleness; proposals, votes and hot reload | registry, files, proposals |
| `Scoring` | the detectors with the rule each cites; from violations to a verdict | none |
| `Evaluation` over these two | an evaluation between its awaits while the registry changes, model failures, restarts | evaluation, last audit |
| `AuditStore` | every writer of snapshots, audits and violations, commit by commit; crashes; the rescoring sweep | the tables, each task's step |
| `Exports`, `Views`, `Reports`, each over the one before | packs, catalogs, history; profiles, weather, statistics, digest; lookups of API, badges, tools, resources, command line | none: functions of the tables |
| `Expertise` | the record of a node in a subject, slashing, authority | records, day |
| `Consensus`, `Merit` over it | weighted median, outliers, Galileo rule, adoption; quality, tiers, badges, boards | attestations; rows of peers |
| `Ratification` | linter, gauntlet, quorums | approvals |
| `Discovery` | the four tiers of bootstrap and the limits of peers | one discovery |
| `MeshRelay` | connections, capacity, deduplicator, hop count and rebroadcast between nodes; failures and restarts | sockets, tables, wires, ids |
| `Backup` | backups at work at once, their files, uploads, rotation; closing, stops, boots and restores | database, archives, manifests, cloud, each task's step |

`MC*.tla` gives the small instances, `*_proof.tla` the theorems.  Components that share
state are composed: `Evaluation` runs on `Standards`, the readers on `AuditStore`,
`Consensus` and `Merit` on the records of `Expertise`, `Roots` on `FeedDocuments`.
Components that do not are checked side by side in one run, one of them moving
while the others stay as they began, which loses nothing: no invariant speaks of two of
them.  `TokenBudget`, `BoredomCycle` and `FeedIngestion` are three views of the same node:
headroom is an answer that may change at any time in the last two; the picks of a cycle are
any pending items in `FeedIngestion` and exactly the code's in `BoredomCycle`.

### Correspondence

*Reputation.*  A report is its score, confidence, worst severity and whether violations are
grounded: what the update branches on.  `update` is the whole function in its order.  In
`ReputationSessions` a cycle holds the row it loaded (`Look`), commits the columns it
changed (`Written`, `Commit`), and syncs the interval in a second transaction (`Sync`);
`Leave` ends a session anywhere.  Any number of cycles run at the same time (`lifespan.py:146`,
`api/feeds.py:170`, `feed_tools.py:255`).  `missed` counts the commits of others since a
session read the row, `lost` those it wrote over; `adrift` says that the interval of the last
update was not written, or by a session that another had overtaken.

*Budget.*  `ReadHour` and `Decide` are the two queries and the verdict of
`check_budget_before_call`.  `SatireReturns`, `SwarmReturns`, `Record` are the awaits of
`evaluate_snapshot`; `Unrecorded` is every exception among them.  `LeaveHour` and `LeaveDay`
are time.  In `CostProfiles` the usage is anything, and an action is one call of a handler.
A check is made for a caller that brings a profile, as the sifter, the boredom daemon and the
tools do, or for one that does not (`Limits`).

*Start.*  `Look` is the `PRAGMA`, `AddColumn` one `ALTER`, `ListTables` and `CreateTable` what
`create_all` does.  SQLite commits each by itself, so a crash leaves the schema as it is.

*Cycle.*  `partition_ingestion_burst`, `Probes`, `Substitutes` are the code's selection over
the window of three bursts, with Python's rounding.  Places are numbered in the order of the
SELECT, so a list the cycle filters out of the window is `InOrder` of a set of places.  A place
that is free again is given to the next item of its tier that is behind all those waiting, so
items keep coming, ahead of others too.  What
the cache and the audits answer is a choice.  No caller passes a relay, so the reordering by
affinity does not happen.

*Subscriptions.*  A call holds the key it found and what the row was; a write is by key, so
it may meet another row that has been given the same key.  `Create` and `Commit` are the two
commits of `set_feed_sentinel_mode`.  The boot's session stays poisoned after a failed flush.

*Ingestion.*  One action for the code between two awaits that another task can tell apart;
a status that the session believes unchanged is not written (`Settle`).  A document is a
version and what it lists.  `Capture` here covers the content cache.

*Evaluation.*  Catalog hashes and prompts are taken in `Begin`, rules are looked up where the
answers are merged, and between them the budget, the satire prompt and the swarm are awaited
while `Standards` moves.  Violations are a set and the catalogs an audit pinned too: their
order is that of the answers and decides nothing.  Calibration, 100 (1 - exp(-raw / 12)), is
increasing and stands for its argument.  A model gives any severity and any confidence, in
hundredths.  Catalogs may share rule ids, URIs and the beginnings of cluster ids.

*Audits.*  A writer's commits are its steps: one for an audit of a page, up to three for an
adopted one.  `order` lists the audits by `audited_at`.  `Cut` ends a writer between two of
them.  A sweep that fails on an audit, by an exception at any step or an answer without the
model, goes on with the next (`Rescore`), and `missed` has the audits it leaves.  A query with an `ORDER BY` and a `LIMIT` is `Ascending` or a walk along `order`; a
catalog and what a pack leads to are sets of entries, since each url or content is once in
them.

*Mesh.*  A link is a configured seed; its client keeps an entry for it for ever, its server
only while it is open.  Wires are first in, first out until the link closes.  Nodes are
honest and signatures verify.  Nothing under `src` writes `PeerMetric` or records and slashes
expertise: `Merit` takes rows as given, `Expertise` is driven as its callers in the tests do.

*Backup.*  `newer` gives for each archive those modified after it.  A task's steps are the
thread's (`Dump`, `Archive`, `Copy`), the loop's (`Begin`, `Stamp`, `Rotate`) and the
upload's.  A file open for writing is partial, two writes of it at once may leave a mixture.
`Turn` keeps the loop for a request's backup.  Each step may raise and leave its file half
written while the node goes on (`FailDump`, `FailArchive`, `FailCopy`, `FailStamp`); a manifest
that was not finished is `Unreadable`.  `Rotate` unlinks archives and manifests one by one, and
a failing one leaves the rest of that name.

## Runs

| run | question | bounds |
|---|---|---|
| `reputation_sessions` | do standing, score, polling and milestone stay consistent over a long sequence of audits; what is lost when cycles run at the same time, when does the interval follow the row, and is every other commit a step of `DomainReputation`? | two sessions, seven audits, of which one that is written over counts twice; reports on both sides of every threshold, two subjects. Quarantine, five clean audits and the rise from it fit in seven; a session commits twice beside another that missed both, syncs are overtaken, cut and made up for |
| `token_budget` | by how much can limits be passed, and does the brake end the calls; does offline stay offline and advice settle; does the schema become complete? | two audits, one of them pinned to its profile, limits of a few units and every response 0 or 1: estimates, equality and overshoot occur. The desk has the real profiles, callers that bring each of them or none, three environments, one without the breaker, and five usages at the limits. Two processes, one lock, one kill, a database without tables, an old one with one to three columns to add to each, and a complete one |
| `boredom_cycle` | floor of organic items, drainage; sentinels beyond the ceiling; order of feed qualities; captures that end | five places of two domains, three of them of sentinel feeds, in several tiers; bursts of 1 to 3: a window of three leaves items out, is filled by sentinel items, rounding and an empty share occur. A ceiling of one, three calls, one direct addition: two calls pass the test together, keys are given again. Samples of up to five reports of five kinds. Two sessions of expansions over four sites. Two captures through one slot, one kill |
| `feed_ingestion` | duplicates and backing of settled items | two articles; a sync, a forced sync and a cycle, each any number of times; one document, one forced sync |
| `feed_discovery` | does a 304 hide an entry? | two syncs, two documents |
| `mesh_relay` | how often may a node accept one attestation? | three nodes, two of them seeds of each other; two hops, two failures, two ids remembered: an id comes twice, is forgotten, and comes back |
| `mesh_reach` | does an announcement reach the mesh? | four nodes, two ways, one hop to spare, a refused attestation beside it |
| `backups` | do manifests match and does rotation leave something to restore? | two tasks, three backups, two archives kept, one stop, every step that may fail: an archive is pruned while it is written, hashed or uploaded, names are shared, latest copies overlap, a manifest is left without its archive. What is in the database makes no difference here, so there are no audits |
| `backup_boots` | does the latest archive in the cloud keep every audit? | one task, both kinds, three backups, two stops, restores, a threshold of one of two audits |
| `evaluation` | do indexes serve what is loaded, is staleness exact, does a verdict rest on the page? | three pages, two catalogs of up to three rules that share one, one edit, one proposal with a vote, one finding of the model, of no or full confidence, one stored audit |
| `consensus` | does slashing last, do liars stay within the honest range, is a grounded minority heard, does rank follow evidence, do quorums intersect? | a record of 26 evaluations, two slashes and two weeks (full volume and longevity); three attestations, one of them a liar's, in two subjects; eleven rows of peers on both sides of the tiers; five anchors and two ballots |
| `audit_store` | are stored audits complete, adoptions bounded, items settled with an audit; do packs and lookups give what they promise; does a sweep pass over what it fails on? | three writers of every kind, two urls that share a content, two audits, one writer cut short anywhere |

Unbounded counters are capped by `MaxAudits`, `MaxVersion`, `MaxBoots`, `MaxFaults`,
`MaxBackups`, `MaxStops`, `MaxCalls`, `MaxAdded`, `MaxVisits`, `MaxKills`, `MaxLocks`,
`MaxCrashes`, `MaxRows`, `MaxCuts`, `MaxEdits`, `MaxVotes`, `MaxRules`, `MaxFindings`,
`MaxEvaluations`, `MaxSlashes`, `MaxAttested` and `MaxHeard` in guards.  Runs whose
configuration says `CHECK_DEADLOCK FALSE` end when these are used up, or, for the mesh,
when everything is delivered and the network is silent.

The properties are few and relate several pieces of state; each can be broken by a
plausible change of the code, recorded in `PROJECT.json` under "mutants" and kept in the
modules as a definition marked "Mutant of".

## Fairness

* `TokenBudget`: the event loop runs every audit and a call of the provider returns or
  raises; nothing is assumed of checks being started.
* `Startup`: a process that works goes on; while the schema is not complete, it calls
  `init_db` with its next request, and one that was killed or failed is started again.
  Kills and locks are finite.  (With the other parts of `token_budget` the processes rest on
  a complete database, so that their fairness asks for nothing while the others move.)
* `BoredomCycle`: the daemon's cycle is weakly fair, as its loop runs one every interval.
* `Capture`: a browser or a connection answers or times out (`snapshot.py` gives both
  timeouts), and a killed capture is not counted.
* `FeedIngestion`: tasks go on, and a poll that is tried again and again is answered some
  time (strong fairness of `Fetch`), a property of publishers.
* `AuditStore`: a sweep that was called goes on, since what it awaits returns or raises.  Nobody
  has to call one (the node does so once at boot, `lifespan.py:97`, and on request), and no
  other writer has to go on.
* `MeshRelay`: readers of open connections read.

An exception that leaves a cycle ends its daemon (`boredom.py:399-427` and `sifter.py` have
no `except`), and only the node's restart starts it again: fairness assumes that happens,
and `ListedIsDiscovered` is claimed only while no task is cut short.

## What is proved

For every value of the constants that satisfies the named assumptions.  The table follows the
proof modules; a name in parentheses is the property of a run that the theorem states.

| module | theorem | argument |
|---|---|---|
| `ReputationSessions_proof` | `DomainTypeCorrect`, `BandsHold`, `DoctrineHolds`: standing, score, factor, streak and milestone of a domain agree | `RecordInv` says how they hang together in each status and is inductive; one lemma for each operator of the update, for deceptive, clean and middling audits |
| | `TrustIsEarned`: a domain becomes trusted from normal standing only | a step property, from the types |
| | `TypeCorrect`; `CountBounded` (`AuditsCounted`): of interleaved cycles no audit is counted twice, and none is missing but those a commit wrote over | what a session holds lacks at most the commits it missed, and these become lost when it writes |
| | `RateAlwaysFollows` (`RateFollows`): the interval is the row's but in named windows | a session that nobody overtook holds the interval and the factor as they are; whoever writes overtakes all others |
| | `SessionsImplementDomain` (`ImplementsDomain`), `SessionsKeepBands` (`BandsHeld`), `SessionsKeepDoctrine` (`DoctrineHeld`): interleaved cycles refine `DomainReputation`, but for commits that write over another's, and the row keeps what it promises until the first of these | a session that missed nothing holds the row as it is, so its commit maps to one update; every other step stutters |
| `TokenBudget_proof` | `TypeCorrect`; `Overshoot` (`OvershootBounded`): hour, day and spend pass their limits by at most two responses for each audit | the tokens recorded plus the most the audits in flight can add never pass the limit plus the whole room; an audit takes its share of room when it is admitted. The hour is read earlier than the day and compared later: what an audit has seen bounds the hour by what others still hold |
| | `OfflineStaysOffline` (`OfflineIsOffline`): no override, advice, stop or restart lets a caller under the offline profile, which it brings or has from the desk or the settings, call a model while the limit of the day is left alone; and none calls under the brake | offline leaves the day one token, which only a limit of one's own replaces, and a check asks for a thousand at least |
| | `AdviceAlwaysComesToRest` (`AdviceSettles`): advice that is followed under a steady load with fewer than twenty deferred articles comes to rest | by cases on the load: after three pieces of advice a profile is advised to stay, from each of the profiles |
| `FeedIngestion_proof` | `TypeCorrect`; `BackedHolds` (`SettledIsBacked`) | a task about to mark has the audit it needs |
| | `DuplicatesHold` (`DuplicatesBounded`): audits of an article are bounded by tasks and forced syncs | before the first audit every task may pay; after it only those past the cache check and the forced ones yet to come; the sum never grows |
| | `NothingIsHidden` (`NothingHidden`): stored validators hide no entry | a task in `store` holds the entries of its version, and stored versions are at most the feed's |
| `Subscriptions_proof` | `SentinelsCounted`, `SentinelsAlwaysBounded` (`SentinelsBounded`): the ceiling is passed by what the add tool made and by one sentinel for each further call | active sentinels and calls past the test are counted together: the test lets a call in below the ceiling, a write makes one sentinel at most and ends what was under way. A new row's key is none of the others, by the greatest of a finite set of keys |
| | `QueueTyped`, `FloorAlwaysHolds` (`OrganicFloor`) | a finite set of numbers in its order is a sequence of its members, each once (`Ordered`: ranks are a bijection on 1..n). Where an organic item is left out of a burst, the organic part is as long as its room, so nothing follows it, and sentinel items are in the first half only (`SoilFills`) |
| `Evaluation_proof` | `IndexAlwaysServes` (`IndexServesLoaded`): every rule in force is found as its catalog or another one has it, never as an earlier content of its own | an index only ever leads a rule to a content that has it; a content that was replaced under its id is not led to for any rule its successor has, since what is loaded overwrites both indexes |
| | `EvaluationAlwaysInv`, `OfflineAlwaysHeuristic` (`OfflineIsHeuristic`), `VerdictAlwaysGrounded` (`VerdictIsGrounded`) | the invariant describes an evaluation at each await and the last report; a sum of weights is zero only where no grounded violation has any confidence, so a band above CLEAN has one that has; each detector cites a rule and a cue of the page |
| | `StalenessAlwaysExact` (`StaleExact`): a rule in force is among the deltas or was in exactly one prompt | a place in a cluster falls in exactly one part of at most `MaxRules` (`PartsCover`), clusters share no rule, and a report carries the prompts of what it pinned |
| | `CleanAlwaysBest` (`CleanIsBest`): no feed is scored above one of the same words and age with clean articles | each average is a sum of bounded terms over the number of articles; the score is a quotient that a common factor does not change, and each of its terms is at most that of a clean feed |
| `Consensus_proof` | `RecordsBounded`, `SlashingAlwaysLasts` (`SlashingLasts`): k slashes leave at most the 2^k-th part of the authority | the four shares of the score never pass one (`ShareBounds`), so what is divided by the slashes is one at most |
| | `AgreementNeverHarms` (`AgreementNeverCosts`) | none of the four shares falls with an evaluation in agreement (`AgreementGrows`) |
| | `ConsensusTyped`, `HonestAlwaysHold` (`HonestRange`), `GalileoAlwaysHeard` (`GalileoHeard`) | weights are additive over disjoint sets; the weighted median is the least score that reaches half of the weight, so it lies in the range of whoever holds more than half, before and after the outliers are taken away |
| | `MeritAlwaysFollows` (`MeritFollows`) | quality, tiers and badges are monotone in each column of a row |
| | `ApprovalsTyped`, `QuorumsAlwaysIntersect` (`QuorumsIntersect`): two quorums share more than a third of the anchors | inclusion and exclusion on subsets of a finite set: twice 66.7 % is more than one and a third |
| | `RelayConserves`, `WorkAlwaysBounded` (`WorkBounded`) | what a node accepted, the walks promised to it by envelopes on their way and those of an announcement yet to be made are never more than the walks from the origin (`Conserved`): the promise of an envelope pays for its acceptance and for what is sent on (`AcceptPays`), and a failure, a restart or a drop only lowers the sum |
| `AuditStore_proof` | `Invariant`, `AuditsComplete` (`CompleteUnlessCut`), `SettledHaveAudits` (`SettledItemsHaveAudits`) | what a task holds of the store is still there: `NothingLost`, a step property, says that snapshots and audits are only added and a verdict changes with its violations |
| | `AdoptionBound` (`AdoptionsBounded`): a content is adopted at most once for each writer that adopts | adopted audits of a content and the writers past the check for it are counted together (`Balance`) |
| | `EachHasItsPlace` | the order of time lists every audit once, also while one is inserted in the past or moved to the end, and what a sweep has yet to do are audits |
| | `PackAlwaysNewest` (`PackCarriesNewest`), `ReportsAlwaysLatest` (`LatestEverywhere`) | of a listing, the first place of a url or content counted from the end is its newest audit (`FirstAreNewest`); whatever filters the listing keeps that |
| `Backup_proof` | `BackupTyped`, `ManifestsAlwaysVerify` (`ManifestsVerify`) | who is past the copy of the database has its name alone, has a whole archive and finds no manifest but one it cannot read; when two share a name, or find a manifest left behind, it is a clash, and a manifest that is not its archive's has a writer on the way to correct it unless that one failed |
| | `RestorableAlwaysKept` (`RestorableKept`) | archives form a chain by age; what is newer than a finished archive is whole, given up, or in another task's hands. Were none left to restore, each of those kept, as many as there are tasks at work and archives given up, would be one of these |

Assumptions are the `ASSUME`s of the modules, evaluated by TLC in every run: finite sets of
tasks, anchors, audits and relays, natural limits, the shapes of what is given.  Three say more.
`StandardsAssumption`: a rule is in one place of its catalog (the shipped ones are so, and the
linter of `rfc.py` does not ask); two catalogs may have rules in common.  `AuditStoreAssumption`: no peer names the node's
own methods of adoption.  `ItemsAssumption`: the order of the SELECT has sentinel feeds
first.

The library's induction rules take an operator, which the provers cannot instantiate.  What
has to be shown of sums, of listings and of parts is shown with the set of good subsets (or
lengths) in place of the predicate: of a finite set, a least bad subset would be one with all
its smaller ones good (`SetInduction`, `SubsetInduction`).  That reaches `MapThenSumSet`, the
recursive functions it is made of, and `Walks` of `MeshRelay`, a recursive function on the
number of ways: that there is one is shown first (`WalksExist`).  For the same reason the
modules have `Ascending`, `At` and `InOrder` where the community modules have `SelectSeq` and
`SortSeq`, whose definitions the prover does not open.

Model-checked only:

* liveness and leads-to, which are beyond the prover: `BrakeQuiesces`, `SchemaConverges`,
  `AmpleHeadroomDrains`, `CapturesEnd`, `ListedIsDiscovered`, `Reaches`, `SweepsPass`;
* `CloudKeeps`, for one backup at a time only: `lifespan.py` may start more, and their latest
  copies overtake each other;
* the statements under "What the code does not keep", which are false.

## What the code does not keep

Where a comment, a docstring or a document says more than the code does, the statement is
kept in its module under "What the code does not keep" or with a comment saying so, and
`PROJECT.json` quotes both sides under "findings".  They are refuted by adding them as
invariant or property to the configuration of the module's own run; where the instance has
to differ, the finding says how.  The ones that matter most for an operator:

* a domain leaves quarantine by one middling-to-deceptive audit (`reputation.py:132`), and
  an update made on a row held over another cycle's commit is lost (95), or mixed with it
  column by column, so that standing and score of the row disagree;
* a node set to the offline profile calls the model all the same from its daemons
  (`lifespan.py:138`, 146);
* limits of tokens are passed by whatever is in flight, the brake does not reach audits
  past their check, and a budget of zero is no budget;
* an item deferred for want of tokens is never taken up again by a sync (`worker.py:129`),
  a cycle whose picks lie in restricted domains hides those behind them, and sentinel items
  that keep coming hide all others for ever (`boredom.py:179-183`);
* catalogs may share a rule id, and a rule in force is then answered as another catalog has it;
* a copy that fails leaves a partial archive that rotation counts as a recent one;
* a target of `CREDENCE_SENTINEL_FEEDS` that fails takes all later ones with it, and a
  sentinel may be made of the feed of another site;
* what was audited offline is served for ever, pages that share a content share one url's
  report, and every lookup has its own idea of the latest audit;
* an import cut short after its first commit blocks the audit it was to bring, and an
  adopted audit is rescored as if it were the node's own; as many offline audits as a sweep
  takes, failing each time, keep all later ones from being rescored (`rescore.py:77`);
* a gossip id that is forgotten is accepted again, and nothing that arrives is stored;
* two processes of a new node may sign with different keys, and `init_db` may return before
  the schema is complete.

Limits of the models that a reader may meet: two sweeps at once write every column of an
audit, while the code leaves out those that equal what it loaded; the thinking
budget that Vertex would count (`adapters.py:391`) is that of an r1 model, which
`get_llm_provider` never gives it; what a hazard's "note" in
`PROJECT.json` says is not covered by any property.

## Not modelled

Left aside: cryptography, regular expressions and word lists behind a cue, texts of prompts,
wording and layout, drawing of badges, screens, deployment.  Of partly modelled components
`PROJECT.json` says what is missing; most of it has no caller under `src`.  Whole components
without a module:

* topology and organisation reports, benchmarks, calibration, experiments and simulations:
  sequential computations over data that keep no state a second actor could meet;
* subject models and settings: records and re-exports of what `Roots` models of the registry;
* server, tools, command line and terminal screens: their handlers are the callers in the
  modules of the components they call; what they do beyond that is formatting;
* the removal of old audits at start (`db.py:131`): it is never committed, so it has no
  effect to model.
