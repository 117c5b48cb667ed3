----------------------------- MODULE Subscriptions -----------------------------
(***************************************************************************)
(* Table feedsubscription under its writers: the tools that add and remove *)
(* a feed, Sentinel Mode (credence/feeds/sentinel.py) from tools, API and  *)
(* command line, and the boot, which adds the presets and switches the     *)
(* sentinels of CREDENCE_SENTINEL_FEEDS on, one after the other in one     *)
(* session.                                                                *)
(*                                                                         *)
(* Rows are found by their key.  SQLite gives a new row the key after the  *)
(* greatest, so that the key of the last feed, once removed, is given      *)
(* again.  A session holds the row it loaded; what it writes are the       *)
(* columns it changed, by key.  Foreign keys are on: the row of a feed     *)
(* with items cannot be deleted.                                           *)
(***************************************************************************)
EXTENDS Integers, Sequences, FiniteSets, FiniteSetsExt

CONSTANTS
    Tasks,          \* calls that run at the same time; Boot is one of them
    Boot,
    Feeds,          \* URLs of feeds
    Targets,        \* what Sentinel Mode is asked for: [url, site]
    Naming,         \* Naming[site]: the URLs  with the site's name anywhere in them
    Presets,        \* the preset feeds
    EnvTargets,     \* CREDENCE_SENTINEL_FEEDS
    Ceiling,        \* MAX_ACTIVE_SENTINELS
    MaxAdded,       \* bound on the feeds added by the tool
    MaxCalls        \* bound on the calls begun

ASSUME SubscriptionsAssumption ==
    /\ IsFiniteSet(Tasks) /\ Boot \in Tasks /\ Ceiling \in Nat \ {0} /\ MaxAdded \in Nat /\ MaxCalls \in Nat
    /\ \A g \in Targets : g.url \in Feeds /\ g.site \in DOMAIN Naming
    /\ Presets \subseteq Feeds /\ IsFiniteSet(Presets) /\ EnvTargets \in Seq(Targets)

VARIABLES
    feeds,          \* the rows: key -> [url, sentinel, active, items]
    sites,          \* domainreputation.is_sentinel of the sites that have a row
    calls,          \* what each call is at
    poisoned,       \* the boot's session has failed and was not rolled back
    added, begun    \* history: sentinels added directly, calls begun

subsVars == <<feeds, sites, calls, poisoned, added, begun>>

Free == [step |-> "free"]

SubscriptionsInit ==
    /\ feeds = <<>> /\ sites = <<>>
    /\ calls = [t \in Tasks |-> Free]
    /\ poisoned = FALSE /\ added = 0 /\ begun = 0

-----------------------------------------------------------------------------
Keys == DOMAIN feeds
NoKey == 0
NextKey == IF Keys = {} THEN 1 ELSE Max(Keys) + 1
Subscribed == {feeds[k].url : k \in Keys}
ActiveSentinels == {k \in Keys : feeds[k].sentinel /\ feeds[k].active}

Row(url, sentinel) == [url |-> url, sentinel |-> sentinel, active |-> TRUE, items |-> FALSE]
Inserted(url, sentinel) ==
    [k \in Keys \union {NextKey} |-> IF k = NextKey THEN Row(url, sentinel) ELSE feeds[k]]

Goto(t, call) == calls' = [calls EXCEPT ![t] = call]

\* A call that ends; the boot goes on with its next target.
NextTarget(t) == IF t = Boot /\ calls[t].at < Len(EnvTargets)
            THEN [step |-> "find", at |-> calls[t].at + 1, enable |-> TRUE,
                  target |-> EnvTargets[calls[t].at + 1]]
            ELSE Free
Done(t) == Goto(t, NextTarget(t)) /\ UNCHANGED poisoned

\* A call that raises ends; the boot logs it and goes on with the same session.
Raised(t) == Goto(t, NextTarget(t)) /\ poisoned' = (poisoned \/ t = Boot)

-----------------------------------------------------------------------------
\* set_feed_sentinel_mode is called by a tool, the API or the command line.
Call(t) ==
    /\ t # Boot /\ calls[t] = Free /\ begun < MaxCalls
    /\ \E g \in Targets, enable \in BOOLEAN :
           Goto(t, [step |-> "find", at |-> 0, enable |-> enable, target |-> g])
    /\ begun' = begun + 1
    /\ UNCHANGED <<feeds, sites, poisoned, added>>

\* The row with the URL, or any row whose URL has the site's name in it.
Find(t) ==
    LET g == calls[t].target
        found == {k \in Keys : feeds[k].url = g.url \/ feeds[k].url \in Naming[g.site]}
    IN  /\ calls[t].step = "find"
        /\ IF t = Boot /\ poisoned
           THEN Raised(t)
           ELSE \E k \in (IF found = {} THEN {NoKey} ELSE found) :
                  Goto(t, [step |-> IF calls[t].enable THEN "admit" ELSE "site",
                           at |-> calls[t].at, enable |-> calls[t].enable, target |-> g, key |-> k,
                           was |-> k # NoKey /\ feeds[k].sentinel, flagged |-> FALSE])
                    /\ UNCHANGED poisoned
        /\ UNCHANGED <<feeds, sites, added, begun>>

\* Mutant of Admit: the ceiling stops only targets without a row.
AdmitAnyRow(t) ==
    /\ calls[t].step = "admit"
    /\ IF Cardinality(ActiveSentinels) >= Ceiling /\ calls[t].key = NoKey
       THEN Done(t)
       ELSE Goto(t, [calls[t] EXCEPT !.step = "site"]) /\ UNCHANGED poisoned
    /\ UNCHANGED <<feeds, sites, added, begun>>

\* The ceiling is tested against the rows as they are now, for one that was no sentinel.
Admit(t) ==
    /\ calls[t].step = "admit"
    /\ IF Cardinality(ActiveSentinels) >= Ceiling /\ ~calls[t].was
       THEN Done(t)
       ELSE Goto(t, [calls[t] EXCEPT !.step = "site"]) /\ UNCHANGED poisoned
    /\ UNCHANGED <<feeds, sites, added, begun>>

\* get_or_create_domain_reputation looks for the site's row.
Site(t) ==
    /\ calls[t].step = "site"
    /\ LET site == calls[t].target.site
       IN  IF site \in DOMAIN sites
           THEN Goto(t, [calls[t] EXCEPT !.step = "commit", !.flagged = sites[site]])
           ELSE Goto(t, [calls[t] EXCEPT !.step = "create"])
    /\ UNCHANGED <<feeds, sites, poisoned, added, begun>>

\* The write of a held row fails when it was to be inserted and its URL exists, or is to be
\* changed and is gone.  A row that already was what it is set to is not written.
WriteFails(c) ==
    IF c.key = NoKey THEN c.enable /\ c.target.url \in Subscribed
    ELSE c.was # c.enable /\ c.key \notin Keys

Write(c) ==
    feeds' = IF c.key = NoKey THEN IF c.enable THEN Inserted(c.target.url, TRUE) ELSE feeds
             ELSE IF c.was = c.enable THEN feeds
             ELSE [feeds EXCEPT ![c.key].sentinel = c.enable, ![c.key].active = @ \/ c.enable]

\* A new site's row is committed, with the subscription that waits in the session.
Create(t) ==
    LET c == calls[t]
        key == IF c.key = NoKey /\ c.enable THEN NextKey ELSE c.key
    IN  /\ c.step = "create"
        /\ IF WriteFails(c) \/ c.target.site \in DOMAIN sites
           THEN Raised(t) /\ UNCHANGED <<feeds, sites>>
           ELSE /\ Write(c)
                /\ sites' = [s \in DOMAIN sites \union {c.target.site} |->
                               IF s = c.target.site THEN FALSE ELSE sites[s]]
                /\ Goto(t, [c EXCEPT !.step = "commit", !.key = key, !.was = c.enable])
                /\ UNCHANGED poisoned
        /\ UNCHANGED <<added, begun>>

\* The site's flag, and the subscription where it is not written yet.  A row that is gone
\* makes the refresh after the commit raise.
Commit(t) ==
    LET c == calls[t]
    IN  /\ c.step = "commit"
        /\ IF WriteFails(c)
           THEN Raised(t) /\ UNCHANGED <<feeds, sites>>
           ELSE /\ Write(c)
                /\ sites' = IF c.flagged = c.enable THEN sites
                            ELSE [sites EXCEPT ![c.target.site] = c.enable]
                /\ IF c.key # NoKey /\ c.key \notin Keys THEN Raised(t) ELSE Done(t)
        /\ UNCHANGED <<added, begun>>

-----------------------------------------------------------------------------
\* credence_add_feed_subscription: no ceiling, no site, a URL that exists raises.
AddFeed(t) ==
    /\ t # Boot /\ calls[t] = Free /\ begun < MaxCalls /\ added < MaxAdded
    /\ \E u \in Feeds \ Subscribed, sentinel \in BOOLEAN :
           /\ feeds' = Inserted(u, sentinel)
           /\ added' = IF sentinel THEN added + 1 ELSE added
    /\ begun' = begun + 1
    /\ UNCHANGED <<sites, calls, poisoned>>

\* credence_remove_feed_subscription: with items the foreign key raises.
RemoveFeed(t) ==
    /\ t # Boot /\ calls[t] = Free /\ begun < MaxCalls
    /\ \E k \in Keys :
           /\ ~feeds[k].items
           /\ feeds' = [j \in Keys \ {k} |-> feeds[j]]
    /\ begun' = begun + 1
    /\ UNCHANGED <<sites, calls, poisoned, added>>

\* A sync of an active feed inserts items.
SyncFeed ==
    /\ \E k \in Keys :
           /\ feeds[k].active /\ ~feeds[k].items
           /\ feeds' = [feeds EXCEPT ![k].items = TRUE]
    /\ UNCHANGED <<sites, calls, poisoned, added, begun>>

\* compute_feed_quality_score of no reports, in hundredths; ten recent audits are counted
\* and never handed on.
SiftedQuality == 50

\* The sifter's eviction of the feeds that have audits.
Sift ==
    /\ \E audited \in SUBSET Keys :
           feeds' = [k \in Keys |->
                       IF k \in audited /\ SiftedQuality < 40 THEN [feeds[k] EXCEPT !.active = FALSE]
                       ELSE feeds[k]]
    /\ UNCHANGED <<sites, calls, poisoned, added, begun>>

\* A boot, or one after a crash: the presets that are missing, one commit each, then the
\* environment's sentinels.  Calls under way are lost.
Start ==
    LET missing == Presets \ Subscribed
        order == CHOOSE s \in [1..Cardinality(missing) -> missing] : Range(s) = missing
    IN  /\ begun < MaxCalls /\ EnvTargets # <<>>
        /\ begun' = begun + 1
        /\ feeds' = [k \in Keys \union {NextKey + n - 1 : n \in 1..Cardinality(missing)} |->
                       IF k \in Keys THEN feeds[k] ELSE Row(order[k - NextKey + 1], FALSE)]
        /\ calls' = [t \in Tasks |->
                       IF t = Boot THEN [step |-> "find", at |-> 1, enable |-> TRUE, target |-> EnvTargets[1]]
                       ELSE Free]
        /\ poisoned' = FALSE
        /\ UNCHANGED <<sites, added>>

SubscriptionsNext ==
    \/ \E t \in Tasks : \/ Call(t) \/ Find(t) \/ Admit(t) \/ Site(t) \/ Create(t) \/ Commit(t)
                        \/ AddFeed(t) \/ RemoveFeed(t)
    \/ SyncFeed \/ Sift \/ Start

SubscriptionsSpec == SubscriptionsInit /\ [][SubscriptionsNext]_subsVars

-----------------------------------------------------------------------------
\* However calls interleave, the active sentinels outnumber the ceiling only by those the
\* add tool made, which asks no ceiling, and by one for each further call that was past the
\* test at the same time.
SentinelsBounded ==
    Cardinality(ActiveSentinels) <= Ceiling + added + Cardinality(Tasks) - 1

\* "maximum of 10 active sentinels allowed" (sentinel.py:118).
CeilingHolds == Cardinality(ActiveSentinels) <= Ceiling

\* "Enable or disable Sentinel Mode for a specific feed URL or domain" (sentinel.py:82): a
\* call that enables and does not raise leaves the row it found a sentinel.
EnabledIsSentinel ==
    [][\A t \in Tasks :
           /\ calls[t].step = "commit" /\ calls[t].enable
           /\ calls'[t] # calls[t] /\ begun' = begun /\ calls[t].key \in Keys
           => feeds'[calls[t].key].sentinel]_subsVars

\* ... and it is the feed of the site that was named.
EnabledIsNamed ==
    [][\A k \in Keys : k \in DOMAIN feeds' /\ ~feeds[k].sentinel /\ feeds'[k].sentinel =>
           \E t \in Tasks : calls[t] # Free /\ calls[t].target.url = feeds[k].url]_subsVars

\* "Automated ... mesh-wide eviction quarantine (< 0.40)" (CHANGELOG.md:1016) can happen.
NothingEvicted == \A k \in Keys : feeds[k].active
================================================================================
