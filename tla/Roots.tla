--------------------------------- MODULE Roots ---------------------------------
(***************************************************************************)
(* Root expansion (credence/feeds/roots.py): sites that audited articles   *)
(* cite are probed for feeds, and what is found is subscribed to and its   *)
(* first entries are queued.  Expansions run in sessions of their own,     *)
(* from the API and the tools, and twice in that of a boredom cycle, while *)
(* syncs queue articles too; a step is the code between two awaits.        *)
(*                                                                         *)
(* A failed flush leaves a session unusable until it is rolled back, and   *)
(* nothing here does.  autoflush is off: what is added is not seen by a    *)
(* query before it is committed.                                           *)
(*                                                                         *)
(* A site has the subject of the text of its name (subjects/registry.py).  *)
(* A catalog file is a subject and its sub-subjects; a text is how often   *)
(* each keyword is in it, and the Schema.org types that come with it.      *)
(***************************************************************************)
EXTENDS FeedDocuments, FiniteSets, FiniteSetsExt, TLC

CONSTANTS
    Sessions,       \* one for each task that expands
    Soil,           \* the stored audits, newest first: [site, url, score, links]; score in tenths
    Sites,          \* every site that is cited
    Excluded,       \* those that are social networks, shorteners or no public address
    Served,         \* Served[site]: the feeds its page offers, the best first
    FeedSite,       \* FeedSite[feed]: the site in the feed's own address
    Answers,        \* Answers[feed]: what its server may answer
    TextOf,         \* the text of a site's name, for its subject
    Known,          \* the articles that are queued before
    Wanted,         \* max_new_sources: of the two of a cycle, or of the one a call asks for
    Least,          \* min_citation_count
    DryRuns,        \* whether a call may ask for a dry run
    Catalogs,       \* the files of subjects in the order of their names
    Phrases,        \* the keywords of several words
    Inherit,        \* a sub-subject that names no types has its parent's
    NoFeed

VARIABLES
    roots,          \* subscriptions: feed -> [site, subject, validators, entries], the entries
                    \* those of the document it was subscribed with
    queued,         \* articles with a FeedItem
    expansions      \* what each session is at

rootVars == <<roots, queued, expansions>>

Resting == [step |-> "rest"]
RootsInit ==
    /\ roots = <<>> /\ queued = Known
    /\ expansions = [s \in Sessions |-> Resting]

-----------------------------------------------------------------------------
News == "journalism.news"

Descriptor(id, parent, keywords, types) ==
    [id |-> id, parent |-> parent, keywords |-> keywords, types |-> types]

\* The subject of a file, then its sub-subjects, each with its parent's keywords behind its own.
OfFile(file) ==
    IF ~file.readable THEN <<>>
    ELSE <<Descriptor(file.id, file.parent, file.keywords, file.types)>>
         \o [n \in DOMAIN file.subs |->
               LET sub == file.subs[n]
               IN  Descriptor(sub.id, file.id, sub.keywords \o file.keywords,
                              IF sub.types = Inherit THEN file.types ELSE sub.types)]

\* load_catalogs: an id that comes again replaces the descriptor and keeps its place.
LoadCatalogs ==
    LET all == FlattenSeq([n \in DOMAIN Catalogs |-> OfFile(Catalogs[n])])
        firsts == {n \in DOMAIN all : \A m \in 1..(n - 1) : all[m].id # all[n].id}
        last(n) == all[CHOOSE m \in DOMAIN all :
                         /\ all[m].id = all[n].id
                         /\ \A k \in m + 1 .. Len(all) : all[k].id # all[n].id]
        places == SetToSortSeq(firsts, LAMBDA a, b : a < b)
    IN  [n \in DOMAIN places |-> last(places[n])]

\* get_hierarchy_tree: roots and their children; what is below them is not shown.
HierarchyTree(subjects) ==
    {[id |-> r.id, children |-> {c.id : c \in {d \in Range(subjects) : d.parent = r.id}}] :
       r \in {d \in Range(subjects) : d.parent = ""}}

\* A type counts three, a phrase two, a word one; a keyword a subject lists twice counts twice.
SubjectScore(subject, text) ==
    LET worth(k) == IF k \notin DOMAIN text.counts THEN 0
                    ELSE text.counts[k] * (IF k \in Phrases THEN 2 ELSE 1)
    IN  3 * Len(SelectSeq(subject.types, LAMBDA t : t \in text.types))
          + FoldLeft(LAMBDA sum, k : sum + worth(k), 0, subject.keywords)

\* classify_subject: the first of the best; general news where nothing is said.
ClassifySubject(subjects, text) ==
    LET scores == [n \in DOMAIN subjects |-> SubjectScore(subjects[n], text)]
        best == {n \in DOMAIN scores : scores[n] > 0 /\ \A m \in DOMAIN scores : scores[m] <= scores[n]}
    IN  IF best = {} THEN [subject |-> News, confidence |-> 500]
        ELSE LET n == CHOOSE n \in best : \A m \in best : n <= m
             IN  [subject |-> subjects[n].id,
                  confidence |-> 500 + (980 * scores[n] + scores[n] + 10) \div (2 * (scores[n] + 10))]

-----------------------------------------------------------------------------
\* _is_candidate_eligible
Eligible(site) == site \notin Excluded

\* Which audits count: low suspicion, high suspicion, or all.
Fertile(audit, soil) ==
    CASE soil = "clean" -> audit.score <= 250 [] soil = "adversarial" -> audit.score >= 500 [] OTHER -> TRUE

\* Half of a sum in tenths, rounded to a tenth.
HalfOf(sum) == (sum + 1) \div 2

\* A citation of a new candidate, or of one before: the trust is no mean, but halfway to the
\* latest article's.
Cited(found, site, audit) ==
    IF site \notin DOMAIN found
    THEN found @@ (site :> [site |-> site, count |-> 1, trust |-> 1000 - audit.score,
                            by |-> {audit.url}, place |-> Cardinality(DOMAIN found)])
    ELSE [found EXCEPT ![site].count = @ + 1, ![site].by = @ \union {audit.url},
                       ![site].trust = HalfOf(@ + 1000 - audit.score)]

\* Most cited first, then the most (of adversarial soil the least) trusted, then the first found.
Precedes(soil, c, d) ==
    \/ c.count > d.count
    \/ /\ c.count = d.count
       /\ IF soil = "adversarial" THEN c.trust < d.trust ELSE c.trust > d.trust
    \/ c.count = d.count /\ c.trust = d.trust /\ c.place <= d.place

\* extract_root_candidates: each link of each audit, unless it is the article's own site, one
\* that is subscribed to, or not eligible.
RootCandidates(subscribed, soil, limit) ==
    LET citations == FlattenSeq([n \in DOMAIN Soil |->
            IF ~Fertile(Soil[n], soil) THEN <<>>
            ELSE [k \in DOMAIN Soil[n].links |-> <<Soil[n].links[k], Soil[n]>>]])
        counted == SelectSeq(citations, LAMBDA c :
            /\ c[1] # c[2].site /\ c[1] \notin subscribed /\ Eligible(c[1]))
        found == Range(FoldLeft(LAMBDA f, c : Cited(f, c[1], c[2]), <<>>, counted))
        ranked == SetToSortSeq(found, LAMBDA c, d : Precedes(soil, c, d))
    IN  [n \in 1..Min({limit, Cardinality(found)}) |->
            [site |-> ranked[n].site, count |-> ranked[n].count,
             subject |-> ClassifySubject(LoadCatalogs, TextOf[ranked[n].site]).subject]]

RootSites == {FeedSite[f] : f \in DOMAIN roots}

-----------------------------------------------------------------------------
Continue(s, r) == expansions' = [expansions EXCEPT ![s] = r]
Stays(s, step) == expansions[s].step = step
Later(s) == Tail(expansions[s].left)

\* The next candidate, or the end: behind a cycle's first expansion comes its second, of the
\* same kind of soil and in the same session.
Onward(s, left, poisoned) ==
    LET e == [expansions[s] EXCEPT !.left = left, !.poisoned = poisoned, !.feed = NoFeed, !.entries = <<>>]
    IN  IF left # <<>> THEN [e EXCEPT !.step = "discover"]
        ELSE IF Len(e.wants) > 1 THEN [e EXCEPT !.step = "extract", !.wants = Tail(@)]
        ELSE Resting

BeginExpansion(s) ==
    /\ Stays(s, "rest")
    /\ \E wants \in Wanted, least \in Least, dry \in DryRuns :
         /\ dry => Len(wants) = 1
         /\ Continue(s, [step |-> "extract", wants |-> wants, least |-> least, dry |-> dry, poisoned |-> FALSE,
                        left |-> <<>>, feed |-> NoFeed, entries |-> <<>>])
    /\ UNCHANGED <<roots, queued>>

\* Without a usable session the expansion raises, and its caller goes on.
Extract(s) ==
    /\ Stays(s, "extract")
    /\ LET e == expansions[s]
       IN  \E cited \in {SelectSeq(RootCandidates(RootSites, "clean", 30), LAMBDA c : c.count >= e.least)} :
             Continue(s, Onward(s, IF e.poisoned THEN <<>>
                                  ELSE SubSeq(cited, 1, Min({Head(e.wants), Len(cited)})), e.poisoned))
    /\ UNCHANGED <<roots, queued>>

\* The first feed of the page, where there is one; a dry run asks for no more.
Probe(s) ==
    /\ Stays(s, "discover")
    /\ LET e == expansions[s]
           feeds == Served[Head(e.left).site]
       IN  Continue(s, IF feeds = <<>> \/ e.dry \/ e.poisoned \/ Head(feeds) \in DOMAIN roots
                      THEN Onward(s, Later(s), e.poisoned)
                      ELSE [e EXCEPT !.step = "parse", !.feed = Head(feeds)])
    /\ UNCHANGED <<roots, queued>>

\* The subscription is committed with the validators of the document, unless another has
\* subscribed to the feed since: the flush fails then.
Subscribe(s) ==
    /\ Stays(s, "parse")
    /\ LET e == expansions[s]
           f == e.feed
       IN  \E answer \in Answers[f] : \E p \in {FetchAndParse(answer, "none")} :
             \/ /\ ~p.parsed
                /\ Continue(s, Onward(s, Later(s), FALSE)) /\ UNCHANGED roots
             \/ /\ p.parsed /\ f \in DOMAIN roots
                /\ Continue(s, Onward(s, Later(s), TRUE)) /\ UNCHANGED roots
             \/ /\ p.parsed /\ f \notin DOMAIN roots
                /\ roots' = roots @@ (f :> [site |-> Head(e.left).site, subject |-> Head(e.left).subject,
                                            validators |-> p.validators, entries |-> p.entries])
                /\ Continue(s, [e EXCEPT !.step = "look", !.entries = p.entries])
    /\ UNCHANGED queued

\* Of the first entries those that are not queued yet, each asked for on its own.
Harvest(entries) ==
    SelectSeq(SubSeq(entries, 1, Min({10, Len(entries)})), LAMBDA e : e.url \notin queued)

Look(s) ==
    /\ Stays(s, "look")
    /\ Continue(s, [expansions[s] EXCEPT !.step = "commit", !.entries = Harvest(@)])
    /\ UNCHANGED <<roots, queued>>

\* All of them are inserted, or none: one that another has queued since, or that the document
\* lists twice, fails the flush.
CommitHarvest(s) ==
    /\ Stays(s, "commit")
    /\ LET urls == [n \in DOMAIN expansions[s].entries |-> expansions[s].entries[n].url]
           fails == ~IsInjective(urls) \/ Range(urls) \intersect queued # {}
       IN  /\ queued' = IF fails THEN queued ELSE queued \union Range(urls)
           /\ Continue(s, Onward(s, Later(s), fails))
    /\ UNCHANGED roots

\* A sync of some feed queues an article of it.
SyncQueues(u) ==
    /\ u \notin queued /\ queued' = queued \union {u}
    /\ UNCHANGED <<roots, expansions>>

Expand(s) == Extract(s) \/ Probe(s) \/ Subscribe(s) \/ Look(s) \/ CommitHarvest(s)

RootsNext ==
    \/ \E s \in Sessions : BeginExpansion(s) \/ Expand(s)
    \/ \E u \in Articles : SyncQueues(u)

-----------------------------------------------------------------------------
(***************************************************************************)
(* What the code does not keep.  "Harvest initial entries into FeedItem    *)
(* queue" (roots.py:273): once nobody is at work, what a subscribed feed   *)
(* listed is queued; but entries beyond ten, and all of a harvest that     *)
(* failed, are not, while the validators of the document are stored.       *)
(***************************************************************************)
HarvestIsComplete ==
    (\A s \in Sessions : Stays(s, "rest")) =>
        \A f \in DOMAIN roots : \A e \in Range(roots[f].entries) : e.url \in queued

\* A failure of one candidate is its own ("error", roots.py:324-332): the session is lost to
\* the candidates behind it.
FailuresAreOwn == \A s \in Sessions : ~Stays(s, "rest") => ~expansions[s].poisoned

\* The tree shows every subject that is loaded (registry.py:81): those two levels down are not.
TreeIsWhole ==
    LET subjects == LoadCatalogs
        shown == UNION {{r.id} \union r.children : r \in HierarchyTree(subjects)}
    IN  roots = <<>> => {d.id : d \in Range(subjects)} \subseteq shown
================================================================================
