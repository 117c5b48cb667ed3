------------------------------ MODULE FeedQuality ------------------------------
(***************************************************************************)
(* What a node thinks of a feed before it subscribes: where a page says    *)
(* its feeds are (credence/feeds/discovery.py), and the quality F_j of a   *)
(* sample of its articles (credence/feeds/health.py).  Scores are in       *)
(* tenths, shares and F_j in thousandths.  A report is                     *)
(* [score, violations, grounded]; the entropy of the words of the sample   *)
(* and the hours since its newest article are inputs.                      *)
(***************************************************************************)
EXTENDS Integers, Sequences, SequencesExt, FiniteSets, FiniteSetsExt

CONSTANTS
    Reports,        \* what an audit of an article may find
    Entropies,      \* compute_topic_entropy of the sampled words
    Ages,           \* hours since the newest article, or Undated
    Undated,
    MaxSample,      \* max_sample_articles
    Homepages       \* what a site may answer

ASSUME FeedQualityAssumption ==
    /\ \A r \in Reports : r.score \in 0..1000 /\ r.violations \in Nat /\ r.grounded \in 0..r.violations
    /\ Entropies \subseteq 0..1000 /\ Ages \ {Undated} \subseteq Nat /\ MaxSample \in Nat

VARIABLES
    sample,         \* the reports of the articles audited so far
    judged,         \* the answer of the preflight
    endpoints       \* the feeds discovered

qualityVars == <<sample, judged, endpoints>>

NotJudged == [status |-> "none"]
QualityInit == sample = <<>> /\ judged = NotJudged /\ endpoints = <<>>

-----------------------------------------------------------------------------
Nearest(n, d) == (2 * n + d) \div (2 * d)
Clamped(low, high, x) == IF x < low THEN low ELSE IF x > high THEN high ELSE x
Total(field, reports) ==
    LET terms == [k \in DOMAIN reports |-> reports[k][field]]
    IN  MapThenSumSet(LAMBDA k : terms[k], DOMAIN reports)

\* Fresh articles count 1, and 1/240 less for each hour, down to 0.2: in sixths of thousandths.
Freshness(age) == IF age = Undated THEN 4800 ELSE Clamped(1200, 6000, 6000 - 25 * age)

SuspicionSum(reports) == Total("score", reports)

\* Mutant of Grounding: where there are no violations nothing is grounded.
GroundingOfNone(reports) ==
    LET all == Total("violations", reports)
    IN  IF all = 0 THEN <<0, 1>> ELSE <<Total("grounded", reports), all>>

\* The share of the violations whose quotation is on the page, a fraction; 1 where there are none.
Grounding(reports) ==
    LET all == Total("violations", reports)
    IN  IF all = 0 THEN <<1, 1>> ELSE <<Total("grounded", reports), all>>

(***************************************************************************)
(* compute_feed_quality_score:                                             *)
(* F_j = 0.35 (1 - S/100) + 0.25 G + 0.20 H + 0.20 T, over one denominator.*)
(***************************************************************************)
FeedScore(reports, entropy, age) ==
    LET n == Len(reports)
        g == Grounding(reports)
    IN  IF n = 0 THEN 500
        ELSE Nearest(6 * (35 * (1000 * n - SuspicionSum(reports)) * g[2] + 25 * 1000 * g[1] * n
                            + 20 * entropy * n * g[2]) + 20 * Freshness(age) * n * g[2],
                     600 * n * g[2])

FeedStatus(score) ==
    IF score >= 700 THEN "ACTIVE" ELSE IF score >= 400 THEN "PROBATION" ELSE "QUARANTINE"

\* run_preflight_feed_audit: the reasons against a feed, and whether it is recommended.
Reasons(reports, entropy) ==
    {reason \in {"clustered", "suspicious", "ungrounded"} :
       CASE reason = "clustered" -> entropy < 250
         [] reason = "suspicious" -> Nearest(SuspicionSum(reports), Len(reports)) > 600
         [] OTHER -> Nearest(1000 * Grounding(reports)[1], Grounding(reports)[2]) < 700}

Judged(reports, entropy, age) ==
    LET score == FeedScore(reports, entropy, age)
    IN  IF reports = <<>>
        THEN [score |-> 0, status |-> "QUARANTINE", recommended |-> FALSE, entropy |-> 0, age |-> age]
        ELSE [score |-> score, status |-> FeedStatus(score), entropy |-> entropy, age |-> age,
              recommended |-> score >= 600 /\ Reasons(reports, entropy) = {}]

AuditArticle ==
    /\ judged = NotJudged /\ endpoints = <<>> /\ Len(sample) < MaxSample
    /\ \E r \in Reports : sample' = Append(sample, r)
    /\ UNCHANGED <<judged, endpoints>>

Preflight ==
    /\ judged = NotJudged /\ endpoints = <<>>
    /\ \E entropy \in Entropies, age \in Ages : judged' = Judged(sample, entropy, age)
    /\ UNCHANGED <<sample, endpoints>>

-----------------------------------------------------------------------------
(* A page is [answer, links, paths]: "feed" or "html" or "error", the link   *)
(* tags [alternate, type, href, feed] in their order (a type is the set of   *)
(* the four words it contains; feed: what the link leads to is one), and the *)
(* well-known paths that answer with a feed.                                 *)

WellKnownFeedPaths == <<"/feed", "/rss", "/rss.xml", "/feed.xml", "/atom.xml", "/index.xml",
                        "/.well-known/epistemic-feeds.json">>

\* The kind a link's type names.
FeedType(type) ==
    IF "atom" \in type THEN "atom" ELSE IF "json" \in type THEN "json_feed"
    ELSE IF type \intersect {"rss", "xml"} # {} THEN "rss" ELSE "none"

\* _FeedLinkHTMLParser, and the links that were not seen before.
LinkedFeeds(page) ==
    LET named == SelectSeq(page.links, LAMBDA l : l.alternate /\ FeedType(l.type) # "none")
        urls == [n \in DOMAIN named |-> named[n].href]
    IN  FoldLeft(LAMBDA seen, u : IF Contains(seen, u) THEN seen ELSE Append(seen, u), <<>>, urls)

\* The page itself, else the links in it, else the first well-known path that answers.
discover_feed_endpoints(page) ==
    LET answering == SelectSeq(WellKnownFeedPaths, LAMBDA p : p \in page.paths)
    IN  IF page.answer = "feed" THEN <<"page">>
        ELSE IF page.answer = "html" /\ LinkedFeeds(page) # <<>> THEN LinkedFeeds(page)
        ELSE SubSeq(answering, 1, IF answering = <<>> THEN 0 ELSE 1)

DiscoverFeeds ==
    /\ QualityInit
    /\ \E page \in Homepages : endpoints' = discover_feed_endpoints(page)
    /\ UNCHANGED <<sample, judged>>

QualityNext == AuditArticle \/ Preflight \/ DiscoverFeeds

QualitySpec == QualityInit /\ [][QualityNext]_qualityVars

-----------------------------------------------------------------------------
\* The grounding of accusations counts for a feed and not against its articles: however many
\* violations are well grounded, a feed whose articles were found clean is scored at least as
\* high as one with the same words and age whose articles were not.
CleanIsBest ==
    judged # NotJudged /\ sample # <<>> =>
        judged.score <= FeedScore(<<[score |-> 0, violations |-> 0, grounded |-> 0]>>,
                                  judged.entropy, judged.age)

\* "Approved for active mesh rotation" (health.py:218) is said of a feed that the preflight
\* does not reject.
ActiveIsRecommended == judged # NotJudged /\ judged.status = "ACTIVE" => judged.recommended

\* A feed does not become worse by a clean article in the place of an accused one.
CleanArticleHelps ==
    judged # NotJudged /\ sample # <<>> =>
        LET cleaner == [sample EXCEPT ![1] = [score |-> 0, violations |-> 0, grounded |-> 0]]
        IN  judged.score <= FeedScore(cleaner, judged.entropy, judged.age)

\* "Autonomously extracts RSS 2.0, Atom, and JSON feed endpoints" (discovery.py:3): the first
\* endpoint, which expand_roots subscribes to, is a feed.
FirstIsFeed ==
    [][\A page \in Homepages :
           LET found == discover_feed_endpoints(page)
           IN  endpoints' = found /\ found # <<>> /\ page.answer = "html" =>
                  \A n \in DOMAIN page.links :
                      page.links[n].href = found[1] => page.links[n].feed]_qualityVars
================================================================================
