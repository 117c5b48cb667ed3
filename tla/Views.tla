--------------------------------- MODULE Views ---------------------------------
(***************************************************************************)
(* What a node shows its operator of the audits it holds: the profile of a *)
(* publisher, the list of publishers and the weather (subjects/weather.py),*)
(* the leaderboard and the rules broken most (subjects/analytics.py), the  *)
(* statistics of the node (mesh/stats.py) and the digest (feeds/digest.py).*)
(* They read the tables of AuditStore and change nothing.  A verdict has a *)
(* score and a density, averages are in tenths, and an index, DCI, is in   *)
(* thousandths; entropy of titles, wording and layout are left out.        *)
(***************************************************************************)
EXTENDS Exports

CONSTANTS
    Site,           \* the publisher of each url, or Unlisted
    Unlisted,       \* the domain of texts without a page
    Satire,         \* contents that are satire
    Signed          \* contents with a byline

Sites == {Site[u] : u \in DOMAIN Site} \ {Unlisted}
UrlOf(i) == snapshots[audits[i].snap].url
ScoreOf(i) == audits[i].verdict.score
DensityOf(i) == audits[i].verdict.density
IsSatire(i) == audits[i].content \in Satire
RulesOf(i) == {row[1] : row \in audits[i].stored}
Scores(ids) == FoldSet(LAMBDA i, sum : sum + ScoreOf(i), 0, ids)
Densities(ids) == FoldSet(LAMBDA i, sum : sum + DensityOf(i), 0, ids)
Percent(part, whole) == (100 * Cardinality(part)) \div Cardinality(whole)

DetermineTrustBand(dci) ==
    IF dci >= 90000 THEN "HIGH_INTEGRITY" ELSE IF dci >= 80000 THEN "RELIABLE"
    ELSE IF dci >= 65000 THEN "MONITORED" ELSE IF dci >= 45000 THEN "WATCHLIST" ELSE "DECEPTIVE"

-----------------------------------------------------------------------------
\* Mutant of LatestByUrl: the rows come newest first.
OldestByUrl(site) == {i \in DOMAIN audits :
    Site[UrlOf(i)] = site /\ \A j \in OfUrl(UrlOf(i)) : Placed(i) <= Placed(j)}

\* get_publisher_analytics goes through all audits, the newest last, and keeps one of each url.
LatestByUrl(site) == {i \in DOMAIN audits :
    Site[UrlOf(i)] = site /\ \A j \in OfUrl(UrlOf(i)) : Placed(j) <= Placed(i)}

\* Audits of a profile that cite one of the rules.
Citing(ids, rules) == {i \in ids : RulesOf(i) \cap rules # {}}

SourcingMetrics(ids) ==
    [byline |-> Percent({i \in ids : snapshots[audits[i].snap].content \in Signed}, ids),
     single |-> Percent(Citing(ids, {"SPJ-1.1", "SPJ-1.6", "SPJ-1.2"}), ids),
     disclosed |-> 100 - Percent(Citing(ids, {"SPJ-3.1", "SPJ-3.2"}), ids),
     separation |-> 100 - Percent(Citing(ids, {"DEC-1.4", "SPJ-3.3", "AST-1.1", "DP-1.2"}), ids)]

\* Half suspicion, three tenths density up to 50, one fifth missing bylines.
ProfileDci(ids, byline) ==
    LET n == Cardinality(ids)
        density == IF Densities(ids) > 50 * n THEN 50 * n ELSE Densities(ids)
        index == 100000 - (500 * Scores(ids) + 300 * density) \div n - 200 * (100 - byline)
    IN  IF index < 0 THEN 0 ELSE index

\* Badges but that for the entropy of titles.
Badges(dci, n, sourcing) ==
    (IF dci >= 85000 /\ n >= 3 THEN {"High Integrity"}
     ELSE IF dci >= 65000 THEN {"Reliable Newsroom"}
     ELSE IF dci < 40000 THEN {"Deceptive Patterns"} ELSE {})
    \cup (IF sourcing.byline >= 90 THEN {"Byline Transparent"} ELSE {})
    \cup (IF sourcing.disclosed < 60 THEN {"Governance COI Scrutiny"} ELSE {})

\* A site without audits has no profile.
Profile(site) ==
    LET ids == LatestByUrl(site)
        sourcing == SourcingMetrics(ids)
        dci == ProfileDci(ids, sourcing.byline)
    IN  [total |-> Cardinality(ids), sourcing |-> sourcing, dci |-> dci, band |-> DetermineTrustBand(dci),
         clean |-> Cardinality({i \in ids : ScoreOf(i) <= 15 /\ ~IsSatire(i)}),
         suspicious |-> Cardinality({i \in ids : ScoreOf(i) > 15 /\ ScoreOf(i) <= 70 /\ ~IsSatire(i)}),
         deceptive |-> Cardinality({i \in ids : ScoreOf(i) > 70 /\ ~IsSatire(i)}),
         satire |-> Cardinality({i \in ids : IsSatire(i)}),
         badges |-> Badges(dci, Cardinality(ids), sourcing)]

-----------------------------------------------------------------------------
\* The list and the leaderboard count every audit that was ever made of a site.
OfSite(site) == {i \in DOMAIN audits : Site[UrlOf(i)] = site}
Audited == {s \in Sites : OfSite(s) # {}}

\* list_all_publishers_summary: 100 less the average.
ListedDci(site) == 100000 - (1000 * Scores(OfSite(site))) \div Cardinality(OfSite(site))

\* compute_dci_score: six tenths suspicion, four tenths density up to 50.
RankedDci(site) ==
    LET n == Cardinality(OfSite(site))
        density == Densities(OfSite(site))
    IN  100000 - (600 * Scores(OfSite(site)) + 400 * (IF density > 50 * n THEN 50 * n ELSE density)) \div n

\* get_domain_leaderboard: min_audits is not asked.
Leaderboard(worst) ==
    LET better(s, t) ==
            LET a == RankedDci(s) b == RankedDci(t)
                m == Cardinality(OfSite(s)) n == Cardinality(OfSite(t))
            IN  IF a # b THEN (IF worst THEN a < b ELSE a > b) ELSE m > n
    IN  SetToSortSeq(Audited, better)

\* get_top_violated_rules: how often each rule is cited in the table.
Citations == [r \in UNION {RulesOf(i) : i \in DOMAIN audits} |->
    FoldSet(LAMBDA i, sum : sum + Cardinality({row \in audits[i].stored : row[1] = r}), 0, DOMAIN audits)]

\* get_global_epistemic_weather: a node without audits has fair weather.
Weather ==
    LET all == DOMAIN audits
        score == IF all = {} THEN 75000 ELSE 100000 - (1000 * Scores(all)) \div Cardinality(all)
    IN  [score |-> score, science |-> IF score > 5000 THEN score - 5000 ELSE 0,
         sky |-> IF score >= 80000 THEN "CLEAR_SKIES" ELSE IF score >= 60000 THEN "PARTLY_CLOUDY" ELSE "STORMY"]

\* get_community_bounties, but for their order and limit.
Bounties == {u \in Urls : items[u] \in {"pending", "specialist_needed"}}

-----------------------------------------------------------------------------
\* _compute_audit_aggregates: five verdicts, the histogram, and clean and flagged of a source.
Verdict5(i) ==
    IF IsSatire(i) THEN "satire" ELSE IF ScoreOf(i) <= 15 THEN "clean"
    ELSE IF ScoreOf(i) <= 40 THEN "low_suspicion" ELSE IF ScoreOf(i) <= 70 THEN "suspicious" ELSE "high_deception"
Bucket(i) == IF ScoreOf(i) <= 10 THEN "0-10 (Pristine)" ELSE IF ScoreOf(i) <= 25 THEN "11-25 (Clean)"
             ELSE IF ScoreOf(i) <= 50 THEN "26-50 (Low Suspicion)"
             ELSE IF ScoreOf(i) <= 75 THEN "51-75 (Suspicious)" ELSE "76-100 (Deceptive)"

SourceTier(site) ==
    LET ids == OfSite(site) average == (10 * Scores(ids)) \div Cardinality(ids)
    IN  [tier |-> IF average <= 100 THEN "A" ELSE IF average <= 200 THEN "B" ELSE IF average <= 350 THEN "C"
                  ELSE IF average <= 550 THEN "D" ELSE "E",
         flagged |-> Cardinality({i \in ids : ScoreOf(i) > 40})]

\* _compute_mesh_dynamics: 4200 tokens each, as the items of a germination say nothing of theirs.
AdoptedItems == {u \in Urls : items[u] = "mesh_adopted"}
Savings == [adopted |-> Cardinality(AdoptedItems), tokens |-> 4200 * Cardinality(AdoptedItems),
            resolved |-> Len(audits) + Cardinality(AdoptedItems)]

\* generate_morning_digest, over the audits since the cutoff.
Digest(recent) ==
    LET ids == {order[k] : k \in (Len(order) - recent + 1)..Len(order)}
        preserved == {i \in ids : audits[i].preserved}
    IN  [clean |-> {i \in ids : ~IsSatire(i) /\ ScoreOf(i) <= 15},
         warning |-> {i \in ids : ~IsSatire(i) /\ ScoreOf(i) > 15 /\ ScoreOf(i) <= 70},
         deceptive |-> {i \in ids : ~IsSatire(i) /\ ScoreOf(i) > 70},
         satire |-> {i \in ids : IsSatire(i)},
         adoptions |-> Cardinality(preserved), tokens |-> 3200 * Cardinality(preserved)]

-----------------------------------------------------------------------------
\* Not so: a publisher has one index (weather.py:315, 481, analytics.py:60).
OneIndex == \A s \in Audited : Profile(s).dci = RankedDci(s) /\ RankedDci(s) = ListedDci(s)

\* Not so: the adoptions of the digest are audits taken from the mesh (digest.py:158).
DigestCountsAdoptions == Digest(Len(order)).adoptions <= Cardinality({i \in DOMAIN audits : audits[i].adopted})

\* Not so: what the statistics count clean is counted in a clean bucket, and the source of an
\* audit flagged above 40 has it among those suspected (stats.py:98-114, 141).
VerdictsAgree == \A i \in DOMAIN audits :
    (Verdict5(i) = "clean" <=> Bucket(i) \in {"0-10 (Pristine)", "11-25 (Clean)"}) \/ IsSatire(i)
================================================================================
