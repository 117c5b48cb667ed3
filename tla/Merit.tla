--------------------------------- MODULE Merit ---------------------------------
(***************************************************************************)
(* What a node says of its peers (credence/mesh/quality.py, merit.py,      *)
(* badges.py): quality, tier, badges, the leaderboard and its own card.    *)
(* All of it is computed from the rows of PeerMetric, which nothing under  *)
(* src writes, and from the records of Expertise.  Ratios are in           *)
(* ten-thousandths, latencies in milliseconds.                             *)
(***************************************************************************)
EXTENDS Expertise, Sequences, SequencesExt

CONSTANTS
    KeyOrder,       \* the place of each node's key among all keys
    Rows,           \* rows that may stand in PeerMetric
    LogShare,       \* log(1 + days) / log(91) for the days of the rows
    Decay,          \* what a silence of so many hours leaves of the uptime
    FeedItems       \* items of the node's own feeds

PeerRow ==
    [quality : Nat, days : Nat, evaluations : Nat, deviations : Nat, grounded : Nat, citations : Nat,
     sent : Nat, answered : Nat, latency : Nat, silent : Nat, hashes : BOOLEAN, tokens : Nat,
     galileo : Nat, quorums : Nat]

ASSUME MeritAssumption ==
    /\ KeyOrder \in [Nodes -> Nat] /\ FeedItems \in Nat /\ Rows \subseteq PeerRow
    /\ \A row \in Rows : Decay[row.silent] \in Nat
    /\ \A m, n \in Nodes : KeyOrder[m] = KeyOrder[n] => m = n

VARIABLE peers      \* the row of each peer, or NoRow
meritVars == <<peers>>

NoRow == [quality |-> -1]

-----------------------------------------------------------------------------
Share(part, whole) == Lesser(Unit, (part * Unit) \div whole)

\* compute_node_quality: the factors, with priors where nothing has been seen.
Uptime(p) ==
    LET beats == IF p.sent > 0 THEN Share(p.answered, p.sent) ELSE Unit
    IN  (beats * (7000 + 3 * (1000 - Lesser(p.latency, 1000)))) \div Unit
MedianConcordance(p) ==
    IF p.evaluations > 0 THEN Greater(0, Unit - (p.deviations * Unit) \div (500 * p.evaluations)) ELSE 8500
QuoteGrounding(p) == IF p.citations > 0 THEN Share(p.grounded, p.citations) ELSE 9000

Quality(p) ==
    (25 * Uptime(p) + 30 * MedianConcordance(p) + 25 * QuoteGrounding(p)
       + 10 * (IF p.hashes THEN Unit ELSE 0) + 10 * LogShare[p.days]) \div 100

IsSeedCandidate(p) ==
    Quality(p) >= 8500 /\ Uptime(p) >= 8000 /\ QuoteGrounding(p) >= 8000 /\ p.hashes

-----------------------------------------------------------------------------
\* What the tables below read of a row: a peer without citations is grounded in nothing.
CitedShare(p) == (p.grounded * Unit) \div Greater(1, p.citations)
HalfLifeUptime(p) ==
    IF p.sent = 0 THEN Unit ELSE (Share(p.answered, p.sent) * Decay[p.silent]) \div Unit

SubjectRecords(k) == {metrics[k][s] : s \in Subjects} \ {NoRecord}
BestExpertise(k) ==
    LET all == {r.expertise : r \in SubjectRecords(k)} \cup {Floor}
    IN  CHOOSE e \in all : \A f \in all : f <= e

Tiers == <<"SPROUT", "SIFTER", "AUDITOR", "SPECIALIST", "ROOT_ANCHOR">>

\* Mutant of TierRank: a sifter has less than fifty evaluations.
TierRankInBands(p, expertise) ==
    IF p.quality >= 8500 /\ p.days >= 30 /\ CitedShare(p) >= 8000 THEN 5
    ELSE IF expertise >= 8000 /\ p.quality >= 7500 /\ p.evaluations >= 50 THEN 4
    ELSE IF p.quality >= 7000 /\ p.evaluations >= 50 /\ CitedShare(p) >= 8500 THEN 3
    ELSE IF p.evaluations \in 10..49 /\ p.quality >= 6000 /\ CitedShare(p) >= 7000 THEN 2
    ELSE 1

\* determine_node_tier: the rank, from 1 for SPROUT to 5 for ROOT_ANCHOR.
TierRank(p, expertise) ==
    IF p.quality >= 8500 /\ p.days >= 30 /\ CitedShare(p) >= 8000 THEN 5
    ELSE IF expertise >= 8000 /\ p.quality >= 7500 /\ p.evaluations >= 50 THEN 4
    ELSE IF p.quality >= 7000 /\ p.evaluations >= 50 /\ CitedShare(p) >= 8500 THEN 3
    ELSE IF p.evaluations >= 10 /\ p.quality >= 6000 /\ CitedShare(p) >= 7000 THEN 2
    ELSE 1

\* evaluate_node_badges: the node's own feed items count for every peer.
Badges(p, records) ==
    LET all == p.evaluations + FeedItems
        award(b, earned) == IF earned THEN {b} ELSE {}
    IN  UNION { {"sprout_node"},
          award("first_attestation", all >= 5),
          award("sifter_pioneer", all >= 100),
          award("cadence_keeper", p.days >= 7 /\ HalfLifeUptime(p) >= 9800),
          award("verified_auditor", p.quality >= 7000 /\ all >= 100 /\ CitedShare(p) >= 9500),
          award("philanthropic_relay", p.tokens >= 1000 * 1000),
          award("domain_specialist", \E r \in records : r.expertise >= 8000 /\ r.domains >= 5),
          award("galileo_pioneer", p.galileo >= 1),
          award("root_seed_candidate",
                p.quality >= 8500 /\ p.days >= 30 /\ CitedShare(p) >= 8000 /\ p.hashes),
          award("sybil_shield", p.evaluations >= 5000 /\ \A r \in records : r.slashes = 0),
          award("quorum_sentinel", p.quorums >= 10 \/ (p.evaluations >= 100 /\ p.quality >= 8000)),
          award("century_anchor",
                p.days >= 100 /\ p.quality >= 9000 /\ CitedShare(p) >= 9800 /\ p.hashes) }

-----------------------------------------------------------------------------
Known == {k \in Nodes : peers[k] # NoRow}

\* The column a leaderboard is asked for.
Score(p, category) ==
    CASE category = "uptime" -> HalfLifeUptime(p)
      [] category = "grounding" -> CitedShare(p)
      [] category = "tokens" -> p.tokens
      [] category = "longevity" -> p.days
      [] category = "galileo" -> p.galileo
      [] OTHER -> p.quality

\* By score, grounding, quality, and the key.
Precedes(a, b, category) ==
    LET p == peers[a]
        q == peers[b]
        s == Score(p, category)
        t == Score(q, category)
    IN  \/ s > t
        \/ s = t /\ CitedShare(p) > CitedShare(q)
        \/ s = t /\ CitedShare(p) = CitedShare(q) /\ p.quality > q.quality
        \/ s = t /\ CitedShare(p) = CitedShare(q) /\ p.quality = q.quality /\ KeyOrder[a] <= KeyOrder[b]

\* get_leaderboard, for those of a team or for all; its first entry has rank 1.  Without any
\* row the code answers a placeholder for the node itself.
Leaderboard(category, among, limit) ==
    LET sorted == SetToSortSeq(among, LAMBDA a, b : a # b /\ Precedes(a, b, category))
    IN  SubSeq(sorted, 1, Lesser(limit, Len(sorted)))

\* get_local_node_merit.  Without a row of its own, or beyond the first thousand, the node
\* takes rank 1; the progress to the next tier is that of one of its conditions.
LocalCard(k, limit) ==
    LET board == Leaderboard("quality", Known, limit)
        p == peers[k]
        rank == TierRank(p, BestExpertise(k))
        place == {n \in DOMAIN board : board[n] = k}
    IN  IF p = NoRow
        THEN [tier |-> 1, quality |-> 8500, rank |-> 1, progress |-> Lesser(100, FeedItems)]
        ELSE [tier |-> rank, quality |-> p.quality,
              rank |-> IF place = {} THEN 1 ELSE CHOOSE n \in place : TRUE,
              progress |-> CASE rank = 1 -> Lesser(100, 10 * p.evaluations)
                             [] rank = 2 -> Lesser(100, 2 * p.evaluations)
                             [] rank = 3 -> Lesser(100, BestExpertise(k) \div 80)
                             [] rank = 4 -> Lesser(100, (10 * p.days) \div 3)
                             [] OTHER -> 100]

-----------------------------------------------------------------------------
\* Some row is written, by whoever observes the peer.
Observe(k) ==
    /\ \E row \in Rows : peers' = [peers EXCEPT ![k] = row]
    /\ UNCHANGED expertiseVars

MeritInit == ExpertiseInit /\ peers = [k \in Nodes |-> NoRow]
MeritNext ==
    \/ \E k \in Nodes : Observe(k)
    \/ ExpertiseNext /\ UNCHANGED meritVars
MeritSpec == MeritInit /\ [][MeritNext]_<<expertiseVars, meritVars>>

(***************************************************************************)
(* Merit does not fall as a peer does better: who is at least as good in   *)
(* every column has at least the tier and the badges (badges.py:182-199,   *)
(* 202-400).                                                               *)
(***************************************************************************)
NoWorse(p, q) ==
    /\ p.quality <= q.quality /\ p.days <= q.days /\ p.evaluations <= q.evaluations
    /\ CitedShare(p) <= CitedShare(q)
    /\ p.hashes => q.hashes
    /\ HalfLifeUptime(p) <= HalfLifeUptime(q) /\ p.tokens <= q.tokens
    /\ p.galileo <= q.galileo /\ p.quorums <= q.quorums

MeritFollows ==
    \A a, b \in Known :
        NoWorse(peers[a], peers[b]) =>
          /\ TierRank(peers[a], BestExpertise(a)) <= TierRank(peers[b], Greater(BestExpertise(a), BestExpertise(b)))
          /\ Badges(peers[a], {}) \subseteq Badges(peers[b], {})

(***************************************************************************)
(* What the code does not keep.  Seeds are vetted ("Vetted,                *)
(* high-reputation bootstrap seed peer", seed.py:25): the priors alone     *)
(* make one after a few days.                                              *)
(***************************************************************************)
SeedsAreVetted ==
    \A k \in Known : IsSeedCandidate(peers[k]) => peers[k].sent > 0 \/ peers[k].evaluations > 0

\* The rank on the card is the node's place on the leaderboard (merit.py:269-273, 296).
CardRankIsPlace ==
    \A k \in Nodes : LocalCard(k, 1000).rank = 1 /\ Known # {} =>
                        Leaderboard("quality", Known, 1000)[1] = k

\* A badge does not name a tier above the node's own (models.py:41-113, badges.py:182-199).
BadgeWithinTier ==
    \A k \in Known : "root_seed_candidate" \in Badges(peers[k], SubjectRecords(k))
                       <=> TierRank(peers[k], BestExpertise(k)) = 5

\* Progress of 100 % is the next tier (merit.py:325-338).
ProgressIsReal ==
    \A k \in Known : LocalCard(k, 1000).tier < 5 => LocalCard(k, 1000).progress < 100
================================================================================
