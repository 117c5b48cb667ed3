------------------------------- MODULE Consensus -------------------------------
(***************************************************************************)
(* What a node makes of several attestations of one content                *)
(* (credence/mesh/consensus.py), each weighted by the authority of its     *)
(* node in a subject (Expertise), which moves while attestations arrive.   *)
(* Scores and agreement are in tenths, weights and qualities in            *)
(* ten-thousandths, confidence and grounding in hundredths.                *)
(***************************************************************************)
EXTENDS Expertise, Sequences, FiniteSetsExt

CONSTANTS
    Findings,       \* [score, confidence, grounded, violated, satire, verdict] of an attestation
    General,        \* stands for no subject
    Reputation,     \* the quality known of each node, 5000 where none is
    Byzantine,      \* nodes that attest what they like
    MaxAttested     \* bound on the attestations

ASSUME ConsensusAssumption ==
    /\ General \notin Subjects /\ Byzantine \subseteq Nodes /\ Reputation \in [Nodes -> 0..Unit]
    /\ Findings \subseteq [score : 0..1000, confidence : 0..100, grounded : 0..100,
                            violated : BOOLEAN, satire : BOOLEAN, verdict : STRING]

VARIABLE attested   \* the stored audits of the content, in the order they came
vars == <<expertiseVars, attested>>

Init == ExpertiseInit /\ attested = <<>>

\* A row is stored for every audit that is made or received, of the same node too.
Attest(n) ==
    /\ Len(attested) < MaxAttested
    /\ \E f \in Findings : attested' = Append(attested, [node |-> n, found |-> f])
    /\ UNCHANGED expertiseVars

Next ==
    \/ ExpertiseNext /\ UNCHANGED attested
    \/ \E n \in Nodes : Attest(n)

Spec == Init /\ [][Next]_vars

-----------------------------------------------------------------------------
\* _calculate_peer_meta.  Expertise is looked up for the very subject, not for its parent.
Peer(a, subject) ==
    LET expertise == IF subject = General THEN 5000
                     ELSE IF metrics[a.node][subject] = NoRecord THEN Floor
                     ELSE metrics[a.node][subject].expertise
        base == IF subject = General THEN Reputation[a.node]
                ELSE EffectiveWeight(Reputation[a.node], expertise)
        grounded == IF a.found.violated THEN a.found.grounded ELSE 100
        weight == Greater(100, (base * a.found.confidence * (100 + grounded)) \div 20000)
    IN  [node |-> a.node, score |-> a.found.score, satire |-> a.found.satire,
         verdict |-> a.found.verdict, confidence |-> a.found.confidence, weight |-> weight,
         evidence |-> /\ expertise >= 7000 \/ weight >= 5000
                      /\ a.found.violated /\ grounded >= 80]

Peers(audits, subject) == [i \in DOMAIN audits |-> Peer(audits[i], subject)]

Weight(peers, among) == MapThenSumSet(LAMBDA i : peers[i].weight, among)

\* Mutant of WeightedMedian: every attestation weighs the same.
MedianOfHeads(peers, among) ==
    Min({x \in {peers[i].score : i \in among} :
           2 * Cardinality({i \in among : peers[i].score <= x}) >= Cardinality(among)})

\* _compute_median_score: the lowest score at which half of the weight is reached.
WeightedMedian(peers, among) ==
    Min({x \in {peers[i].score : i \in among} :
           2 * Weight(peers, {i \in among : peers[i].score <= x}) >= Weight(peers, among)})

Far(peers, i, median) == peers[i].score - median > 250 \/ median - peers[i].score > 250

\* Mutant of Outliers: evidence is no protection.
OutliersByScore(peers, median) ==
    {i \in DOMAIN peers : Far(peers, i, median) /\ Len(peers) >= 3}

\* _filter_outliers: more than 25 points from the median, among three at least, unless an
\* authority shows grounded violations.
Outliers(peers, median) ==
    {i \in DOMAIN peers : ~peers[i].evidence /\ Far(peers, i, median) /\ Len(peers) >= 3}

\* classify_verdict on the rounded score.
Band(score) ==
    IF score <= 150 THEN "CLEAN" ELSE IF score <= 400 THEN "LOW_SUSPICION"
    ELSE IF score <= 700 THEN "SUSPICIOUS" ELSE "DECEPTIVE"

\* The consensus of the attestations; satire and agreement count heads.
Verdict(audits, subject) ==
    LET peers == Peers(audits, subject)
        outliers == Outliers(peers, WeightedMedian(peers, DOMAIN peers))
        active == IF outliers = DOMAIN peers THEN DOMAIN peers ELSE DOMAIN peers \ outliers
        evident == {i \in active : peers[i].evidence}
        median == WeightedMedian(peers, active)
        anchored == IF median = 0 /\ evident # {} THEN WeightedMedian(peers, evident) ELSE median
        satire == 2 * Cardinality({i \in active : peers[i].satire}) > Cardinality(active)
        band == IF satire THEN "SATIRE_PARODY" ELSE Band(anchored)
        agreement == (1000 * Cardinality({i \in active : peers[i].verdict = band}))
                       \div Cardinality(active)
    IN  [score |-> IF satire THEN 0 ELSE anchored, satire |-> satire, verdict |-> band,
         outliers |-> outliers, agreement |-> agreement, resilient |-> agreement >= 660,
         confidence |-> MapThenSumSet(LAMBDA i : peers[i].confidence * peers[i].weight, active)
                          \div Weight(peers, active)]

\* credence_get_consensus: stored violations are taken for grounded, reputations unknown.
AsStored(audits) ==
    [i \in DOMAIN audits |-> [audits[i] EXCEPT !.found.grounded = 100]]

(***************************************************************************)
(* should_adopt_attestation: a peer of quality 0.70 whose violations are   *)
(* grounded to 85 %.                                                       *)
(***************************************************************************)
ShouldAdopt(a) ==
    /\ Reputation[a.node] >= 7000
    /\ a.found.violated => a.found.grounded >= 85

-----------------------------------------------------------------------------
Asked == Subjects \cup {General}
Honest == {i \in DOMAIN attested : attested[i].node \notin Byzantine}
HonestScores == {attested[i].found.score : i \in Honest}

(***************************************************************************)
(* While the honest attestations are within the tolerance of one another   *)
(* and hold more than half of the weight, others move neither the score    *)
(* out of their range nor an honest node out of the count, whatever they   *)
(* attest and how often, unless one of them is an authority with evidence  *)
(* or heads make it satire (consensus.py:109-149, 166-198).                *)
(***************************************************************************)
HonestRange ==
    \A subject \in Asked :
        LET peers == Peers(attested, subject)
            verdict == Verdict(attested, subject)
            lies == DOMAIN attested \ Honest
        IN  (/\ Honest # {} /\ Max(HonestScores) - Min(HonestScores) <= 250
             /\ Weight(peers, lies) < Weight(peers, Honest)
             /\ \A i \in lies : ~peers[i].evidence)
            => /\ verdict.outliers \cap Honest = {}
               /\ ~verdict.satire => Min(HonestScores) <= verdict.score
                                       /\ verdict.score <= Max(HonestScores)

(***************************************************************************)
(* An authority that shows grounded violations is always counted, and no   *)
(* number of reports without findings brings the score to zero against it  *)
(* unless heads make it satire (consensus.py:136-141, 186-198).            *)
(***************************************************************************)
GalileoHeard ==
    \A subject \in Asked, i \in DOMAIN attested :
        LET verdict == Verdict(attested, subject)
            p == Peer(attested[i], subject)
        IN  (p.evidence /\ p.score > 0) =>
              /\ i \notin verdict.outliers
              /\ verdict.satire \/ verdict.score > 0 \/
                   \E j \in DOMAIN attested : /\ Peer(attested[j], subject).evidence
                                              /\ attested[j].found.score = 0

(***************************************************************************)
(* What the code does not keep.  "Domain Authority Weighted": nodes with   *)
(* less than half of the weight make it satire, and the score zero         *)
(* (consensus.py:201-205).                                                 *)
(***************************************************************************)
SatireIsWeighted ==
    \A subject \in Asked :
        LET peers == Peers(attested, subject)
            satire == {i \in DOMAIN attested : peers[i].satire}
        IN  (attested # <<>> /\ Verdict(attested, subject).satire)
            => 2 * Weight(peers, satire) >= Weight(peers, DOMAIN attested)

(***************************************************************************)
(* Lies with less than half of the weight do not move the score out of the *)
(* range of the honest: trimming honest nodes that differ leaves the lies  *)
(* the greater weight of the rest.                                         *)
(***************************************************************************)
MinorityCannotMove ==
    \A subject \in Asked :
        LET peers == Peers(attested, subject)
            verdict == Verdict(attested, subject)
        IN  (/\ Honest # {} /\ ~verdict.satire
             /\ Weight(peers, DOMAIN attested \ Honest) < Weight(peers, Honest)
             /\ \A i \in DOMAIN attested \ Honest : ~peers[i].evidence)
            => Min(HonestScores) <= verdict.score /\ verdict.score <= Max(HonestScores)

(***************************************************************************)
(* One node has one voice: its repeated audits of one content count once   *)
(* (consensus_tools.py:64-65 reads every stored row).                      *)
(***************************************************************************)
OneVoiceEach ==
    \A subject \in Asked :
        \A i \in DOMAIN attested :
            (i > 1 /\ \E j \in 1..(i - 1) : attested[j] = attested[i]) =>
               Verdict(attested, subject).score =
               Verdict([k \in 1..(Len(attested) - 1) |-> attested[IF k < i THEN k ELSE k + 1]], subject).score

(***************************************************************************)
(* What is not found in the page gives no one the protection of evidence:  *)
(* the tool takes every stored violation for grounded                      *)
(* (consensus_tools.py:79).                                                *)
(***************************************************************************)
UngroundedIsNoEvidence ==
    \A subject \in Asked, i \in DOMAIN attested :
        attested[i].found.grounded < 80 => ~Peer(AsStored(attested)[i], subject).evidence
================================================================================
