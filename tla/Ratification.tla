------------------------------ MODULE Ratification ------------------------------
(***************************************************************************)
(* What a proposed standard has to pass (credence/pipeline/rfc.py): the    *)
(* linter, the gauntlet of fixtures and golden controls, and the two       *)
(* quorums.  The functions are called by the API, the tools and the tests; *)
(* no code moves a proposal on because of what they answer.                *)
(***************************************************************************)
EXTENDS Integers, Sequences, FiniteSets, FiniteSetsExt

CONSTANTS
    Anchors,        \* the active anchors
    Ballots         \* contents that may be voted on

ASSUME RatificationAssumption == IsFiniteSet(Anchors)

VARIABLE approvals  \* the anchors whose approval of a content has been counted
ratificationVars == <<approvals>>

RatificationInit == approvals = [b \in Ballots |-> {}]

\* An anchor may approve anything, and two contents of one standard as well.
Approve(a, b) == approvals' = [approvals EXCEPT ![b] = @ \cup {a}]

RatificationNext == \E a \in Anchors, b \in Ballots : Approve(a, b)
RatificationSpec == RatificationInit /\ [][RatificationNext]_ratificationVars

(***************************************************************************)
(* validate_catalog_yaml.  A text is what the parser makes of it: parsed,  *)
(* the fields it has, whether it is a catalog, and its clusters of rules   *)
(* [signals, guided, severity], the guided being those with a guideline of *)
(* ten characters.  The parser itself refuses a severity out of bounds.    *)
(***************************************************************************)
Required == {"domain", "name", "description", "clusters"}

Lint(text) ==
    /\ text.parsed
    /\ Required \subseteq text.fields
    /\ text.isCatalog
    /\ text.clusters # <<>>
    /\ \A c \in DOMAIN text.clusters :
         /\ text.clusters[c] # <<>>
         /\ \A r \in DOMAIN text.clusters[c] :
              LET rule == text.clusters[c][r]
              IN  rule.signals >= 2 /\ rule.guided /\ rule.severity \in 1..5

-----------------------------------------------------------------------------
(***************************************************************************)
(* run_synthetic_benchmark: a fixture is the rules its author expects and  *)
(* those he says were detected; a golden control is what he says was       *)
(* detected on a clean text.  Rates are exact: a >= 0.90 is 10 x >= 9 y.   *)
(***************************************************************************)
Sum(f(_), S) == MapThenSumSet(f, S)

Gauntlet(rules, fixtures, golden) ==
    LET expected(n) == fixtures[n].expected \cap rules
        detected(n) == fixtures[n].detected \cap rules
        tp == Sum(LAMBDA n : Cardinality(expected(n) \cap detected(n)), DOMAIN fixtures)
        fn == Sum(LAMBDA n : Cardinality(expected(n) \ detected(n)), DOMAIN fixtures)
        fp == Sum(LAMBDA n : Cardinality(detected(n) \ expected(n)), DOMAIN fixtures)
        falseAlarms == Sum(LAMBDA n : Cardinality(golden[n] \cap rules), DOMAIN golden)
        precise == IF tp + fp > 0 THEN 10 * tp >= 9 * (tp + fp) ELSE fn = 0
        recalled == tp + fn > 0 => 100 * tp >= 85 * (tp + fn)
        \* F1 is 2 tp / (2 tp + fp + fn), or 1 where nothing was expected or detected.
        harmonic == IF tp = 0 THEN fp + fn = 0 ELSE 200 * tp >= 87 * (2 * tp + fp + fn)
    IN  [tp |-> tp, fp |-> fp, fn |-> fn,
         passed |-> harmonic /\ precise /\ recalled /\ falseAlarms = 0]

-----------------------------------------------------------------------------
\* Mutant of ByzantineQuorum: a simple majority.
Majority(yes, of) == of > 0 /\ 2 * yes > of

\* compute_byzantine_quorum: 66.7 % of the active anchors.
ByzantineQuorum(yes, of) == of > 0 /\ 1000 * yes >= 667 * of

\* compute_domain_weighted_quorum: 70 % of the weight of those who voted.
WeightedQuorum(votes) ==
    LET all == Sum(LAMBDA n : votes[n].weight, DOMAIN votes)
        yes == Sum(LAMBDA n : votes[n].weight, {n \in DOMAIN votes : votes[n].vote = "APPROVE"})
    IN  all > 0 /\ 10 * yes >= 7 * all

-----------------------------------------------------------------------------
(***************************************************************************)
(* Two quorums of the same anchors have more than a third of them in       *)
(* common: two contents are never both ratified unless more anchors than a *)
(* third have approved both (rfc.py:163-170).                              *)
(***************************************************************************)
QuorumsIntersect ==
    \A b, c \in Ballots :
        (/\ ByzantineQuorum(Cardinality(approvals[b]), Cardinality(Anchors))
         /\ ByzantineQuorum(Cardinality(approvals[c]), Cardinality(Anchors)))
        => 3 * Cardinality(approvals[b] \cap approvals[c]) > Cardinality(Anchors)
================================================================================
