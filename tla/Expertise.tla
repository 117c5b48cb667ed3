------------------------------- MODULE Expertise -------------------------------
(***************************************************************************)
(* The record a node keeps of every peer in every subject, and the         *)
(* authority it gives for it (credence/subjects/expertise.py).  Shares and *)
(* scores are in ten-thousandths, the code's rounding, cut off where the   *)
(* code divides; a deviation from the median is in tenths of a point of    *)
(* suspicion.                                                              *)
(***************************************************************************)
EXTENDS Integers, FiniteSets

CONSTANTS
    Nodes,
    Subjects,
    ParentOf,       \* the parent of a subject with a dot in its name
    Deviations,     \* deviations an evaluation may have
    Quotes,         \* <<grounded, all>> of an evaluation
    Counts,         \* numbers of domains a caller may give, or NotCounted
    Days,           \* days on which something may happen
    MaxEvaluations, MaxSlashes      \* bounds on the records

NotCounted == -1

ASSUME ExpertiseAssumption ==
    /\ Deviations \subseteq Nat /\ Quotes \subseteq Nat \X Nat
    /\ Counts \subseteq Nat \cup {NotCounted}
    /\ MaxEvaluations \in Nat /\ MaxSlashes \in Nat /\ Days \subseteq Nat
    /\ \A s \in DOMAIN ParentOf : ParentOf[s] \in Subjects

VARIABLES
    metrics,        \* the DomainMetric of a node in a subject, or NoRecord
    today           \* the day
expertiseVars == <<metrics, today>>

Unit == 10000
Floor == 500
NoRecord == [evaluations |-> 0]

ExpertiseInit ==
    /\ metrics = [n \in Nodes |-> [s \in Subjects |-> NoRecord]]
    /\ today = 0

-----------------------------------------------------------------------------
Lesser(a, b) == IF a < b THEN a ELSE b
Greater(a, b) == IF a > b THEN a ELSE b

Grounding(r) == Lesser(Unit, (r.grounded * Unit) \div Greater(1, r.quotes))

\* 1 less a 25th for every point of mean deviation.
RawConcordance(r) == Greater(0, Unit - (r.deviations * Unit) \div (250 * r.evaluations))

\* Mutant of Concordance: only a minority with few quotes is protected.
ConcordanceOfFew(r) ==
    IF Grounding(r) >= 8500 /\ r.grounded <= 5
    THEN Greater(RawConcordance(r), (70 * Grounding(r)) \div 100)
    ELSE RawConcordance(r)

\* The Galileo rule: who cites what is there is not worth less for being alone.
Concordance(r) ==
    IF Grounding(r) >= 8500 /\ r.grounded >= 5
    THEN Greater(RawConcordance(r), (70 * Grounding(r)) \div 100)
    ELSE RawConcordance(r)

\* Full at 25 evaluations over five domains.
Volume(r) == Lesser(25, r.evaluations) * Lesser(5, Greater(1, r.domains)) * (Unit \div 125)

\* Full after thirty days, a tenth at least.
Longevity(r) == (Lesser(30, Greater(3, r.last - r.first)) * Unit) \div 30

Halved == <<1, 2, 4, 8, 16, 32>>

\* compute_subject_expertise
SubjectExpertise(r) ==
    LET raw == (40 * Concordance(r) + 35 * Grounding(r) + 15 * Volume(r) + 10 * Longevity(r)) \div 100
    IN  Lesser(Unit, Greater(Floor, raw \div Halved[1 + Lesser(5, r.slashes)]))

Scored(r) == [r EXCEPT !.expertise = SubjectExpertise(r)]

\* Any name of a domain counts as one more, up to five; a count given is taken.
Domains(was, named, count) ==
    IF count # NotCounted THEN count
    ELSE IF named /\ was < 5 THEN was + 1 ELSE was

\* Mutant of Evaluated: a slash is forgotten with the next evaluation.
EvaluatedAnew(r, deviation, quotes, named, count) ==
    IF r = NoRecord
    THEN Scored([evaluations |-> 1, deviations |-> deviation, grounded |-> quotes[1],
                 quotes |-> quotes[2], domains |-> Domains(1, FALSE, count), slashes |-> 0,
                 first |-> today, last |-> today, expertise |-> 0])
    ELSE [Scored([r EXCEPT !.evaluations = @ + 1, !.deviations = @ + deviation,
                           !.grounded = @ + quotes[1], !.quotes = @ + quotes[2],
                           !.domains = Domains(@, named, count), !.last = today, !.slashes = 0])
            EXCEPT !.slashes = r.slashes]

\* record_domain_evaluation: a first evaluation counts one domain, named or not.
Evaluated(r, deviation, quotes, named, count) ==
    IF r = NoRecord
    THEN Scored([evaluations |-> 1, deviations |-> deviation, grounded |-> quotes[1],
                 quotes |-> quotes[2], domains |-> Domains(1, FALSE, count), slashes |-> 0,
                 first |-> today, last |-> today, expertise |-> 0])
    ELSE Scored([r EXCEPT !.evaluations = @ + 1, !.deviations = @ + deviation,
                          !.grounded = @ + quotes[1], !.quotes = @ + quotes[2],
                          !.domains = Domains(@, named, count), !.last = today])

Evaluate(n, s) ==
    /\ metrics[n][s].evaluations < MaxEvaluations
    /\ \E deviation \in Deviations, quotes \in Quotes, named \in BOOLEAN, count \in Counts :
         metrics' = [metrics EXCEPT ![n][s] = Evaluated(@, deviation, quotes, named, count)]
    /\ UNCHANGED today

Reduced(r) == Scored([r EXCEPT !.slashes = @ + 1])

\* slash_domain_expertise: nothing, where the subject has no record of its own.
Slash(n, s) ==
    /\ metrics[n][s] # NoRecord => metrics[n][s].slashes < MaxSlashes
    /\ metrics' = IF metrics[n][s] = NoRecord THEN metrics
                  ELSE [metrics EXCEPT ![n][s] = Reduced(@)]
    /\ UNCHANGED today

Later ==
    /\ \E d \in Days : d > today /\ today' = d
    /\ UNCHANGED metrics

ExpertiseNext ==
    \/ \E n \in Nodes, s \in Subjects : Evaluate(n, s) \/ Slash(n, s)
    \/ Later

ExpertiseSpec == ExpertiseInit /\ [][ExpertiseNext]_expertiseVars

-----------------------------------------------------------------------------
\* get_node_subject_expertise: what the parent's record gives, less 15 %, in its place.
Authority(m, n, s) ==
    IF m[n][s] # NoRecord THEN m[n][s].expertise
    ELSE IF s \in DOMAIN ParentOf /\ m[n][ParentOf[s]] # NoRecord
    THEN Greater(Floor, (m[n][ParentOf[s]].expertise * 85) \div 100)
    ELSE Floor

\* compute_effective_weight
EffectiveWeight(quality, expertise) ==
    Lesser(Unit, Greater(100, (20 * quality + 80 * expertise) \div 100))

-----------------------------------------------------------------------------
Records == {metrics[n][s] : n \in Nodes, s \in Subjects} \ {NoRecord}

(***************************************************************************)
(* A slash is never worked off: after k of them no further evaluations,    *)
(* days or domains bring the expertise above the 2^k-th part, five of them *)
(* leaving a 32nd, nor anything below the floor (expertise.py:78-81).      *)
(***************************************************************************)
SlashingLasts ==
    \A r \in Records : /\ r.expertise >= Floor
                       /\ r.expertise <= Greater(Floor, Unit \div Halved[1 + Lesser(5, r.slashes)])

(***************************************************************************)
(* An evaluation that agrees with the median and cites only what is there  *)
(* never costs expertise, on whatever record it comes                      *)
(* (expertise.py:47-76).                                                   *)
(***************************************************************************)
AgreementNeverCosts ==
    [][\A n \in Nodes, s \in Subjects :
         LET was == metrics[n][s]
             is == metrics'[n][s]
         IN  (/\ was # NoRecord
              /\ is.evaluations > was.evaluations /\ is.deviations = was.deviations
              /\ is.grounded - was.grounded = is.quotes - was.quotes
              /\ is.domains >= was.domains)
             => is.expertise >= was.expertise]_expertiseVars

(***************************************************************************)
(* What the code does not keep.  Authority takes volume over domains       *)
(* ("Requires >= 25 evaluations across >= 5 distinct domains (Anti-Sybil)",*)
(* expertise.py:63): one evaluation in agreement is enough.                *)
(***************************************************************************)
AuthorityTakesVolume ==
    \A r \in Records : r.expertise >= 7000 => r.evaluations >= 25 /\ r.domains >= 5

(***************************************************************************)
(* Whatever authority a node has in a subject, a slash can take half of it *)
(* ("Slash domain expertise by 50%", expertise.py:186): what is held       *)
(* through the parent subject has no record to be slashed.                 *)
(***************************************************************************)
AuthorityCanBeSlashed ==
    \A n \in Nodes, s \in Subjects :
        Authority(metrics, n, s) > Floor => metrics[n][s] # NoRecord
================================================================================
