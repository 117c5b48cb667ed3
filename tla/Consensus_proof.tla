----------------------------- MODULE Consensus_proof -----------------------------
(***************************************************************************)
(* What the mesh promises, proved for all nodes, subjects, findings, rows, *)
(* anchors and links: Expertise, Consensus, Merit, Ratification, MeshRelay. *)
(*                                                                         *)
(* Expertise.  A record carries its expertise, written when it was scored. *)
(* The invariant says that every record has the shape of one that was      *)
(* scored and is under the ceiling of its slashes; the four shares of the  *)
(* score never pass one (ShareBounds), and none falls with an evaluation   *)
(* in agreement (AgreementGrows).                                          *)
(*                                                                         *)
(* Consensus.  The invariant says of what attestations are made; what is   *)
(* promised of them is what a weighted median does.  Weights are sums over *)
(* sets, so their additivity comes first (WeightAdds), by induction on     *)
(* finite sets; then the median is the least score that reaches half of    *)
(* the weight (MedianIsLeast) and lies in the range of whoever holds more  *)
(* than half (MedianInRange), before and after outliers are taken away.    *)
(*                                                                         *)
(* MeshRelay.  An envelope promises the walks it may still take.  What a   *)
(* node has accepted of an attestation, what the envelopes on their way    *)
(* promise it, and what an announcement that is yet to be made may bring,  *)
(* are together never more than the walks from the origin (Conserved):     *)
(* the promise of an envelope that is accepted pays for the acceptance and *)
(* for what is sent on, and whatever is lost only lowers the sum.          *)
(***************************************************************************)
EXTENDS Consensus, Merit, Ratification, MeshRelay, FiniteSetTheorems, WellFoundedInduction, TLAPS

\* A record as one that was evaluated at least once.
EvaluatedRecord ==
    [evaluations : Nat \ {0}, deviations : Nat, grounded : Nat, quotes : Nat, domains : Nat,
     slashes : Nat, first : Nat, last : Nat, expertise : Int]

Ceiling(k) == Greater(Floor, Unit \div Halved[1 + Lesser(5, k)])

Slashed(r) == r.expertise >= Floor /\ r.expertise <= Ceiling(r.slashes)

TypeOK ==
    /\ today \in Nat
    /\ metrics \in [Nodes -> [Subjects -> EvaluatedRecord \cup {NoRecord}]]

Bounded == \A n \in Nodes, s \in Subjects : metrics[n][s] # NoRecord => Slashed(metrics[n][s])

IInv == TypeOK /\ Bounded

-----------------------------------------------------------------------------
\* Dividing by a positive number keeps the order, and never makes more.
LEMMA QuotientBound ==
    ASSUME NEW a \in Int, NEW b \in Int, NEW c \in {1, 2, 4, 8, 16, 32}, a <= b
    PROVE  a \div c <= b \div c /\ a \div c \in Int
<1>1. CASE c = 1
  BY <1>1
<1>2. CASE c = 2
  BY <1>2
<1>3. CASE c = 4
  BY <1>3
<1>4. CASE c = 8
  BY <1>4
<1>5. CASE c = 16
  BY <1>5
<1>6. CASE c = 32
  BY <1>6
<1> QED BY <1>1, <1>2, <1>3, <1>4, <1>5, <1>6

\* Dividing a natural number leaves one.
LEMMA QuotientNat ==
    ASSUME NEW a \in Nat, NEW b \in Nat, b > 0
    PROVE  a \div b \in Nat
OBVIOUS

\* 25 evaluations and five domains make 125 at most.
LEMMA VolumeProduct ==
    ASSUME NEW e \in Int, NEW d \in Int, e >= 0, e <= 25, d >= 1, d <= 5
    PROVE  e * d \in Int /\ e * d >= 0 /\ e * d <= 125
<1>0. d \in {1, 2, 3, 4, 5}
  OBVIOUS
<1>1. CASE d = 1
  BY <1>1
<1>2. CASE d = 2
  BY <1>2
<1>3. CASE d = 3
  BY <1>3
<1>4. CASE d = 4
  BY <1>4
<1>5. CASE d = 5
  BY <1>5
<1> QED BY <1>0, <1>1, <1>2, <1>3, <1>4, <1>5

\* A record is divided by a power of two, the 32nd part being the least.
LEMMA HalvedValue ==
    ASSUME NEW k \in Nat
    PROVE  Halved[1 + Lesser(5, k)] \in {1, 2, 4, 8, 16, 32}
<1>1. Lesser(5, k) \in 0..5
  BY DEF Lesser
<1> QED BY <1>1 DEF Halved

\* Shares of u weighed in hundredths are a share of u.
LEMMA WeightedShare ==
    ASSUME NEW u \in Int, NEW a \in Int, NEW b \in Int, NEW c \in Int, NEW d \in Int,
           a <= u, b <= u, c <= u, d <= u
    PROVE  /\ (40 * a + 35 * b + 15 * c + 10 * d) \div 100 \in Int
           /\ (40 * a + 35 * b + 15 * c + 10 * d) \div 100 <= u
<1>1. 40 * a + 35 * b + 15 * c + 10 * d <= 100 * u
  OBVIOUS
<1> DEFINE sum == 40 * a + 35 * b + 15 * c + 10 * d
<1>2. sum \in Int /\ sum <= 100 * u
  BY <1>1
<1> HIDE DEF sum
<1>3. sum \div 100 \in Int /\ sum \div 100 <= u
  BY <1>2
<1> QED BY <1>3 DEF sum

\* A number up to thirty, and one up to u, as shares of u.
LEMMA ShareOf ==
    ASSUME NEW u \in Nat, NEW n \in Nat
    PROVE  /\ n <= 30 => (n * u) \div 30 \in Int /\ (n * u) \div 30 >= 0 /\ (n * u) \div 30 <= u
           /\ n <= u => (70 * n) \div 100 \in Int /\ (70 * n) \div 100 >= 0 /\ (70 * n) \div 100 <= u
<1>1. ASSUME n <= 30
      PROVE  (n * u) \div 30 \in Int /\ (n * u) \div 30 >= 0 /\ (n * u) \div 30 <= u
  <2>1. n * u \in Int /\ n * u >= 0 /\ n * u <= 30 * u
    BY <1>1
  <2> DEFINE m == n * u
  <2>2. m \in Int /\ m >= 0 /\ m <= 30 * u
    BY <2>1
  <2> HIDE DEF m
  <2>3. m \div 30 \in Int /\ m \div 30 >= 0 /\ m \div 30 <= u
    BY <2>2
  <2> QED BY <2>3 DEF m
<1>2. ASSUME n <= u
      PROVE  (70 * n) \div 100 \in Int /\ (70 * n) \div 100 >= 0 /\ (70 * n) \div 100 <= u
  BY <1>2
<1> QED BY <1>1, <1>2

\* No share of the score passes one, whatever the record.
UnitShare(n) == n \in Int /\ n >= 0 /\ n <= Unit

\* Concordance before the Galileo rule is a share.
LEMMA RawShare ==
    ASSUME NEW r \in EvaluatedRecord
    PROVE  UnitShare(RawConcordance(r))
<1>1. r.evaluations \in Nat /\ r.evaluations > 0 /\ r.deviations \in Nat /\ Unit \in Nat
  BY DEF EvaluatedRecord, Unit
<1>2. r.deviations * Unit \in Nat /\ 250 * r.evaluations \in Nat /\ 250 * r.evaluations > 0
  BY <1>1
<1>3. (r.deviations * Unit) \div (250 * r.evaluations) \in Nat
  BY <1>2, QuotientNat
<1> QED BY <1>1, <1>3 DEF RawConcordance, Greater, UnitShare

LEMMA ShareBounds ==
    ASSUME NEW r \in EvaluatedRecord
    PROVE  UnitShare(Grounding(r)) /\ UnitShare(Concordance(r)) /\ UnitShare(Volume(r)) /\ UnitShare(Longevity(r))
<1>0. /\ r.evaluations \in Nat /\ r.evaluations > 0 /\ r.deviations \in Nat /\ r.grounded \in Nat
      /\ r.quotes \in Nat /\ r.domains \in Nat /\ r.first \in Nat /\ r.last \in Nat
  BY DEF EvaluatedRecord
<1>u. Unit \in Nat /\ Unit \div 125 = 80 /\ Unit = 125 * 80
  BY DEF Unit
<1>1. UnitShare(Grounding(r))
  <2>1. Greater(1, r.quotes) \in Nat /\ Greater(1, r.quotes) > 0 /\ r.grounded * Unit \in Nat
    BY <1>0, <1>u DEF Greater
  <2>2. (r.grounded * Unit) \div Greater(1, r.quotes) \in Nat
    BY <2>1, QuotientNat
  <2> QED BY <1>u, <2>2 DEF Grounding, Lesser, UnitShare
<1>2. UnitShare(RawConcordance(r))
  BY RawShare
<1>3. UnitShare(Concordance(r))
  <2>1. UnitShare((70 * Grounding(r)) \div 100)
    BY <1>1, <1>u, ShareOf DEF UnitShare
  <2> QED BY <1>2, <2>1 DEF Concordance, Greater, UnitShare
<1>4. UnitShare(Volume(r))
  <2> DEFINE e == Lesser(25, r.evaluations)
             d == Lesser(5, Greater(1, r.domains))
  <2>1. e \in Int /\ e >= 0 /\ e <= 25 /\ d \in Int /\ d >= 1 /\ d <= 5
    BY <1>0 DEF Lesser, Greater
  <2>2. Volume(r) = e * d * 80
    BY <1>u DEF Volume
  <2> HIDE DEF e, d
  <2> DEFINE p == e * d
  <2>3. p \in Int /\ p >= 0 /\ p <= 125
    BY <2>1, VolumeProduct
  <2> HIDE DEF p
  <2>4. p * 80 \in Int /\ p * 80 >= 0 /\ p * 80 <= 125 * 80
    BY <2>3
  <2> QED BY <1>u, <2>2, <2>4 DEF UnitShare, p
<1>5. UnitShare(Longevity(r))
  <2> DEFINE d == Lesser(30, Greater(3, r.last - r.first))
  <2>1. d \in Nat /\ d <= 30
    BY <1>0 DEF Lesser, Greater
  <2>2. Longevity(r) = (d * Unit) \div 30
    BY DEF Longevity
  <2> HIDE DEF d
  <2> QED BY <1>u, <2>1, <2>2, ShareOf DEF UnitShare
<1> QED BY <1>1, <1>3, <1>4, <1>5

\* A record that is scored keeps under the ceiling of its slashes.
LEMMA ScoredBounded ==
    ASSUME NEW r \in EvaluatedRecord
    PROVE  Scored(r) \in EvaluatedRecord /\ Slashed(Scored(r))
<1> DEFINE raw == (40 * Concordance(r) + 35 * Grounding(r) + 15 * Volume(r) + 10 * Longevity(r)) \div 100
           half == Halved[1 + Lesser(5, r.slashes)]
<1>1. raw \in Int /\ raw <= Unit
  <2>1. Unit \in Int
    BY DEF Unit
  <2> QED BY <2>1, ShareBounds, WeightedShare DEF UnitShare
<1>2. r.slashes \in Nat
  BY DEF EvaluatedRecord
<1>3. half \in {1, 2, 4, 8, 16, 32}
  BY <1>2, HalvedValue
<1>4. SubjectExpertise(r) = Lesser(Unit, Greater(Floor, raw \div half))
  BY DEF SubjectExpertise
<1> HIDE DEF raw, half
<1>5. raw \div half \in Int /\ raw \div half <= Unit \div half /\ Unit \div half \in Int
  BY <1>1, <1>3, QuotientBound DEF Unit
<1>6. SubjectExpertise(r) \in Int /\ SubjectExpertise(r) >= Floor
      /\ SubjectExpertise(r) <= Greater(Floor, Unit \div half)
  BY <1>4, <1>5 DEF Lesser, Greater, Floor, Unit
<1>7. Scored(r) \in EvaluatedRecord
  BY <1>6 DEF Scored, EvaluatedRecord
<1>8. Scored(r).expertise = SubjectExpertise(r) /\ Scored(r).slashes = r.slashes
  BY DEF Scored, EvaluatedRecord
<1> QED BY <1>6, <1>7, <1>8 DEF Slashed, Ceiling, half

-----------------------------------------------------------------------------
\* What a step writes into a record is a record that was scored.
LEMMA EvaluatedBounded ==
    ASSUME today \in Nat, NEW r \in EvaluatedRecord \cup {NoRecord}, NEW deviation \in Deviations,
           NEW quotes \in Quotes, NEW named \in BOOLEAN, NEW count \in Counts
    PROVE  /\ Evaluated(r, deviation, quotes, named, count) \in EvaluatedRecord
           /\ Slashed(Evaluated(r, deviation, quotes, named, count))
<1>1. deviation \in Nat /\ quotes[1] \in Nat /\ quotes[2] \in Nat
  BY ExpertiseAssumption
<1>2. count \in Nat \cup {NotCounted}
  BY ExpertiseAssumption
<1>3. \A was \in Nat, n \in BOOLEAN : Domains(was, n, count) \in Nat
  BY <1>2 DEF Domains, NotCounted
<1>4. CASE r = NoRecord
  <2> DEFINE f == [evaluations |-> 1, deviations |-> deviation, grounded |-> quotes[1],
                   quotes |-> quotes[2], domains |-> Domains(1, FALSE, count), slashes |-> 0,
                   first |-> today, last |-> today, expertise |-> 0]
  <2>1. Domains(1, FALSE, count) \in Nat
    BY <1>3
  <2>2. f \in EvaluatedRecord
    <3>1. 1 \in Nat \ {0} /\ 0 \in Nat /\ 0 \in Int /\ today \in Nat
      OBVIOUS
    <3> HIDE DEF Domains
    <3> QED BY <1>1, <2>1, <3>1 DEF EvaluatedRecord
  <2>3. Evaluated(r, deviation, quotes, named, count) = Scored(f)
    BY <1>4 DEF Evaluated
  <2> HIDE DEF f
  <2> QED BY <2>2, <2>3, ScoredBounded
<1>5. CASE r # NoRecord
  <2> DEFINE f == [r EXCEPT !.evaluations = @ + 1, !.deviations = @ + deviation,
                            !.grounded = @ + quotes[1], !.quotes = @ + quotes[2],
                            !.domains = Domains(@, named, count), !.last = today]
  <2>1. r \in EvaluatedRecord
    BY <1>5
  <2>2. /\ r.evaluations + 1 \in Nat \ {0} /\ r.deviations + deviation \in Nat
        /\ r.grounded + quotes[1] \in Nat /\ r.quotes + quotes[2] \in Nat
    BY <1>1, <2>1 DEF EvaluatedRecord
  <2>3. Domains(r.domains, named, count) \in Nat
    <3>1. r.domains \in Nat
      BY <2>1 DEF EvaluatedRecord
    <3> QED BY <1>3, <3>1
  <2>4. f \in EvaluatedRecord
    BY <2>1, <2>2, <2>3 DEF EvaluatedRecord
  <2>5. Evaluated(r, deviation, quotes, named, count) = Scored(f)
    BY <1>5 DEF Evaluated
  <2> HIDE DEF f
  <2> QED BY <2>4, <2>5, ScoredBounded
<1> QED BY <1>4, <1>5

\* A slash leaves a record that was scored.
LEMMA SlashBounded ==
    ASSUME NEW r \in EvaluatedRecord
    PROVE  Reduced(r) \in EvaluatedRecord /\ Slashed(Reduced(r))
<1>1. r.slashes + 1 \in Nat
  BY DEF EvaluatedRecord
<1>2. [r EXCEPT !.slashes = @ + 1] \in EvaluatedRecord
  BY <1>1 DEF EvaluatedRecord
<1> QED BY <1>2, ScoredBounded DEF Reduced

-----------------------------------------------------------------------------
\* An evaluation keeps every record bounded.
LEMMA EvaluateKeeps ==
    ASSUME IInv, NEW n \in Nodes, NEW s \in Subjects, Evaluate(n, s)
    PROVE  IInv'
<1>1. PICK deviation \in Deviations, quotes \in Quotes, named \in BOOLEAN, count \in Counts :
        metrics' = [metrics EXCEPT ![n][s] = Evaluated(@, deviation, quotes, named, count)]
  BY DEF Evaluate
<1>2. today' = today /\ today \in Nat
  BY DEF Evaluate, IInv, TypeOK
<1> DEFINE e == Evaluated(metrics[n][s], deviation, quotes, named, count)
<1>3. metrics[n][s] \in EvaluatedRecord \cup {NoRecord}
  BY DEF IInv, TypeOK
<1>4. e \in EvaluatedRecord /\ Slashed(e)
  BY <1>2, <1>3, EvaluatedBounded
<1>5. metrics' = [metrics EXCEPT ![n] = [metrics[n] EXCEPT ![s] = e]]
  BY <1>1 DEF IInv, TypeOK
<1> HIDE DEF e
<1>6. TypeOK'
  BY <1>2, <1>4, <1>5 DEF IInv, TypeOK
<1>7. Bounded'
  <2> SUFFICES ASSUME NEW m \in Nodes, NEW t \in Subjects, metrics'[m][t] # NoRecord
               PROVE  Slashed(metrics'[m][t])
    BY DEF Bounded, Slashed, Ceiling
  <2>1. metrics'[m][t] = IF m = n /\ t = s THEN e ELSE metrics[m][t]
    BY <1>5 DEF IInv, TypeOK
  <2> QED BY <1>4, <2>1 DEF IInv, Bounded
<1> QED BY <1>6, <1>7 DEF IInv

\* A slash keeps every record bounded, and does nothing where there is none.
LEMMA SlashKeeps ==
    ASSUME IInv, NEW n \in Nodes, NEW s \in Subjects, Slash(n, s)
    PROVE  IInv'
<1>1. today' = today
  BY DEF Slash
<1>2. CASE metrics[n][s] = NoRecord
  <2>1. metrics' = metrics
    BY <1>2 DEF Slash
  <2> QED BY <1>1, <2>1 DEF IInv, TypeOK, Bounded
<1>3. CASE metrics[n][s] # NoRecord
  <2> DEFINE e == Reduced(metrics[n][s])
  <2>1. metrics[n][s] \in EvaluatedRecord
    BY <1>3 DEF IInv, TypeOK
  <2>2. e \in EvaluatedRecord /\ Slashed(e)
    BY <2>1, SlashBounded
  <2>3. metrics' = [metrics EXCEPT ![n] = [metrics[n] EXCEPT ![s] = e]]
    <3>1. metrics' = [metrics EXCEPT ![n][s] = e]
      BY <1>3 DEF Slash
    <3> HIDE DEF e
    <3> QED BY <3>1 DEF IInv, TypeOK
  <2> HIDE DEF e
  <2>4. TypeOK'
    BY <1>1, <2>2, <2>3 DEF IInv, TypeOK
  <2>5. Bounded'
    <3> SUFFICES ASSUME NEW m \in Nodes, NEW t \in Subjects, metrics'[m][t] # NoRecord
                 PROVE  Slashed(metrics'[m][t])
      BY DEF Bounded, Slashed, Ceiling
    <3>1. metrics'[m][t] = IF m = n /\ t = s THEN e ELSE metrics[m][t]
      BY <2>3 DEF IInv, TypeOK
    <3> QED BY <2>2, <3>1 DEF IInv, Bounded
  <2> QED BY <2>4, <2>5 DEF IInv
<1> QED BY <1>2, <1>3

\* Without records the invariant holds.
LEMMA RecordsStart == ExpertiseInit => IInv
  BY DEF ExpertiseInit, IInv, TypeOK, Bounded

\* Every step on the records keeps the invariant.
LEMMA RecordsKept == IInv /\ [ExpertiseNext]_expertiseVars => IInv'
<1> SUFFICES ASSUME IInv, [ExpertiseNext]_expertiseVars
             PROVE  IInv'
  OBVIOUS
<1>1. ASSUME NEW n \in Nodes, NEW s \in Subjects, Evaluate(n, s)
      PROVE  IInv'
  BY <1>1, EvaluateKeeps
<1>2. ASSUME NEW n \in Nodes, NEW s \in Subjects, Slash(n, s)
      PROVE  IInv'
  BY <1>2, SlashKeeps
<1>3. CASE Later
  <2>1. metrics' = metrics /\ today' \in Nat
    BY <1>3, ExpertiseAssumption DEF Later
  <2> QED BY <2>1 DEF IInv, TypeOK, Bounded
<1>4. CASE UNCHANGED expertiseVars
  BY <1>4 DEF expertiseVars, IInv, TypeOK, Bounded
<1> QED BY <1>1, <1>2, <1>3, <1>4 DEF ExpertiseNext

\* Every record is one that was scored, under the ceiling of its slashes.
THEOREM RecordsBounded == ExpertiseSpec => []IInv
  BY RecordsStart, RecordsKept, PTL DEF ExpertiseSpec

\* A slash is never worked off: whatever a node does and however long it waits, k slashes
\* leave it at most the 2^k-th part of the authority (expertise.py:78-81).
THEOREM SlashingAlwaysLasts == ExpertiseSpec => []SlashingLasts
<1>1. IInv => SlashingLasts
  BY DEF IInv, Bounded, SlashingLasts, Records, Slashed, Ceiling
<1> QED BY <1>1, RecordsBounded, PTL

\* A quotient is the greatest number whose multiple fits, so it is compared by products.
LEMMA QuotientIs ==
    ASSUME NEW a \in Nat, NEW b \in Nat, b > 0
    PROVE  /\ a \div b \in Nat /\ (a \div b) * b <= a
           /\ \A q \in Nat : q * b <= a => q <= a \div b
<1> DEFINE d == a \div b
<1>1. d \in Nat /\ d * b <= a /\ a < d * b + b
  OBVIOUS
<1> HIDE DEF d
<1>2. ASSUME NEW q \in Nat, q * b <= a, ~(q <= d) PROVE FALSE
  <2>1. q >= d + 1
    BY <1>1, <1>2
  <2>2. q * b >= (d + 1) * b
    BY <1>1, <2>1
  <2>3. (d + 1) * b = d * b + b
    BY <1>1
  <2>4. q * b \in Nat /\ d * b \in Nat
    BY <1>1
  <2> QED BY <1>1, <1>2, <2>2, <2>3, <2>4
<1> QED BY <1>1, <1>2 DEF d

\* More to be divided among fewer is more for each.
LEMMA QuotientOrder ==
    ASSUME NEW a \in Nat, NEW b \in Nat, NEW c \in Nat, NEW d \in Nat, b > 0, d > 0, a <= c, d <= b
    PROVE  a \div b <= c \div d
<1> DEFINE q == a \div b
<1>1. q \in Nat /\ q * b <= a
  BY QuotientIs
<1> HIDE DEF q
<1>2. q * d <= q * b /\ q * d \in Nat /\ q * b \in Nat
  BY <1>1
<1>3. q * d <= c
  BY <1>1, <1>2
<1>4. q <= c \div d
  BY <1>1, <1>3, QuotientIs
<1> QED BY <1>4 DEF q

\* What is added in full makes no share of a whole less.
LEMMA ShareGrows ==
    ASSUME NEW u \in Nat, NEW g \in Nat, NEW q \in Nat, NEW k \in Nat
    PROVE  Lesser(u, (g * u) \div Greater(1, q)) <= Lesser(u, ((g + k) * u) \div Greater(1, q + k))
<1> DEFINE was == (g * u) \div Greater(1, q)
           is == ((g + k) * u) \div Greater(1, q + k)
           b == Greater(1, q)
           d == Greater(1, q + k)
           x == Lesser(u, was)
<1>1. b \in Nat /\ b > 0 /\ d \in Nat /\ d > 0 /\ d <= b + k
  BY DEF Greater
<1>2. g * u \in Nat /\ (g + k) * u \in Nat /\ (g + k) * u = g * u + k * u /\ k * u \in Nat
  OBVIOUS
<1>3. was \in Nat /\ was * b <= g * u
  <2> PICK n : n = g * u
    OBVIOUS
  <2> HIDE DEF b
  <2>1. n \in Nat /\ was = n \div b
    BY <1>2 DEF b
  <2>2. (n \div b) \in Nat /\ (n \div b) * b <= n
    BY <1>1, <2>1, QuotientIs
  <2> QED BY <2>1, <2>2
<1> HIDE DEF was, b, d
<1>4. x \in Nat /\ x <= u /\ x <= was
  BY <1>3 DEF Lesser
<1> HIDE DEF x
<1>5. x * b <= was * b /\ x * k <= u * k /\ u * k = k * u /\ x * d <= x * (b + k) /\ x * (b + k) = x * b + x * k
  BY <1>1, <1>3, <1>4
<1>6. x * d <= (g + k) * u
  <2>1. x * b \in Nat /\ x * k \in Nat /\ was * b \in Nat /\ x * d \in Nat
    BY <1>1, <1>3, <1>4
  <2> QED BY <1>2, <1>3, <1>5, <2>1
<1>7. is \in Nat /\ x <= is
  <2> PICK n : n = (g + k) * u
    OBVIOUS
  <2>1. n \in Nat /\ is = n \div d /\ x * d <= n
    BY <1>2, <1>6 DEF d
  <2>2. n \div d \in Nat /\ x <= n \div d
    BY <1>1, <1>4, <2>1, QuotientIs
  <2> QED BY <2>1, <2>2
<1> HIDE DEF is
<1>8. x <= Lesser(u, is)
  BY <1>4, <1>7 DEF Lesser
<1> QED BY <1>8 DEF x, was, is, b, d

\* One more evaluation in agreement, all of whose quotes are found, lowers no share of the score.
LEMMA AgreementGrows ==
    ASSUME NEW r \in EvaluatedRecord, NEW f \in EvaluatedRecord, NEW k \in Nat,
           f.evaluations = r.evaluations + 1, f.deviations = r.deviations,
           f.grounded = r.grounded + k, f.quotes = r.quotes + k, f.domains >= r.domains,
           f.slashes = r.slashes, f.first = r.first, f.last >= r.last
    PROVE  SubjectExpertise(r) <= SubjectExpertise(f)
<1>0. /\ r.evaluations \in Nat /\ r.evaluations > 0 /\ r.deviations \in Nat /\ r.grounded \in Nat
      /\ r.quotes \in Nat /\ r.domains \in Nat /\ r.first \in Nat /\ r.last \in Nat /\ r.slashes \in Nat
      /\ f.domains \in Nat /\ f.last \in Nat
  BY DEF EvaluatedRecord
<1>u. Unit \in Nat /\ Unit \div 125 = 80
  BY DEF Unit
<1>1. Grounding(r) <= Grounding(f)
  <2>1. Grounding(f) = Lesser(Unit, ((r.grounded + k) * Unit) \div Greater(1, r.quotes + k))
    BY DEF Grounding
  <2>2. Grounding(r) = Lesser(Unit, (r.grounded * Unit) \div Greater(1, r.quotes))
    BY DEF Grounding
  <2>3. \A u, g, q, j \in Nat :
          Lesser(u, (g * u) \div Greater(1, q)) <= Lesser(u, ((g + j) * u) \div Greater(1, q + j))
    BY ShareGrows
  <2>4. Lesser(Unit, (r.grounded * Unit) \div Greater(1, r.quotes))
          <= Lesser(Unit, ((r.grounded + k) * Unit) \div Greater(1, r.quotes + k))
    BY <1>0, <1>u, <2>3, Zenon
  <2> QED BY <2>1, <2>2, <2>4
<1>2. RawConcordance(r) <= RawConcordance(f)
  <2> PICK n : n = r.deviations * Unit
    OBVIOUS
  <2> PICK b, d : b = 250 * r.evaluations /\ d = 250 * (r.evaluations + 1)
    OBVIOUS
  <2>1. n \in Nat /\ b \in Nat /\ d \in Nat /\ b > 0 /\ d > 0 /\ b <= d
    BY <1>0, <1>u
  <2>2. n \div d <= n \div b
    <3>1. n <= n
      BY <2>1
    <3> QED BY <2>1, <3>1, QuotientOrder
  <2>4. n \div d \in Nat /\ n \div b \in Nat
    BY <2>1, QuotientIs
  <2>3. RawConcordance(r) = Greater(0, Unit - n \div b) /\ RawConcordance(f) = Greater(0, Unit - n \div d)
    BY DEF RawConcordance
  <2> QED BY <1>u, <2>2, <2>3, <2>4 DEF Greater
<1>3. Concordance(r) <= Concordance(f)
  <2>1. /\ UnitShare(Grounding(r)) /\ UnitShare(Grounding(f))
        /\ UnitShare(RawConcordance(r)) /\ UnitShare(RawConcordance(f))
    BY ShareBounds, RawShare
  <2>2. /\ (70 * Grounding(r)) \div 100 \in Int /\ (70 * Grounding(f)) \div 100 \in Int
        /\ (70 * Grounding(r)) \div 100 <= (70 * Grounding(f)) \div 100
    BY <1>1, <2>1 DEF UnitShare
  <2>3. r.grounded <= f.grounded /\ f.grounded \in Nat
    BY <1>0
  <2> QED BY <1>0, <1>1, <1>2, <2>1, <2>2, <2>3 DEF Concordance, Greater, UnitShare
<1>4. Volume(r) <= Volume(f)
  <2> PICK a, b, c, d : /\ a = Lesser(25, r.evaluations) /\ b = Lesser(5, Greater(1, r.domains))
                        /\ c = Lesser(25, f.evaluations) /\ d = Lesser(5, Greater(1, f.domains))
    OBVIOUS
  <2>1. /\ a \in Nat /\ c \in Nat /\ a <= c
        /\ b \in Nat /\ d \in Nat /\ b <= d
    BY <1>0 DEF Lesser, Greater
  <2>2. a * b <= c * b /\ c * b <= c * d /\ a * b \in Nat /\ c * b \in Nat /\ c * d \in Nat
    BY <2>1
  <2>3. Volume(r) = a * b * 80 /\ Volume(f) = c * d * 80
    BY <1>u DEF Volume
  <2> PICK x, y : x = a * b /\ y = c * d
    OBVIOUS
  <2>4. x * 80 <= y * 80
    BY <2>2
  <2> QED BY <2>3, <2>4
<1>5. Longevity(r) <= Longevity(f)
  <2> PICK a, b : a = Lesser(30, Greater(3, r.last - r.first)) /\ b = Lesser(30, Greater(3, f.last - f.first))
    OBVIOUS
  <2>1. a \in Nat /\ b \in Nat /\ a <= b
    BY <1>0 DEF Lesser, Greater
  <2> PICK x, y : x = a * Unit /\ y = b * Unit
    OBVIOUS
  <2>2. x \in Nat /\ y \in Nat /\ x <= y
    BY <1>u, <2>1
  <2>3. x \div 30 <= y \div 30
    BY <2>2
  <2> QED BY <2>3 DEF Longevity
<1> DEFINE raw(x) == (40 * Concordance(x) + 35 * Grounding(x) + 15 * Volume(x) + 10 * Longevity(x)) \div 100
           half == Halved[1 + Lesser(5, r.slashes)]
<1>6. raw(r) <= raw(f) /\ raw(r) \in Int /\ raw(f) \in Int
  <2>1. /\ UnitShare(Grounding(r)) /\ UnitShare(Concordance(r)) /\ UnitShare(Volume(r)) /\ UnitShare(Longevity(r))
        /\ UnitShare(Grounding(f)) /\ UnitShare(Concordance(f)) /\ UnitShare(Volume(f)) /\ UnitShare(Longevity(f))
    BY ShareBounds
  <2> PICK s, t : /\ s = 40 * Concordance(r) + 35 * Grounding(r) + 15 * Volume(r) + 10 * Longevity(r)
                  /\ t = 40 * Concordance(f) + 35 * Grounding(f) + 15 * Volume(f) + 10 * Longevity(f)
    OBVIOUS
  <2>2. s \in Int /\ t \in Int /\ s <= t
    BY <1>1, <1>3, <1>4, <1>5, <2>1 DEF UnitShare
  <2>3. s \div 100 <= t \div 100 /\ s \div 100 \in Int /\ t \div 100 \in Int
    BY <2>2
  <2> QED BY <2>3
<1>7. half \in {1, 2, 4, 8, 16, 32}
  BY <1>0, HalvedValue
<1>8. /\ SubjectExpertise(r) = Lesser(Unit, Greater(Floor, raw(r) \div half))
      /\ SubjectExpertise(f) = Lesser(Unit, Greater(Floor, raw(f) \div half))
  BY DEF SubjectExpertise
<1> HIDE DEF raw, half
<1>9. raw(r) \div half <= raw(f) \div half /\ raw(r) \div half \in Int /\ raw(f) \div half \in Int
  BY <1>6, <1>7, QuotientBound
<1> QED BY <1>u, <1>8, <1>9 DEF Lesser, Greater, Floor

\* Every record carries the expertise it was scored with, and no date of days to come.
AsScored ==
    \A n \in Nodes, s \in Subjects : metrics[n][s] # NoRecord =>
        metrics[n][s].expertise = SubjectExpertise(metrics[n][s]) /\ metrics[n][s].last <= today

\* The score does not read the expertise it replaces.
LEMMA ScoredOnce ==
    ASSUME NEW r \in EvaluatedRecord
    PROVE  /\ Scored(r).expertise = SubjectExpertise(r) /\ SubjectExpertise(Scored(r)) = SubjectExpertise(r)
           /\ Scored(r).last = r.last
<1> PICK x : x = SubjectExpertise(r)
  OBVIOUS
<1> PICK q : q = [r EXCEPT !.expertise = x]
  OBVIOUS
<1>1. /\ q.evaluations = r.evaluations /\ q.deviations = r.deviations /\ q.grounded = r.grounded
      /\ q.quotes = r.quotes /\ q.domains = r.domains /\ q.slashes = r.slashes
      /\ q.first = r.first /\ q.last = r.last /\ q.expertise = x
  BY DEF EvaluatedRecord
<1>2. Concordance(q) = Concordance(r) /\ Grounding(q) = Grounding(r)
  BY <1>1 DEF Concordance, Grounding, RawConcordance
<1>3. Volume(q) = Volume(r) /\ Longevity(q) = Longevity(r)
  BY <1>1 DEF Volume, Longevity
<1>4. SubjectExpertise(q) = SubjectExpertise(r)
  BY <1>1, <1>2, <1>3 DEF SubjectExpertise
<1> QED BY <1>1, <1>4 DEF Scored

\* A record keeps to what it was scored with, through every step.
LEMMA EvaluatedAsScored ==
    ASSUME today \in Nat, NEW r \in EvaluatedRecord \cup {NoRecord}, NEW deviation \in Deviations,
           NEW quotes \in Quotes, NEW named \in BOOLEAN, NEW count \in Counts, NEW e,
           e = Evaluated(r, deviation, quotes, named, count)
    PROVE  /\ e.expertise = SubjectExpertise(e) /\ e.last = today
           /\ (r # NoRecord /\ e.deviations = r.deviations /\ e.domains >= r.domains
                /\ e.grounded - r.grounded = e.quotes - r.quotes /\ r.last <= today
                /\ r.expertise = SubjectExpertise(r)) => e.expertise >= r.expertise
<1>1. deviation \in Nat /\ quotes[1] \in Nat /\ quotes[2] \in Nat
  BY ExpertiseAssumption
<1>2. count \in Nat \cup {NotCounted}
  BY ExpertiseAssumption
<1>3. \A was \in Nat, n \in BOOLEAN : Domains(was, n, count) \in Nat
  BY <1>2 DEF Domains, NotCounted
<1>4. CASE r = NoRecord
  <2> DEFINE f == [evaluations |-> 1, deviations |-> deviation, grounded |-> quotes[1],
                   quotes |-> quotes[2], domains |-> Domains(1, FALSE, count), slashes |-> 0,
                   first |-> today, last |-> today, expertise |-> 0]
  <2>1. Domains(1, FALSE, count) \in Nat
    BY <1>3
  <2>2. f \in EvaluatedRecord
    <3>1. 1 \in Nat \ {0} /\ 0 \in Nat /\ 0 \in Int /\ today \in Nat
      OBVIOUS
    <3> HIDE DEF Domains
    <3> QED BY <1>1, <2>1, <3>1 DEF EvaluatedRecord
  <2>3. e = Scored(f) /\ f.last = today
    BY <1>4 DEF Evaluated
  <2> HIDE DEF f
  <2> QED BY <1>4, <2>2, <2>3, ScoredOnce
<1>5. CASE r # NoRecord
  <2> DEFINE f == [r EXCEPT !.evaluations = @ + 1, !.deviations = @ + deviation,
                            !.grounded = @ + quotes[1], !.quotes = @ + quotes[2],
                            !.domains = Domains(@, named, count), !.last = today]
  <2>1. r \in EvaluatedRecord
    BY <1>5
  <2>2. /\ r.evaluations + 1 \in Nat \ {0} /\ r.deviations + deviation \in Nat
        /\ r.grounded + quotes[1] \in Nat /\ r.quotes + quotes[2] \in Nat
    BY <1>1, <2>1 DEF EvaluatedRecord
  <2>3. Domains(r.domains, named, count) \in Nat
    <3>1. r.domains \in Nat
      BY <2>1 DEF EvaluatedRecord
    <3> QED BY <1>3, <3>1
  <2>4. /\ f \in EvaluatedRecord
        /\ f.evaluations = r.evaluations + 1 /\ f.deviations = r.deviations + deviation
        /\ f.grounded = r.grounded + quotes[1] /\ f.quotes = r.quotes + quotes[2]
        /\ f.domains = Domains(r.domains, named, count) /\ f.slashes = r.slashes
        /\ f.first = r.first /\ f.last = today
    BY <2>1, <2>2, <2>3 DEF EvaluatedRecord
  <2>5. e = Scored(f)
    BY <1>5 DEF Evaluated
  <2> HIDE DEF f
  <2>6. /\ e.deviations = f.deviations /\ e.domains = f.domains /\ e.grounded = f.grounded
        /\ e.quotes = f.quotes
    BY <2>4, <2>5 DEF Scored, EvaluatedRecord
  <2>7. e.expertise = SubjectExpertise(e) /\ e.expertise = SubjectExpertise(f) /\ e.last = today
    BY <2>4, <2>5, ScoredOnce
  <2>8. ASSUME e.deviations = r.deviations, e.domains >= r.domains,
               e.grounded - r.grounded = e.quotes - r.quotes, r.last <= today
        PROVE  SubjectExpertise(r) <= SubjectExpertise(f)
    <3>1. /\ r.deviations \in Nat /\ r.grounded \in Nat /\ r.quotes \in Nat
      BY <2>1 DEF EvaluatedRecord
    <3>2. quotes[1] = quotes[2] /\ deviation = 0
      BY <1>1, <2>4, <2>6, <2>8, <3>1
    <3>3. f.deviations = r.deviations /\ f.domains >= r.domains /\ f.last >= r.last
      BY <2>1, <2>4, <2>6, <2>8, <3>1, <3>2 DEF EvaluatedRecord
    <3>4. f.quotes = r.quotes + quotes[1]
      BY <2>4, <3>2
    <3> QED BY <1>1, <2>1, <2>4, <3>3, <3>4, AgreementGrows
  <2>9. SubjectExpertise(f) \in Int /\ SubjectExpertise(r) \in Int
    BY <2>1, <2>4, ScoredBounded, ScoredOnce DEF EvaluatedRecord
  <2> QED BY <2>7, <2>8, <2>9
<1> QED BY <1>4, <1>5

AInv == IInv /\ AsScored
Agreed(n, s) ==
    (/\ metrics[n][s] # NoRecord
     /\ metrics'[n][s].evaluations > metrics[n][s].evaluations
     /\ metrics'[n][s].deviations = metrics[n][s].deviations
     /\ metrics'[n][s].grounded - metrics[n][s].grounded = metrics'[n][s].quotes - metrics[n][s].quotes
     /\ metrics'[n][s].domains >= metrics[n][s].domains)
    => metrics'[n][s].expertise >= metrics[n][s].expertise

\* An evaluation writes a record as scored, and lowers none that agrees.
LEMMA EvaluateAgrees ==
    ASSUME AInv, NEW n \in Nodes, NEW s \in Subjects, Evaluate(n, s)
    PROVE  AsScored' /\ \A m \in Nodes, t \in Subjects : Agreed(m, t)
<1>1. PICK deviation \in Deviations, quotes \in Quotes, named \in BOOLEAN, count \in Counts :
        metrics' = [metrics EXCEPT ![n][s] = Evaluated(@, deviation, quotes, named, count)]
  BY DEF Evaluate
<1>2. today' = today /\ today \in Nat
  BY DEF Evaluate, AInv, IInv, TypeOK
<1> PICK r : r = metrics[n][s]
  OBVIOUS
<1> PICK e : e = Evaluated(r, deviation, quotes, named, count)
  OBVIOUS
<1>3. r \in EvaluatedRecord \cup {NoRecord}
  BY DEF AInv, IInv, TypeOK
<1>4. /\ e.expertise = SubjectExpertise(e) /\ e.last = today
      /\ (r # NoRecord /\ e.deviations = r.deviations /\ e.domains >= r.domains
           /\ e.grounded - r.grounded = e.quotes - r.quotes /\ r.last <= today
           /\ r.expertise = SubjectExpertise(r)) => e.expertise >= r.expertise
  BY <1>2, <1>3, EvaluatedAsScored
<1>5. metrics' = [metrics EXCEPT ![n] = [metrics[n] EXCEPT ![s] = e]]
  BY <1>1 DEF AInv, IInv, TypeOK
<1>6. \A m \in Nodes, t \in Subjects :
        metrics'[m][t] = IF m = n /\ t = s THEN e ELSE metrics[m][t]
  BY <1>5 DEF AInv, IInv, TypeOK
<1>7. ASSUME NEW m \in Nodes, NEW t \in Subjects, metrics'[m][t] # NoRecord
      PROVE  /\ metrics'[m][t].expertise = SubjectExpertise(metrics'[m][t])
             /\ metrics'[m][t].last <= today'
  BY <1>2, <1>4, <1>6, <1>7 DEF AInv, AsScored
<1>8. AsScored'
  BY <1>7 DEF AsScored, SubjectExpertise, Concordance, Grounding, RawConcordance, Volume, Longevity
<1>9. ASSUME NEW m \in Nodes, NEW t \in Subjects PROVE Agreed(m, t)
  <2>1. CASE m = n /\ t = s
    BY <1>4, <1>6, <2>1 DEF Agreed, AInv, AsScored
  <2>2. CASE ~(m = n /\ t = s)
    <3>1. metrics'[m][t] = metrics[m][t]
      BY <1>6, <2>2
    <3>2. metrics[m][t] # NoRecord => metrics[m][t].evaluations \in Nat
      BY DEF AInv, IInv, TypeOK, EvaluatedRecord
    <3> QED BY <3>1, <3>2 DEF Agreed
  <2> QED BY <2>1, <2>2
<1> QED BY <1>8, <1>9

\* A slash writes a record as scored, and is no evaluation.
LEMMA SlashAgrees ==
    ASSUME AInv, NEW n \in Nodes, NEW s \in Subjects, Slash(n, s)
    PROVE  AsScored' /\ \A m \in Nodes, t \in Subjects : Agreed(m, t)
<1>1. today' = today
  BY DEF Slash
<1>2. CASE metrics[n][s] = NoRecord
  <2>1. metrics' = metrics
    BY <1>2 DEF Slash
  <2>2. AsScored'
    BY <1>1, <2>1 DEF AInv, AsScored
  <2>3. \A m \in Nodes, t \in Subjects : metrics[m][t] # NoRecord => metrics[m][t].evaluations \in Nat
    BY DEF AInv, IInv, TypeOK, EvaluatedRecord
  <2> QED BY <2>1, <2>2, <2>3 DEF Agreed
<1>3. CASE metrics[n][s] # NoRecord
  <2> PICK r : r = metrics[n][s]
    OBVIOUS
  <2> PICK e : e = Reduced(r)
    OBVIOUS
  <2>1. r \in EvaluatedRecord /\ r.last <= today
    BY <1>3 DEF AInv, IInv, TypeOK, AsScored
  <2>2. [r EXCEPT !.slashes = @ + 1] \in EvaluatedRecord
    BY <2>1 DEF EvaluatedRecord
  <2>3. e.expertise = SubjectExpertise(e) /\ e.last = r.last /\ e.evaluations = r.evaluations
    BY <2>1, <2>2, ScoredOnce DEF Reduced, Scored, EvaluatedRecord
  <2>4. metrics' = [metrics EXCEPT ![n] = [metrics[n] EXCEPT ![s] = e]]
    <3>1. metrics' = [metrics EXCEPT ![n][s] = e]
      BY <1>3 DEF Slash
    <3> QED BY <3>1 DEF AInv, IInv, TypeOK
  <2>5. \A m \in Nodes, t \in Subjects :
          metrics'[m][t] = IF m = n /\ t = s THEN e ELSE metrics[m][t]
    BY <2>4 DEF AInv, IInv, TypeOK
  <2>6. ASSUME NEW m \in Nodes, NEW t \in Subjects, metrics'[m][t] # NoRecord
        PROVE  /\ metrics'[m][t].expertise = SubjectExpertise(metrics'[m][t])
               /\ metrics'[m][t].last <= today'
    BY <1>1, <2>1, <2>3, <2>5, <2>6 DEF AInv, AsScored
  <2>7. AsScored'
    BY <2>6 DEF AsScored, SubjectExpertise, Concordance, Grounding, RawConcordance, Volume, Longevity
  <2>8. ASSUME NEW m \in Nodes, NEW t \in Subjects PROVE Agreed(m, t)
    <3>1. metrics[m][t] # NoRecord => /\ metrics'[m][t].evaluations = metrics[m][t].evaluations
                                      /\ metrics[m][t].evaluations \in Nat
      BY <2>3, <2>5 DEF AInv, IInv, TypeOK, EvaluatedRecord
    <3> QED BY <3>1 DEF Agreed
  <2> QED BY <2>7, <2>8
<1> QED BY <1>2, <1>3

\* Whatever came before, an evaluation that agrees with the median and quotes only what is
\* there leaves a node at least the expertise it had (expertise.py:47-76).
THEOREM AgreementNeverHarms == ExpertiseSpec => AgreementNeverCosts
<1>1. ExpertiseInit => AInv
  BY DEF ExpertiseInit, AInv, IInv, TypeOK, Bounded, AsScored
<1>2. AInv /\ [ExpertiseNext]_expertiseVars =>
        AInv' /\ (\A m \in Nodes, t \in Subjects : Agreed(m, t))
  <2> SUFFICES ASSUME AInv, [ExpertiseNext]_expertiseVars
               PROVE  AInv' /\ \A m \in Nodes, t \in Subjects : Agreed(m, t)
    OBVIOUS
  <2>1. ASSUME NEW n \in Nodes, NEW s \in Subjects, Evaluate(n, s)
        PROVE  AInv' /\ \A m \in Nodes, t \in Subjects : Agreed(m, t)
    BY <2>1, EvaluateKeeps, EvaluateAgrees DEF AInv
  <2>2. ASSUME NEW n \in Nodes, NEW s \in Subjects, Slash(n, s)
        PROVE  AInv' /\ \A m \in Nodes, t \in Subjects : Agreed(m, t)
    BY <2>2, SlashKeeps, SlashAgrees DEF AInv
  <2>3. ASSUME metrics' = metrics, today' \in Nat, today' >= today
        PROVE  AInv' /\ \A m \in Nodes, t \in Subjects : Agreed(m, t)
    <3>1. IInv'
      BY <2>3 DEF AInv, IInv, TypeOK, Bounded
    <3>2. \A m \in Nodes, t \in Subjects :
            metrics[m][t] # NoRecord => metrics[m][t].evaluations \in Nat /\ metrics[m][t].last \in Nat
      BY DEF AInv, IInv, TypeOK, EvaluatedRecord
    <3>3. today \in Nat
      BY DEF AInv, IInv, TypeOK
    <3>4. AsScored'
      BY <2>3, <3>2, <3>3 DEF AInv, AsScored
    <3> QED BY <2>3, <3>1, <3>2, <3>4 DEF AInv, Agreed
  <2>4. CASE Later
    <3>1. metrics' = metrics /\ today' \in Nat /\ today' >= today
      BY <2>4, ExpertiseAssumption DEF Later, AInv, IInv, TypeOK
    <3> QED BY <2>3, <3>1
  <2>5. CASE UNCHANGED expertiseVars
    <3>1. metrics' = metrics /\ today' \in Nat /\ today' >= today
      BY <2>5 DEF expertiseVars, AInv, IInv, TypeOK
    <3> QED BY <2>3, <3>1
  <2> QED BY <2>1, <2>2, <2>4, <2>5 DEF ExpertiseNext
<1>3. (\A m \in Nodes, t \in Subjects : Agreed(m, t)) =>
        \A n \in Nodes, s \in Subjects :
         LET was == metrics[n][s]
             is == metrics'[n][s]
         IN  (/\ was # NoRecord
              /\ is.evaluations > was.evaluations /\ is.deviations = was.deviations
              /\ is.grounded - was.grounded = is.quotes - was.quotes
              /\ is.domains >= was.domains)
             => is.expertise >= was.expertise
  BY Zenon DEF Agreed
<1> QED BY <1>1, <1>2, <1>3, PTL DEF ExpertiseSpec, AgreementNeverCosts

-----------------------------------------------------------------------------
\* Induction on the subsets of a finite set, for a set of the good ones.
LEMMA SetInduction ==
    ASSUME NEW S, IsFiniteSet(S), NEW Good, {} \in Good,
           \A T \in SUBSET S : T # {} /\ (\A x \in T : T \ {x} \in Good) => T \in Good
    PROVE  \A T \in SUBSET S : T \in Good
<1> DEFINE Bad == {T \in SUBSET S : T \notin Good}
           Order == StrictSubsetOrdering(S)
<1> SUFFICES ASSUME Bad # {} PROVE FALSE
  OBVIOUS
<1>1. IsWellFoundedOn(Order, SUBSET S)
  BY FS_StrictSubsetOrderingWellFounded, FS_FiniteSubsetsOfFinite
<1>2. PICK T \in Bad : \A U \in Bad : ~(<<U, T>> \in Order)
  <2> Bad \subseteq SUBSET S
    OBVIOUS
  <2> HIDE DEF Bad, Order
  <2> QED BY <1>1, WFMin
<1>3. ASSUME NEW x \in T PROVE T \ {x} \in Good
  <2>1. <<T \ {x}, T>> \in Order
    BY <1>3 DEF StrictSubsetOrdering
  <2> QED BY <1>2, <2>1
<1> QED BY <1>3

Chosen(s) == CHOOSE x \in s : TRUE
Rec(p, S, g) == g = [s \in SUBSET S |-> IF s = {} THEN 0 ELSE p[Chosen(s)].weight + g[s \ {Chosen(s)}]]

\* What is chosen of a set that is not empty is in it.
LEMMA ChosenIn == ASSUME NEW s, s # {} PROVE Chosen(s) \in s
  BY DEF Chosen

\* Two recursive sums agree where both are defined.
LEMMA RecUnique ==
    ASSUME NEW p, NEW S, IsFiniteSet(S), NEW A, NEW B, S \subseteq A, S \subseteq B,
           NEW g, Rec(p, A, g), NEW h, Rec(p, B, h)
    PROVE  \A s \in SUBSET S : g[s] = h[s]
<1> DEFINE Good == {s \in SUBSET S : g[s] = h[s]}
<1>1. {} \in Good
  BY DEF Rec
<1>2. ASSUME NEW T \in SUBSET S, T # {}, \A x \in T : T \ {x} \in Good PROVE T \in Good
  <2>1. Chosen(T) \in T
    BY <1>2, ChosenIn
  <2>2. g[T \ {Chosen(T)}] = h[T \ {Chosen(T)}]
    BY <1>2, <2>1
  <2> QED BY <1>2, <2>2 DEF Rec
<1> HIDE DEF Good
<1>3. \A T \in SUBSET S : T \in Good
  BY ONLY IsFiniteSet(S), <1>1, <1>2, SetInduction
<1> QED BY <1>3 DEF Good

\* There is a recursive sum over every finite set.
LEMMA RecExists ==
    ASSUME NEW p, NEW S, IsFiniteSet(S)
    PROVE  \E g : Rec(p, S, g)
<1> DEFINE Good == {T \in SUBSET S : \E g : Rec(p, T, g)}
<1>1. {} \in Good
  <2> DEFINE g == [s \in SUBSET {} |-> 0]
  <2>1. Rec(p, {}, g)
    BY DEF Rec
  <2> QED BY <2>1
<1>2. ASSUME NEW T \in SUBSET S, T # {}, \A x \in T : T \ {x} \in Good PROVE T \in Good
  <2>1. Chosen(T) \in T
    BY <1>2, ChosenIn
  <2> DEFINE G(U) == CHOOSE g : Rec(p, U, g)
  <2>2. ASSUME NEW U \in SUBSET T, U # T PROVE Rec(p, U, G(U))
    <3>1. PICK x \in T : U \subseteq T \ {x}
      BY <2>2
    <3>2. PICK h : Rec(p, T \ {x}, h)
      BY <1>2
    <3> DEFINE f == [s \in SUBSET U |-> h[s]]
    <3>3. Rec(p, U, f)
      <4>1. ASSUME NEW s \in SUBSET U PROVE f[s] = IF s = {} THEN 0 ELSE p[Chosen(s)].weight + f[s \ {Chosen(s)}]
        <5>1. s \in SUBSET (T \ {x}) /\ s \ {Chosen(s)} \in SUBSET U
          BY <3>1, <4>1
        <5> QED BY <3>2, <5>1 DEF Rec
      <4> QED BY <4>1 DEF Rec
    <3> HIDE DEF f
    <3> QED BY <3>3
  <2> DEFINE f == [s \in SUBSET T |-> IF s = T THEN p[Chosen(T)].weight + G(T \ {Chosen(T)})[T \ {Chosen(T)}]
                                      ELSE G(s)[s]]
  <2> HIDE DEF G
  <2>3. ASSUME NEW s \in SUBSET T PROVE f[s] = IF s = {} THEN 0 ELSE p[Chosen(s)].weight + f[s \ {Chosen(s)}]
    <3>1. CASE s = T
      BY <1>2, <2>1, <3>1
    <3>2. CASE s # T /\ s = {}
      BY <2>2, <3>2 DEF Rec
    <3>3. CASE s # T /\ s # {}
      <4>1. Chosen(s) \in s
        BY <3>3, ChosenIn
      <4> PICK r : r = s \ {Chosen(s)}
        OBVIOUS
      <4>2. r \in SUBSET T /\ r # T /\ r \subseteq s
        BY <3>3, <4>1
      <4>3. Rec(p, s, G(s)) /\ Rec(p, r, G(r))
        BY <2>2, <3>3, <4>2
      <4>4. IsFiniteSet(r)
        BY <4>2, FS_Subset
      <4>5. G(s)[r] = G(r)[r]
        BY <4>2, <4>3, <4>4, RecUnique
      <4>6. G(s)[s] = p[Chosen(s)].weight + G(s)[r]
        BY <3>3, <4>3 DEF Rec
      <4> QED BY <3>3, <4>2, <4>5, <4>6
    <3> QED BY <3>1, <3>2, <3>3
  <2>4. Rec(p, T, f)
    BY <2>3 DEF Rec
  <2> HIDE DEF f
  <2> QED BY <2>4
<1> HIDE DEF Good
<1>3. S \in Good
  <2>1. \A T \in SUBSET S : T \in Good
    BY ONLY IsFiniteSet(S), <1>1, <1>2, SetInduction
  <2> QED BY <2>1
<1> QED BY <1>3 DEF Good

\* The weight of a set is its recursive sum.
LEMMA WeightIsRec == ASSUME NEW p, NEW S PROVE Weight(p, S) = (CHOOSE g : Rec(p, S, g))[S]
  BY DEF Weight, MapThenSumSet, MapThenFoldSet, Chosen, Rec

\* The weight of a set is that of one of its members and of the rest.
LEMMA WeightStep ==
    ASSUME NEW p, NEW S, IsFiniteSet(S)
    PROVE  /\ S = {} => Weight(p, S) = 0
           /\ S # {} => /\ Chosen(S) \in S
                        /\ Weight(p, S) = p[Chosen(S)].weight + Weight(p, S \ {Chosen(S)})
<1> PICK T : T = S \ {Chosen(S)}
  OBVIOUS
<1> DEFINE g == CHOOSE g : Rec(p, S, g)
           h == CHOOSE h : Rec(p, T, h)
<1>1. IsFiniteSet(T)
  BY FS_Subset
<1>2. Rec(p, S, g) /\ Rec(p, T, h)
  BY <1>1, RecExists
<1>3. Weight(p, S) = g[S] /\ Weight(p, T) = h[T]
  BY WeightIsRec
<1> HIDE DEF g, h
<1>4. g[T] = h[T]
  <2>1. T \subseteq S /\ T \subseteq T /\ T \in SUBSET T
    OBVIOUS
  <2> QED BY <1>1, <1>2, <2>1, RecUnique
<1>5. CASE S = {}
  BY <1>2, <1>3, <1>5 DEF Rec
<1>6. CASE S # {}
  <2>1. g[S] = p[Chosen(S)].weight + g[S \ {Chosen(S)}]
    BY <1>2, <1>6 DEF Rec
  <2> QED BY <1>3, <1>4, <1>6, <2>1, ChosenIn
<1> QED BY <1>5, <1>6

Weighty(p, S) == \A i \in S : p[i].weight \in Nat

\* The weight of finitely many natural weights is natural.
LEMMA WeightNat ==
    ASSUME NEW p, NEW S, IsFiniteSet(S), Weighty(p, S)
    PROVE  Weight(p, S) \in Nat
<1> DEFINE Good == {T \in SUBSET S : Weight(p, T) \in Nat}
<1>1. {} \in Good
  <2>1. IsFiniteSet({})
    BY FS_EmptySet
  <2>2. Weight(p, {}) = 0
    BY <2>1, WeightStep
  <2> QED BY <2>2
<1>2. ASSUME NEW T \in SUBSET S, T # {}, \A x \in T : T \ {x} \in Good PROVE T \in Good
  <2>1. IsFiniteSet(T)
    BY FS_Subset
  <2>2. Chosen(T) \in T /\ Weight(p, T) = p[Chosen(T)].weight + Weight(p, T \ {Chosen(T)})
    BY <1>2, <2>1, WeightStep
  <2> QED BY <1>2, <2>2 DEF Weighty
<1> HIDE DEF Good
<1>3. S \in Good
  <2>1. \A T \in SUBSET S : T \in Good
    BY ONLY IsFiniteSet(S), <1>1, <1>2, SetInduction
  <2> QED BY <2>1
<1> QED BY <1>3 DEF Good

\* Any member may be the one that is taken out.
LEMMA WeightOfAny ==
    ASSUME NEW p, NEW S, IsFiniteSet(S), Weighty(p, S)
    PROVE  \A x \in S : Weight(p, S) = p[x].weight + Weight(p, S \ {x})
<1> DEFINE Good == {T \in SUBSET S : \A x \in T : Weight(p, T) = p[x].weight + Weight(p, T \ {x})}
<1>1. {} \in Good
  OBVIOUS
<1>2. ASSUME NEW T \in SUBSET S, T # {}, \A x \in T : T \ {x} \in Good PROVE T \in Good
  <2>1. IsFiniteSet(T)
    BY FS_Subset
  <2> PICK y : y = Chosen(T)
    OBVIOUS
  <2>2. y \in T /\ Weight(p, T) = p[y].weight + Weight(p, T \ {y})
    BY <1>2, <2>1, WeightStep
  <2> SUFFICES ASSUME NEW x \in T, x # y PROVE Weight(p, T) = p[x].weight + Weight(p, T \ {x})
    BY <2>2
  <2>3. Weight(p, T \ {y}) = p[x].weight + Weight(p, (T \ {y}) \ {x})
    BY <1>2, <2>2
  <2>4. Weight(p, T \ {x}) = p[y].weight + Weight(p, (T \ {x}) \ {y})
    BY <1>2, <2>2
  <2>5. (T \ {y}) \ {x} = (T \ {x}) \ {y}
    OBVIOUS
  <2>6. Weight(p, (T \ {x}) \ {y}) \in Nat
    BY <2>1, FS_Subset, WeightNat DEF Weighty
  <2>7. p[x].weight \in Nat /\ p[y].weight \in Nat
    BY <2>2 DEF Weighty
  <2> DEFINE a == Weight(p, T)
             b == Weight(p, T \ {y})
             c == Weight(p, T \ {x})
             d == Weight(p, (T \ {x}) \ {y})
  <2>8. a = p[y].weight + b /\ b = p[x].weight + d /\ c = p[y].weight + d /\ d \in Nat
    BY <2>2, <2>3, <2>4, <2>5, <2>6
  <2> HIDE DEF a, b, c, d
  <2>9. a = p[x].weight + c
    BY <2>7, <2>8
  <2> QED BY <2>9 DEF a, c
<1> HIDE DEF Good
<1>3. S \in Good
  <2>1. \A T \in SUBSET S : T \in Good
    BY ONLY IsFiniteSet(S), <1>1, <1>2, SetInduction
  <2> QED BY <2>1
<1> QED BY <1>3 DEF Good

\* Weights of a part and of the rest add up.
LEMMA WeightAdds ==
    ASSUME NEW p, NEW S, IsFiniteSet(S), Weighty(p, S), NEW A \in SUBSET S
    PROVE  /\ Weight(p, S) = Weight(p, A) + Weight(p, S \ A)
           /\ Weight(p, S) \in Nat /\ Weight(p, A) \in Nat /\ Weight(p, S \ A) \in Nat
<1> DEFINE Good == {T \in SUBSET A : Weight(p, S) = Weight(p, T) + Weight(p, S \ T)}
<1>0. ASSUME NEW T \in SUBSET S PROVE IsFiniteSet(T) /\ Weighty(p, T) /\ Weight(p, T) \in Nat
  BY FS_Subset, WeightNat DEF Weighty
<1>1. {} \in Good
  <2>1. Weight(p, {}) = 0 /\ S \ {} = S
    BY FS_EmptySet, WeightStep
  <2> QED BY <2>1, <1>0
<1>2. ASSUME NEW T \in SUBSET A, T # {}, \A x \in T : T \ {x} \in Good PROVE T \in Good
  <2>1. PICK x \in T : TRUE
    BY <1>2
  <2>2. Weight(p, S) = Weight(p, T \ {x}) + Weight(p, S \ (T \ {x}))
    BY <1>2, <2>1
  <2>3. Weight(p, T) = p[x].weight + Weight(p, T \ {x})
    BY <1>0, <2>1, WeightOfAny
  <2>4. Weight(p, S \ (T \ {x})) = p[x].weight + Weight(p, (S \ (T \ {x})) \ {x})
    <3>1. x \in S \ (T \ {x}) /\ IsFiniteSet(S \ (T \ {x})) /\ Weighty(p, S \ (T \ {x}))
      BY <1>0, <2>1
    <3> QED BY <3>1, WeightOfAny
  <2>5. (S \ (T \ {x})) \ {x} = S \ T
    BY <2>1
  <2>6. Weight(p, S \ T) \in Nat /\ Weight(p, T \ {x}) \in Nat /\ p[x].weight \in Nat
    BY <1>0, <2>1 DEF Weighty
  <2> QED BY <2>2, <2>3, <2>4, <2>5, <2>6
<1> HIDE DEF Good
<1>3. A \in Good
  <2>1. IsFiniteSet(A)
    BY <1>0
  <2> QED BY ONLY <1>1, <1>2, <2>1, SetInduction
<1> QED BY <1>0, <1>3 DEF Good

\* A part weighs no more than the whole.
LEMMA WeightGrows ==
    ASSUME NEW p, NEW S, IsFiniteSet(S), Weighty(p, S), NEW A \in SUBSET S
    PROVE  Weight(p, A) <= Weight(p, S)
<1> DEFINE a == Weight(p, A)
           b == Weight(p, S \ A)
           c == Weight(p, S)
<1>1. c = a + b /\ a \in Nat /\ b \in Nat
  BY WeightAdds
<1> HIDE DEF a, b, c
<1>2. a <= c
  BY <1>1
<1> QED BY <1>2 DEF a, c

\* A finite set of natural numbers has its minimum.
LEMMA Least ==
    ASSUME NEW S \in SUBSET Nat, IsFiniteSet(S), S # {}
    PROVE  Min(S) \in S /\ \A y \in S : Min(S) <= y
<1> DEFINE Below(x) == {y \in S : y < x}
           All == {Below(x) : x \in S}
           Order == StrictSubsetOrdering(S)
<1>1. IsWellFoundedOn(Order, SUBSET S)
  BY FS_StrictSubsetOrderingWellFounded, FS_FiniteSubsetsOfFinite
<1>2. All \subseteq SUBSET S /\ All # {}
  OBVIOUS
<1>3. PICK A \in All : \A B \in All : ~ (<<B, A>> \in Order)
  <2> HIDE DEF All, Order
  <2> QED BY <1>1, <1>2, WFMin
<1>4. PICK x \in S : A = Below(x)
  BY <1>3
<1>5. ASSUME NEW y \in S, y < x PROVE FALSE
  <2>0. x \in Int /\ y \in Int /\ \A z \in S : z \in Int
    OBVIOUS
  <2>1. ASSUME NEW z \in S, z < y PROVE z < x
    BY <1>5, <2>0, <2>1
  <2>a. Below(y) \subseteq Below(x)
    BY <2>1
  <2>2. y \in Below(x) /\ y \notin Below(y)
    BY <1>5, <2>0
  <2>3. <<Below(y), Below(x)>> \in Order
    BY <2>a, <2>2 DEF StrictSubsetOrdering
  <2> QED BY <1>3, <1>4, <2>3
<1>6. \A y \in S : x <= y
  BY <1>5
<1>7. \E z \in S : \A y \in S : z <= y
  BY <1>6
<1> QED BY <1>7 DEF Min

\* A finite set of natural numbers has its maximum.
LEMMA Greatest ==
    ASSUME NEW S \in SUBSET Nat, IsFiniteSet(S), S # {}
    PROVE  Max(S) \in S /\ \A y \in S : Max(S) >= y
<1> DEFINE Above(x) == {y \in S : y > x}
           All == {Above(x) : x \in S}
           Order == StrictSubsetOrdering(S)
<1>1. IsWellFoundedOn(Order, SUBSET S)
  BY FS_StrictSubsetOrderingWellFounded, FS_FiniteSubsetsOfFinite
<1>2. All \subseteq SUBSET S /\ All # {}
  OBVIOUS
<1>3. PICK A \in All : \A B \in All : ~ (<<B, A>> \in Order)
  <2> HIDE DEF All, Order
  <2> QED BY <1>1, <1>2, WFMin
<1>4. PICK x \in S : A = Above(x)
  BY <1>3
<1>5. ASSUME NEW y \in S, y > x PROVE FALSE
  <2>0. x \in Int /\ y \in Int /\ \A z \in S : z \in Int
    OBVIOUS
  <2>1. ASSUME NEW z \in S, z > y PROVE z > x
    BY <1>5, <2>0, <2>1
  <2>a. Above(y) \subseteq Above(x)
    BY <2>1
  <2>2. y \in Above(x) /\ y \notin Above(y)
    BY <1>5, <2>0
  <2>3. <<Above(y), Above(x)>> \in Order
    BY <2>a, <2>2 DEF StrictSubsetOrdering
  <2> QED BY <1>3, <1>4, <2>3
<1>6. \A y \in S : x >= y
  BY <1>5
<1>7. \E z \in S : \A y \in S : z >= y
  BY <1>6
<1> QED BY <1>7 DEF Max

\* The attestations as they are weighed: scores and weights are natural numbers.
Weighed(p) ==
    /\ Weighty(p, DOMAIN p) /\ IsFiniteSet(DOMAIN p)
    /\ \A i \in DOMAIN p : p[i].score \in Nat

UpTo(p, S, x) == {i \in S : p[i].score <= x}
Scores(p, S) == {p[i].score : i \in S}

\* Finitely many attestations have finitely many scores.
LEMMA ScoresFinite == ASSUME NEW p, NEW S, IsFiniteSet(S) PROVE IsFiniteSet(Scores(p, S))
<1> DEFINE f == [i \in S |-> p[i].score]
<1>1. f \in Surjection(S, Scores(p, S))
  BY DEF Surjection, Scores
<1> QED BY <1>1, FS_Surjection

\* The weighted median is the least of the scores at which half of the weight is reached.
LEMMA MedianIsLeast ==
    ASSUME NEW p, Weighed(p), NEW S \in SUBSET DOMAIN p, S # {}
    PROVE  /\ WeightedMedian(p, S) \in Scores(p, S) /\ WeightedMedian(p, S) \in Nat
           /\ 2 * Weight(p, UpTo(p, S, WeightedMedian(p, S))) >= Weight(p, S)
           /\ \A x \in Scores(p, S) : 2 * Weight(p, UpTo(p, S, x)) >= Weight(p, S) => WeightedMedian(p, S) <= x
<1> DEFINE Half == {x \in Scores(p, S) : 2 * Weight(p, UpTo(p, S, x)) >= Weight(p, S)}
<1>0. WeightedMedian(p, S) = Min(Half)
  BY DEF WeightedMedian, Scores, UpTo
<1>1. IsFiniteSet(S) /\ Scores(p, S) \in SUBSET Nat /\ Scores(p, S) # {}
  BY FS_Subset DEF Weighed, Scores
<1>2. IsFiniteSet(Scores(p, S))
  BY <1>1, ScoresFinite
<1>3. Half # {}
  <2> PICK m : m = Max(Scores(p, S))
    OBVIOUS
  <2>1. m \in Scores(p, S) /\ \A y \in Scores(p, S) : m >= y
    BY <1>1, <1>2, Greatest
  <2>2. UpTo(p, S, m) = S
    <3>1. \A i \in S : p[i].score \in Nat /\ p[i].score <= m
      BY <1>1, <2>1 DEF Scores
    <3> QED BY <3>1 DEF UpTo
  <2>3. Weight(p, S) \in Nat
    BY <1>1, WeightNat DEF Weighed, Weighty
  <2>4. 2 * Weight(p, S) >= Weight(p, S)
    BY <2>3
  <2> QED BY <2>1, <2>2, <2>4
<1>4. IsFiniteSet(Half) /\ Half \in SUBSET Nat
  BY <1>1, <1>2, FS_Subset
<1>5. Min(Half) \in Half /\ \A y \in Half : Min(Half) <= y
  <2> HIDE DEF Half
  <2> QED BY <1>3, <1>4, Least
<1> QED BY <1>0, <1>1, <1>5

\* Who has the greater weight holds the median in the range of its scores.
LEMMA MedianInRange ==
    ASSUME NEW p, Weighed(p), NEW S \in SUBSET DOMAIN p, NEW H \in SUBSET S, H # {},
           Weight(p, S \ H) < Weight(p, H)
    PROVE  /\ WeightedMedian(p, S) >= Min(Scores(p, H))
           /\ WeightedMedian(p, S) <= Max(Scores(p, H))
<1> PICK m : m = WeightedMedian(p, S)
  OBVIOUS
<1> PICK lo : lo = Min(Scores(p, H))
  OBVIOUS
<1> PICK hi : hi = Max(Scores(p, H))
  OBVIOUS
<1>1. IsFiniteSet(S) /\ IsFiniteSet(H) /\ Scores(p, H) \in SUBSET Nat /\ Scores(p, H) # {} /\ S # {}
  BY FS_Subset DEF Weighed, Scores
<1>2. IsFiniteSet(Scores(p, H))
  BY <1>1, ScoresFinite
<1>3. /\ lo \in Scores(p, H) /\ \A y \in Scores(p, H) : lo <= y
      /\ hi \in Scores(p, H) /\ \A y \in Scores(p, H) : hi >= y
  BY <1>1, <1>2, Least, Greatest
<1>4. /\ Weight(p, S) = Weight(p, H) + Weight(p, S \ H)
      /\ Weight(p, S) \in Nat /\ Weight(p, H) \in Nat /\ Weight(p, S \ H) \in Nat
  <2>1. Weighty(p, S)
    BY DEF Weighed, Weighty
  <2> QED BY <1>1, <2>1, WeightAdds
<1>5. /\ m \in Nat /\ 2 * Weight(p, UpTo(p, S, m)) >= Weight(p, S)
      /\ \A x \in Scores(p, S) : 2 * Weight(p, UpTo(p, S, x)) >= Weight(p, S) => m <= x
  BY <1>1, MedianIsLeast
<1>6. m >= lo
  <2> SUFFICES ASSUME m < lo PROVE FALSE
    BY <1>1, <1>3, <1>5
  <2>1. \A i \in H : p[i].score \in Nat /\ lo <= p[i].score
    BY <1>1, <1>3 DEF Scores
  <2>2. UpTo(p, S, m) \subseteq S \ H
    BY <1>1, <1>3, <1>5, <2>1 DEF UpTo
  <2>3. IsFiniteSet(S \ H) /\ Weighty(p, S \ H)
    BY <1>1, FS_Subset DEF Weighed, Weighty
  <2>4. Weight(p, UpTo(p, S, m)) <= Weight(p, S \ H) /\ Weight(p, UpTo(p, S, m)) \in Nat
    BY <2>2, <2>3, WeightGrows, WeightAdds
  <2> QED BY <1>4, <1>5, <2>4
<1>7. m <= hi
  <2>1. H \subseteq UpTo(p, S, hi)
    BY <1>1, <1>3 DEF UpTo, Scores
  <2>2. IsFiniteSet(UpTo(p, S, hi)) /\ Weighty(p, UpTo(p, S, hi))
    BY <1>1, FS_Subset DEF Weighed, Weighty, UpTo
  <2>3. Weight(p, H) <= Weight(p, UpTo(p, S, hi)) /\ Weight(p, UpTo(p, S, hi)) \in Nat
    BY <2>1, <2>2, WeightGrows, WeightAdds
  <2>4. 2 * Weight(p, UpTo(p, S, hi)) >= Weight(p, S)
    BY <1>4, <2>3
  <2>5. hi \in Scores(p, S)
    BY <1>3 DEF Scores
  <2> QED BY <1>5, <2>4, <2>5
<1> QED BY <1>6, <1>7

-----------------------------------------------------------------------------
Attestation == [node : Nodes, found : Findings]
AttestedOK == attested \in Seq(Attestation)
CInv == IInv /\ AttestedOK

\* A reputation is a number.
LEMMA ReputationInt == ASSUME NEW n \in Nodes PROVE Reputation[n] \in Int
<1>1. Reputation[n] \in 0..Unit
  BY ConsensusAssumption
<1>2. 0..Unit \subseteq Int
  BY DEF Unit
<1> QED BY <1>1, <1>2

\* An attestation is given its own score and a natural weight.
LEMMA PeerTyped ==
    ASSUME TypeOK, NEW a \in Attestation, NEW subject \in Asked
    PROVE  /\ Peer(a, subject).score = a.found.score /\ a.found.score \in Nat
           /\ Peer(a, subject).weight \in Nat
<1>1. /\ a.node \in Nodes /\ a.found \in Findings /\ a.found.score \in Nat /\ a.found.confidence \in Nat
      /\ a.found.grounded \in Nat
  BY ConsensusAssumption DEF Attestation
<1> DEFINE expertise == IF subject = General THEN 5000
                        ELSE IF metrics[a.node][subject] = NoRecord THEN Floor
                        ELSE metrics[a.node][subject].expertise
           base == IF subject = General THEN Reputation[a.node]
                   ELSE EffectiveWeight(Reputation[a.node], expertise)
           grounded == IF a.found.violated THEN a.found.grounded ELSE 100
           product == base * a.found.confidence * (100 + grounded)
<1>2. expertise \in Int
  BY <1>1 DEF TypeOK, EvaluatedRecord, Floor, Asked
<1>3. Reputation[a.node] \in Int
  BY <1>1, ReputationInt
<1>4. base \in Int
  <2> HIDE DEF expertise
  <2> QED BY <1>2, <1>3 DEF EffectiveWeight, Lesser, Greater, Unit
<1>5. grounded \in Int
  BY <1>1
<1>6. product \in Int
  <2> HIDE DEF base, grounded
  <2> QED BY <1>1, <1>4, <1>5
<1>7. Greater(100, product \div 20000) \in Nat
  <2> HIDE DEF product
  <2>1. product \div 20000 \in Int
    BY <1>6
  <2> QED BY <2>1 DEF Greater
<1>8. Peer(a, subject).weight = Greater(100, product \div 20000) /\ Peer(a, subject).score = a.found.score
  BY DEF Peer
<1> QED BY <1>1, <1>7, <1>8

\* So are all that are stored.
LEMMA PeersWeighed ==
    ASSUME CInv, NEW subject \in Asked
    PROVE  /\ Weighed(Peers(attested, subject)) /\ DOMAIN Peers(attested, subject) = DOMAIN attested
           /\ \A i \in DOMAIN attested : Peers(attested, subject)[i].score = attested[i].found.score
<1>1. TypeOK /\ attested \in Seq(Attestation)
  BY DEF CInv, IInv, AttestedOK
<1>2. /\ DOMAIN attested = 1..Len(attested) /\ Len(attested) \in Nat
      /\ \A i \in DOMAIN attested : attested[i] \in Attestation
  BY <1>1
<1>3. IsFiniteSet(DOMAIN attested)
  BY <1>2, FS_Interval
<1> QED BY <1>1, <1>2, <1>3, PeerTyped DEF Peers, Weighed, Weighty

\* What becomes of the attestations, step by step.
Median(subject) == WeightedMedian(Peers(attested, subject), DOMAIN attested)
Trimmed(subject) == Outliers(Peers(attested, subject), Median(subject))
Active(subject) == IF Trimmed(subject) = DOMAIN attested THEN DOMAIN attested ELSE DOMAIN attested \ Trimmed(subject)
Evident(subject) == {i \in Active(subject) : Peers(attested, subject)[i].evidence}
Anchored(subject) ==
    LET p == Peers(attested, subject)
        median == WeightedMedian(p, Active(subject))
    IN  IF median = 0 /\ Evident(subject) # {} THEN WeightedMedian(p, Evident(subject)) ELSE median

\* The verdict in terms of the steps above.
LEMMA VerdictIs ==
    ASSUME CInv, NEW subject \in Asked
    PROVE  /\ Verdict(attested, subject).outliers = Trimmed(subject)
           /\ ~Verdict(attested, subject).satire => Verdict(attested, subject).score = Anchored(subject)
<1>1. DOMAIN Peers(attested, subject) = DOMAIN attested
  BY PeersWeighed
<1> QED BY <1>1 DEF Verdict, Trimmed, Anchored, Evident, Active, Median

\* Evidence keeps an attestation among the active ones, and their scores are natural numbers.
LEMMA ActiveFacts ==
    ASSUME CInv, NEW subject \in Asked, attested # <<>>
    PROVE  /\ Active(subject) \subseteq DOMAIN attested /\ Active(subject) # {}
           /\ Evident(subject) \subseteq Active(subject)
           /\ \A i \in DOMAIN attested : Peers(attested, subject)[i].evidence =>
                 i \notin Trimmed(subject) /\ i \in Evident(subject)
<1>1. DOMAIN Peers(attested, subject) = DOMAIN attested /\ attested \in Seq(Attestation)
  BY PeersWeighed DEF CInv, AttestedOK
<1>2. DOMAIN attested # {}
  BY <1>1
<1>3. Trimmed(subject) \subseteq DOMAIN attested
  BY <1>1 DEF Trimmed, Outliers
<1>4. \A i \in DOMAIN attested : Peers(attested, subject)[i].evidence => i \notin Trimmed(subject)
  BY DEF Trimmed, Outliers
<1> QED BY <1>2, <1>3, <1>4 DEF Active, Evident

\* What is heard of an authority with evidence follows from what is stored.
LEMMA Galileo == CInv => GalileoHeard
<1> SUFFICES ASSUME CInv, NEW subject \in Asked, NEW i \in DOMAIN attested,
                    Peer(attested[i], subject).evidence, Peer(attested[i], subject).score > 0
             PROVE  /\ i \notin Verdict(attested, subject).outliers
                    /\ \/ Verdict(attested, subject).satire \/ Verdict(attested, subject).score > 0
                       \/ \E j \in DOMAIN attested : /\ Peer(attested[j], subject).evidence
                                                      /\ attested[j].found.score = 0
  BY DEF GalileoHeard
<1> PICK p : p = Peers(attested, subject)
  OBVIOUS
<1>1. /\ Weighed(p) /\ DOMAIN p = DOMAIN attested
      /\ \A j \in DOMAIN attested : p[j].score = attested[j].found.score /\ p[j] = Peer(attested[j], subject)
  BY PeersWeighed DEF Peers
<1>2. attested # <<>>
  OBVIOUS
<1>3. /\ Active(subject) \subseteq DOMAIN p /\ Active(subject) # {} /\ Evident(subject) \subseteq Active(subject)
      /\ i \notin Trimmed(subject) /\ i \in Evident(subject)
  BY <1>1, <1>2, ActiveFacts
<1>4. i \notin Verdict(attested, subject).outliers
  BY <1>3, VerdictIs
<1>5. SUFFICES ASSUME ~Verdict(attested, subject).satire, ~(Verdict(attested, subject).score > 0)
               PROVE  \E j \in DOMAIN attested : /\ Peer(attested[j], subject).evidence
                                                 /\ attested[j].found.score = 0
  BY <1>4
<1>6. ~(Anchored(subject) > 0)
  BY <1>5, VerdictIs
<1>7. WeightedMedian(p, Active(subject)) \in Nat
  BY <1>1, <1>3, MedianIsLeast
<1>8. /\ WeightedMedian(p, Evident(subject)) \in Nat
      /\ WeightedMedian(p, Evident(subject)) \in Scores(p, Evident(subject))
  <2>1. Evident(subject) \in SUBSET DOMAIN p /\ Evident(subject) # {}
    BY <1>3
  <2> QED BY <1>1, <2>1, MedianIsLeast
<1>9. WeightedMedian(p, Evident(subject)) = 0
  BY <1>3, <1>6, <1>7, <1>8 DEF Anchored
<1>10. PICK j \in Evident(subject) : p[j].score = 0
  BY <1>8, <1>9 DEF Scores
<1>11. j \in DOMAIN attested /\ p[j].evidence
  BY <1>1, <1>3 DEF Evident
<1> QED BY <1>1, <1>10, <1>11

HonestMajority(subject) ==
    LET p == Peers(attested, subject)
        lies == DOMAIN attested \ Honest
    IN  /\ Honest # {} /\ Max(HonestScores) - Min(HonestScores) <= 250
        /\ Weight(p, lies) < Weight(p, Honest)
        /\ \A i \in lies : ~p[i].evidence
InRange(subject) ==
    LET verdict == Verdict(attested, subject)
    IN  /\ verdict.outliers \cap Honest = {}
        /\ ~verdict.satire => Min(HonestScores) <= verdict.score /\ verdict.score <= Max(HonestScores)

\* The honest hold the range, before and after the outliers are taken away.
LEMMA HonestHold == CInv => HonestRange
<1>a. (\A subject \in Asked : HonestMajority(subject) => InRange(subject)) => HonestRange
  BY Zenon DEF HonestRange, HonestMajority, InRange
<1> SUFFICES ASSUME CInv, NEW subject \in Asked, HonestMajority(subject) PROVE InRange(subject)
  BY <1>a
<1> PICK p : p = Peers(attested, subject)
  OBVIOUS
<1> PICK H : H = Honest
  OBVIOUS
<1> PICK D : D = DOMAIN attested
  OBVIOUS
<1> PICK A : A = Active(subject)
  OBVIOUS
<1>1. /\ Weighed(p) /\ DOMAIN p = D /\ H \subseteq D /\ H # {} /\ D \subseteq D
      /\ \A j \in D : p[j].score = attested[j].found.score
  BY PeersWeighed DEF Honest, HonestMajority
<1>2. HonestScores = Scores(p, H)
  BY <1>1 DEF HonestScores, Scores
<1> PICK lo : lo = Min(Scores(p, H))
  OBVIOUS
<1> PICK hi : hi = Max(Scores(p, H))
  OBVIOUS
<1>3. /\ lo \in Nat /\ hi \in Nat /\ \A i \in H : p[i].score \in Nat /\ lo <= p[i].score /\ p[i].score <= hi
      /\ hi - lo <= 250
  <2>1. IsFiniteSet(H) /\ Scores(p, H) \in SUBSET Nat /\ Scores(p, H) # {}
    BY <1>1, FS_Subset DEF Weighed, Scores
  <2>2. /\ lo \in Scores(p, H) /\ \A y \in Scores(p, H) : lo <= y
        /\ hi \in Scores(p, H) /\ \A y \in Scores(p, H) : hi >= y
    BY <2>1, ScoresFinite, Least, Greatest
  <2>3. \A i \in H : p[i].score \in Scores(p, H)
    BY DEF Scores
  <2>4. hi - lo <= 250
    BY <1>2 DEF HonestMajority
  <2> QED BY <2>1, <2>2, <2>3, <2>4
<1>4. Weight(p, D \ H) < Weight(p, H) /\ \A i \in D \ H : ~p[i].evidence
  BY DEF HonestMajority
<1> PICK m : m = Median(subject)
  OBVIOUS
<1>5. m \in Nat /\ lo <= m /\ m <= hi
  <2>1. D \in SUBSET DOMAIN p /\ D # {} /\ H \in SUBSET D
    BY <1>1
  <2>2. m = WeightedMedian(p, D)
    BY DEF Median
  <2>3. m \in Nat
    BY <1>1, <2>1, <2>2, MedianIsLeast
  <2>4. m >= lo /\ m <= hi
    BY <1>1, <1>4, <2>1, <2>2, MedianInRange
  <2> QED BY <1>3, <2>3, <2>4
<1>6. \A i \in H : i \notin Trimmed(subject)
  <2> SUFFICES ASSUME NEW i \in H PROVE ~Far(p, i, m)
    BY DEF Trimmed, Outliers
  <2> QED BY <1>3, <1>5 DEF Far
<1>7. H \subseteq A /\ A \subseteq D /\ A \ H \subseteq D \ H
  BY <1>1, <1>6 DEF Active
<1>8. Weight(p, A \ H) < Weight(p, H)
  <2>1. IsFiniteSet(D \ H) /\ Weighty(p, D \ H) /\ IsFiniteSet(H) /\ Weighty(p, H)
    BY <1>1, FS_Subset DEF Weighed, Weighty
  <2>2. Weight(p, A \ H) <= Weight(p, D \ H)
    BY <1>7, <2>1, WeightGrows
  <2>3. Weight(p, A \ H) \in Nat /\ Weight(p, D \ H) \in Nat /\ Weight(p, H) \in Nat
    <3>1. IsFiniteSet(A \ H) /\ Weighty(p, A \ H)
      BY <1>7, <2>1, FS_Subset DEF Weighty
    <3> QED BY <2>1, <3>1, WeightNat
  <2> QED BY <1>4, <2>2, <2>3
<1>9. lo <= WeightedMedian(p, A) /\ WeightedMedian(p, A) <= hi /\ WeightedMedian(p, A) \in Nat
  <2>1. A \in SUBSET DOMAIN p /\ A # {} /\ H \in SUBSET A
    BY <1>1, <1>7
  <2>2. WeightedMedian(p, A) \in Nat
    BY <1>1, <2>1, MedianIsLeast
  <2>3. WeightedMedian(p, A) >= lo /\ WeightedMedian(p, A) <= hi
    BY <1>1, <1>8, <2>1, MedianInRange
  <2> QED BY <1>3, <2>2, <2>3
<1>10. lo <= Anchored(subject) /\ Anchored(subject) <= hi
  <2>1. CASE WeightedMedian(p, A) = 0 /\ Evident(subject) # {}
    <3>1. Evident(subject) \subseteq H /\ Evident(subject) \in SUBSET DOMAIN p
      BY <1>1, <1>4, <1>7 DEF Evident
    <3>2. WeightedMedian(p, Evident(subject)) \in Scores(p, Evident(subject))
      BY <1>1, <2>1, <3>1, MedianIsLeast
    <3>3. PICK i \in H : WeightedMedian(p, Evident(subject)) = p[i].score
      BY <3>1, <3>2 DEF Scores
    <3>4. Anchored(subject) = WeightedMedian(p, Evident(subject))
      BY <2>1 DEF Anchored
    <3> QED BY <1>3, <3>3, <3>4
  <2>2. CASE ~(WeightedMedian(p, A) = 0 /\ Evident(subject) # {})
    <3>1. Anchored(subject) = WeightedMedian(p, A)
      BY <2>2 DEF Anchored
    <3> QED BY <1>9, <3>1
  <2> QED BY <2>1, <2>2
<1>11. Trimmed(subject) \cap H = {}
  BY <1>6
<1> QED BY <1>2, <1>10, <1>11, VerdictIs DEF InRange

-----------------------------------------------------------------------------
\* Every step stores what is found, of nodes there are.
LEMMA ConsensusKeeps == CInv /\ [Next]_vars => CInv'
<1> SUFFICES ASSUME CInv, [Next]_vars PROVE CInv'
  OBVIOUS
<1>1. ASSUME NEW n \in Nodes, Attest(n) PROVE CInv'
  <2>1. PICK f \in Findings : attested' = Append(attested, [node |-> n, found |-> f])
    BY <1>1 DEF Attest
  <2>2. [node |-> n, found |-> f] \in Attestation
    BY DEF Attestation
  <2>3. AttestedOK'
    BY <2>1, <2>2 DEF CInv, AttestedOK
  <2>4. IInv'
    BY <1>1 DEF Attest, expertiseVars, CInv, IInv, TypeOK, Bounded
  <2> QED BY <2>3, <2>4 DEF CInv
<1>2. ASSUME IInv', attested' = attested PROVE CInv'
  BY <1>2 DEF CInv, AttestedOK
<1>3. CASE ExpertiseNext /\ UNCHANGED attested
  BY <1>2, <1>3, RecordsKept DEF CInv
<1>4. CASE UNCHANGED vars
  <2>1. UNCHANGED expertiseVars /\ attested' = attested
    BY <1>4 DEF vars
  <2> QED BY <1>2, <2>1, RecordsKept DEF CInv
<1> QED BY <1>1, <1>3, <1>4 DEF Next

\* Only findings of nodes are ever stored, beside records that are bounded.
THEOREM ConsensusTyped == Spec => []CInv
<1>1. Init => CInv
  <2>1. ExpertiseInit => IInv
    BY RecordsStart
  <2> QED BY <2>1 DEF Init, CInv, AttestedOK
<1> QED BY <1>1, ConsensusKeeps, PTL DEF Spec

-----------------------------------------------------------------------------
RowsOK == peers \in [Nodes -> PeerRow \cup {NoRow}] /\ \A k \in Known : Decay[peers[k].silent] \in Nat
MInv == IInv /\ RowsOK

\* The expertise of a node with records all of which are bounded is a number.
LEMMA BestIsNumber ==
    ASSUME IInv, NEW k \in Nodes
    PROVE  BestExpertise(k) \in Int
<1> DEFINE all == {r.expertise : r \in SubjectRecords(k)} \cup {Floor}
<1>u. Unit \in Nat /\ Floor \in Nat /\ Floor <= Unit /\ 0 \in Int /\ Unit \in Int
  BY DEF Unit, Floor
<1>1. \A r \in SubjectRecords(k) : r.expertise \in 0..Unit
  <2> SUFFICES ASSUME NEW s \in Subjects, metrics[k][s] # NoRecord
               PROVE  metrics[k][s].expertise \in 0..Unit
    BY DEF SubjectRecords
  <2> PICK r : r = metrics[k][s]
    OBVIOUS
  <2>1. r \in EvaluatedRecord /\ Slashed(r)
    BY DEF IInv, TypeOK, Bounded
  <2>2. r.expertise \in Int /\ r.slashes \in Nat
    BY <2>1 DEF EvaluatedRecord
  <2> PICK h : h = Halved[1 + Lesser(5, r.slashes)]
    OBVIOUS
  <2>3. h \in {1, 2, 4, 8, 16, 32}
    BY <2>2, HalvedValue
  <2>4. Unit \div h <= Unit /\ Unit \div h \in Int
    BY <1>u, <2>3
  <2>5. Ceiling(r.slashes) <= Unit /\ Ceiling(r.slashes) \in Int
    BY <1>u, <2>4 DEF Ceiling, Greater
  <2> QED BY <1>u, <2>1, <2>2, <2>5 DEF Slashed
<1>2. all \in SUBSET (0..Unit) /\ all # {} /\ all \in SUBSET Nat
  BY <1>u, <1>1
<1>3. IsFiniteSet(all)
  <2>1. IsFiniteSet(0..Unit)
    BY <1>u, FS_Interval
  <2> HIDE DEF all
  <2> QED BY <1>2, <2>1, FS_Subset
<1>4. PICK m \in all : \A y \in all : m >= y
  <2> HIDE DEF all
  <2> QED BY <1>2, <1>3, Greatest
<1>5. BestExpertise(k) = CHOOSE e \in all : \A f \in all : f <= e
  BY DEF BestExpertise
<1>6. \A y \in all : y <= m
  <2> HIDE DEF all
  <2> QED BY <1>2, <1>4
<1>7. BestExpertise(k) \in all
  <2> HIDE DEF all
  <2> QED BY <1>4, <1>5, <1>6
<1>8. BestExpertise(k) \in Nat
  BY <1>2, <1>7
<1> QED BY <1>8

\* A share is a natural number.
LEMMA SharesAreNumbers ==
    ASSUME NEW p \in PeerRow, Decay[p.silent] \in Nat
    PROVE  CitedShare(p) \in Int /\ HalfLifeUptime(p) \in Int
<1>1. /\ p.grounded \in Nat /\ p.citations \in Nat /\ p.sent \in Nat /\ p.answered \in Nat
  BY DEF PeerRow
<1>2. CitedShare(p) \in Int
  <2> PICK n, d : n = p.grounded * Unit /\ d = Greater(1, p.citations)
    OBVIOUS
  <2>1. n \in Nat /\ d \in Nat /\ d > 0
    BY <1>1 DEF Unit, Greater
  <2>2. n \div d \in Nat
    BY <2>1, QuotientNat
  <2> QED BY <2>2 DEF CitedShare
<1>3. ASSUME p.sent # 0 PROVE Share(p.answered, p.sent) \in Nat
  <2> PICK n, d : n = p.answered * Unit /\ d = p.sent
    OBVIOUS
  <2>1. n \in Nat /\ d \in Nat /\ d > 0
    BY <1>1, <1>3 DEF Unit
  <2>2. n \div d \in Nat
    BY <2>1, QuotientNat
  <2> QED BY <2>2 DEF Share, Lesser, Unit
<1>4. HalfLifeUptime(p) \in Int
  <2>1. CASE p.sent = 0
    BY <2>1 DEF HalfLifeUptime, Unit
  <2>2. CASE p.sent # 0
    <3> PICK s, d : s = Share(p.answered, p.sent) /\ d = Decay[p.silent]
      OBVIOUS
    <3>1. s \in Nat /\ d \in Nat
      BY <1>3, <2>2
    <3> PICK n : n = s * d
      OBVIOUS
    <3>2. n \in Nat /\ Unit \in Nat /\ Unit > 0
      BY <3>1 DEF Unit
    <3>3. n \div Unit \in Nat
      BY <3>2, QuotientNat
    <3> QED BY <2>2, <3>3 DEF HalfLifeUptime
  <2> QED BY <2>1, <2>2
<1> QED BY <1>2, <1>4

\* Of two rows the one that is no worse in any column has the rank and the badges of the other.
LEMMA NoWorseRank ==
    ASSUME NEW p \in PeerRow, NEW q \in PeerRow, NoWorse(p, q), NEW d \in Int, NEW e \in Int, d <= e,
           CitedShare(p) \in Int, CitedShare(q) \in Int
    PROVE  TierRank(p, d) <= TierRank(q, e)
<1>1. /\ p.quality \in Nat /\ p.days \in Nat /\ p.evaluations \in Nat
      /\ q.quality \in Nat /\ q.days \in Nat /\ q.evaluations \in Nat
  BY DEF PeerRow
<1>2. /\ p.quality <= q.quality /\ p.days <= q.days /\ p.evaluations <= q.evaluations
      /\ CitedShare(p) <= CitedShare(q)
  BY DEF NoWorse
<1> PICK x, y : x = CitedShare(p) /\ y = CitedShare(q)
  OBVIOUS
<1>3. x \in Int /\ y \in Int /\ x <= y
  BY <1>2
<1> QED BY <1>1, <1>2, <1>3 DEF TierRank

\* The badges that take no record of a subject, one by one.
Earned(p, b) ==
    \/ b = "sprout_node"
    \/ b = "first_attestation" /\ p.evaluations + FeedItems >= 5
    \/ b = "sifter_pioneer" /\ p.evaluations + FeedItems >= 100
    \/ b = "cadence_keeper" /\ p.days >= 7 /\ HalfLifeUptime(p) >= 9800
    \/ b = "verified_auditor" /\ p.quality >= 7000 /\ p.evaluations + FeedItems >= 100 /\ CitedShare(p) >= 9500
    \/ b = "philanthropic_relay" /\ p.tokens >= 1000 * 1000
    \/ b = "galileo_pioneer" /\ p.galileo >= 1
    \/ b = "root_seed_candidate" /\ p.quality >= 8500 /\ p.days >= 30 /\ CitedShare(p) >= 8000 /\ p.hashes
    \/ b = "sybil_shield" /\ p.evaluations >= 5000
    \/ b = "quorum_sentinel" /\ (p.quorums >= 10 \/ (p.evaluations >= 100 /\ p.quality >= 8000))
    \/ b = "century_anchor" /\ p.days >= 100 /\ p.quality >= 9000 /\ CitedShare(p) >= 9800 /\ p.hashes

\* The badges of a row are those whose condition it meets.
LEMMA BadgesEarned == ASSUME NEW p, NEW b PROVE b \in Badges(p, {}) <=> Earned(p, b)
  BY DEF Badges, Earned

\* A row that is no worse in any column has every badge of the other.
LEMMA NoWorseBadges ==
    ASSUME NEW p \in PeerRow, NEW q \in PeerRow, NoWorse(p, q),
           CitedShare(p) \in Int, CitedShare(q) \in Int, HalfLifeUptime(p) \in Int, HalfLifeUptime(q) \in Int
    PROVE  Badges(p, {}) \subseteq Badges(q, {})
<1>1. /\ p.quality \in Nat /\ p.days \in Nat /\ p.evaluations \in Nat /\ p.tokens \in Nat
      /\ p.galileo \in Nat /\ p.quorums \in Nat
      /\ q.quality \in Nat /\ q.days \in Nat /\ q.evaluations \in Nat /\ q.tokens \in Nat
      /\ q.galileo \in Nat /\ q.quorums \in Nat
  BY DEF PeerRow
<1>2. /\ p.quality <= q.quality /\ p.days <= q.days /\ p.evaluations <= q.evaluations
      /\ CitedShare(p) <= CitedShare(q) /\ (p.hashes => q.hashes)
      /\ HalfLifeUptime(p) <= HalfLifeUptime(q) /\ p.tokens <= q.tokens
      /\ p.galileo <= q.galileo /\ p.quorums <= q.quorums
  BY DEF NoWorse
<1>3. FeedItems \in Nat
  BY MeritAssumption
<1> PICK x, y, u, v : x = CitedShare(p) /\ y = CitedShare(q) /\ u = HalfLifeUptime(p) /\ v = HalfLifeUptime(q)
  OBVIOUS
<1>4. x \in Int /\ y \in Int /\ x <= y /\ u \in Int /\ v \in Int /\ u <= v
  BY <1>2
<1> PICK m : m = 1000 * 1000
  OBVIOUS
<1>5. m \in Int
  OBVIOUS
<1>6. \A b : Earned(p, b) => Earned(q, b)
  BY <1>1, <1>2, <1>3, <1>4, <1>5 DEF Earned
<1> QED BY <1>6, BadgesEarned

\* With typed rows and bounded records merit follows.
LEMMA MeritAtAll == MInv => MeritFollows
<1> SUFFICES ASSUME MInv, NEW a \in Known, NEW b \in Known, NoWorse(peers[a], peers[b])
             PROVE  /\ TierRank(peers[a], BestExpertise(a))
                         <= TierRank(peers[b], Greater(BestExpertise(a), BestExpertise(b)))
                    /\ Badges(peers[a], {}) \subseteq Badges(peers[b], {})
  BY DEF MeritFollows
<1> PICK p, q : p = peers[a] /\ q = peers[b]
  OBVIOUS
<1> PICK d, f : d = BestExpertise(a) /\ f = BestExpertise(b)
  OBVIOUS
<1>1. p \in PeerRow /\ q \in PeerRow /\ Decay[p.silent] \in Nat /\ Decay[q.silent] \in Nat
  BY DEF MInv, RowsOK, Known
<1>2. d \in Int /\ f \in Int
  BY BestIsNumber DEF MInv, Known
<1>3. Greater(d, f) \in Int /\ d <= Greater(d, f)
  BY <1>2 DEF Greater
<1> QED BY <1>1, <1>2, <1>3, SharesAreNumbers, NoWorseRank, NoWorseBadges

\* Whatever is observed of peers in whatever order, a peer that is no worse in every column
\* has at least the tier and the badges of the other (badges.py:182-199, 202-400).
THEOREM MeritAlwaysFollows == MeritSpec => []MeritFollows
<1>1. MeritInit => MInv
  BY RecordsStart DEF MeritInit, MInv, RowsOK, Known
<1>2. MInv /\ [MeritNext]_<<expertiseVars, meritVars>> => MInv'
  <2> SUFFICES ASSUME MInv, [MeritNext]_<<expertiseVars, meritVars>> PROVE MInv'
    OBVIOUS
  <2>1. ASSUME NEW k \in Nodes, Observe(k) PROVE MInv'
    <3>1. PICK row \in Rows : peers' = [peers EXCEPT ![k] = row]
      BY <2>1 DEF Observe
    <3>2. row \in PeerRow /\ Decay[row.silent] \in Nat
      BY MeritAssumption
    <3>3. RowsOK'
      BY <3>1, <3>2 DEF MInv, RowsOK, Known
    <3>4. IInv'
      BY <2>1, RecordsKept DEF Observe, MInv
    <3> QED BY <3>3, <3>4 DEF MInv
  <2>2. ASSUME [ExpertiseNext]_expertiseVars, UNCHANGED meritVars PROVE MInv'
    BY <2>2, RecordsKept DEF MInv, RowsOK, Known, meritVars
  <2> QED BY <2>1, <2>2 DEF MeritNext
<1> QED BY <1>1, <1>2, MeritAtAll, PTL DEF MeritSpec

\* An authority with grounded violations is always counted, and only heads or a clean report of
\* another authority bring the score to zero against it (consensus.py:136-141, 186-198).
THEOREM GalileoAlwaysHeard == Spec => []GalileoHeard
  BY ConsensusTyped, Galileo, PTL

\* While the honest are within the tolerance of one another and hold more than half of the
\* weight, nothing that others attest, and how often, moves the score out of their range or
\* one of them out of the count, but heads for satire or evidence (consensus.py:109-198).
THEOREM HonestAlwaysHold == Spec => []HonestRange
  BY ConsensusTyped, HonestHold, PTL

-----------------------------------------------------------------------------
\* Only anchors are counted, and every content has its count.
ApprovalsOK == approvals \in [Ballots -> SUBSET Anchors]

-----------------------------------------------------------------------------
(***************************************************************************)
(* Two subsets of a finite set that overlap by what they have in excess of *)
(* it.                                                                     *)
(***************************************************************************)
LEMMA Overlap ==
    ASSUME NEW S, IsFiniteSet(S), NEW A \in SUBSET S, NEW B \in SUBSET S
    PROVE  /\ Cardinality(S) \in Nat /\ Cardinality(A) \in Nat /\ Cardinality(B) \in Nat
           /\ Cardinality(A \cap B) \in Nat
           /\ Cardinality(A \cap B) >= Cardinality(A) + Cardinality(B) - Cardinality(S)
<1>1. IsFiniteSet(A) /\ IsFiniteSet(B) /\ IsFiniteSet(A \cap B)
  BY FS_Subset
<1>2. Cardinality(S) \in Nat /\ Cardinality(A) \in Nat /\ Cardinality(B) \in Nat
      /\ Cardinality(A \cap B) \in Nat
  BY <1>1, FS_CardinalityType
<1>3. Cardinality(A \cup B) = Cardinality(A) + Cardinality(B) - Cardinality(A \cap B)
  BY <1>1, FS_Union
<1>4. IsFiniteSet(A \cup B) /\ Cardinality(A \cup B) <= Cardinality(S)
  <2>1. A \cup B \subseteq S
    OBVIOUS
  <2> QED BY <2>1, FS_Subset
<1>5. Cardinality(A \cup B) \in Nat
  BY <1>4, FS_CardinalityType
<1> QED BY <1>2, <1>3, <1>4, <1>5

\* The arithmetic of two quorums: twice 66.7 % is more than one and a third.
LEMMA TwoQuorums ==
    ASSUME NEW n \in Nat, NEW b \in Nat, NEW c \in Nat, NEW both \in Nat,
           both >= b + c - n, n > 0, 1000 * b >= 667 * n, 1000 * c >= 667 * n
    PROVE  3 * both > n
OBVIOUS

-----------------------------------------------------------------------------
\* Only approvals of anchors are counted, whoever approves what and how often.
THEOREM ApprovalsTyped == RatificationSpec => []ApprovalsOK
<1>1. RatificationInit => ApprovalsOK
  BY DEF RatificationInit, ApprovalsOK
<1>2. ApprovalsOK /\ [RatificationNext]_ratificationVars => ApprovalsOK'
  <2> SUFFICES ASSUME ApprovalsOK, [RatificationNext]_ratificationVars
               PROVE  ApprovalsOK'
    OBVIOUS
  <2>1. ASSUME NEW a \in Anchors, NEW b \in Ballots, Approve(a, b)
        PROVE  ApprovalsOK'
    BY <2>1 DEF Approve, ApprovalsOK
  <2>2. CASE UNCHANGED ratificationVars
    BY <2>2 DEF ratificationVars, ApprovalsOK
  <2> QED BY <2>1, <2>2 DEF RatificationNext
<1> QED BY <1>1, <1>2, PTL DEF RatificationSpec

\* Two contents that both have their quorum share more than a third of the anchors
\* (rfc.py:163-170).
THEOREM QuorumsAlwaysIntersect == RatificationSpec => []QuorumsIntersect
<1>1. ApprovalsOK => QuorumsIntersect
  <2> SUFFICES ASSUME ApprovalsOK, NEW b \in Ballots, NEW c \in Ballots,
                      ByzantineQuorum(Cardinality(approvals[b]), Cardinality(Anchors)),
                      ByzantineQuorum(Cardinality(approvals[c]), Cardinality(Anchors))
               PROVE  3 * Cardinality(approvals[b] \cap approvals[c]) > Cardinality(Anchors)
    BY DEF QuorumsIntersect
  <2> DEFINE n == Cardinality(Anchors)
             yes(d) == Cardinality(approvals[d])
             both == Cardinality(approvals[b] \cap approvals[c])
  <2>1. approvals[b] \in SUBSET Anchors /\ approvals[c] \in SUBSET Anchors
    BY DEF ApprovalsOK
  <2>2. n \in Nat /\ yes(b) \in Nat /\ yes(c) \in Nat /\ both \in Nat /\ both >= yes(b) + yes(c) - n
    BY <2>1, Overlap, RatificationAssumption
  <2>3. n > 0 /\ 1000 * yes(b) >= 667 * n /\ 1000 * yes(c) >= 667 * n
    BY DEF ByzantineQuorum
  <2> HIDE DEF n, yes, both
  <2>4. 3 * both > n
    BY <2>2, <2>3, TwoQuorums
  <2> QED BY <2>4 DEF n, both
<1> QED BY <1>1, ApprovalsTyped, PTL

-----------------------------------------------------------------------------
\* The gossip relay.
\* A sum of numbers, unfolded element by element as MapThenFoldSet does.
RecOf(f, S, g) == g = [s \in SUBSET S |-> IF s = {} THEN 0 ELSE f[Chosen(s)] + g[s \ {Chosen(s)}]]

\* Numbers as weights.
Weights(f, S) == [x \in S |-> [weight |-> f[x]]]
Numbers(f, S) == \A x \in S : f[x] \in Nat

\* SumOf is the value of the recursive function that sums the elements up.
LEMMA SumIsRec == ASSUME NEW f, NEW S PROVE SumOf(f, S) = (CHOOSE g : RecOf(f, S, g))[S]
  BY DEF SumOf, MapThenSumSet, MapThenFoldSet, Chosen, RecOf

\* That function is the one by which weights are summed up.
LEMMA SameRec ==
    ASSUME NEW f, NEW S, NEW A, S \subseteq A, NEW g
    PROVE  RecOf(f, S, g) <=> Rec(Weights(f, A), S, g)
<1> PICK p : p = Weights(f, A)
  OBVIOUS
<1>1. \A s \in SUBSET S : s # {} => f[Chosen(s)] = p[Chosen(s)].weight
  <2> SUFFICES ASSUME NEW s \in SUBSET S, s # {} PROVE f[Chosen(s)] = p[Chosen(s)].weight
    OBVIOUS
  <2>1. Chosen(s) \in A
    BY ChosenIn
  <2> QED BY <2>1 DEF Weights
<1>2. [s \in SUBSET S |-> IF s = {} THEN 0 ELSE f[Chosen(s)] + g[s \ {Chosen(s)}]]
        = [s \in SUBSET S |-> IF s = {} THEN 0 ELSE p[Chosen(s)].weight + g[s \ {Chosen(s)}]]
  BY <1>1
<1> QED BY <1>2 DEF Rec, RecOf

\* A sum of numbers is the weight of as many rows.
LEMMA SumIsWeight ==
    ASSUME NEW f, NEW S, IsFiniteSet(S), NEW A, S \subseteq A
    PROVE  SumOf(f, S) = Weight(Weights(f, A), S)
<1> PICK p : p = Weights(f, A)
  OBVIOUS
<1> DEFINE g == CHOOSE g : Rec(p, S, g)
           h == CHOOSE h : RecOf(f, S, h)
<1>1. Rec(p, S, g)
  BY RecExists
<1>2. RecOf(f, S, h)
  <2>1. RecOf(f, S, g)
    BY <1>1, SameRec
  <2> HIDE DEF g
  <2> QED BY <2>1
<1>3. Rec(p, S, h)
  BY <1>2, SameRec
<1>4. SumOf(f, S) = h[S] /\ Weight(p, S) = g[S]
  BY SumIsRec, WeightIsRec
<1> HIDE DEF g, h
<1>5. h[S] = g[S]
  BY <1>1, <1>3, RecUnique
<1> QED BY <1>4, <1>5

\* A sum of numbers is that of any one of them and of the rest.
LEMMA SumOfAny ==
    ASSUME NEW f, NEW S, IsFiniteSet(S), Numbers(f, S)
    PROVE  /\ SumOf(f, S) \in Nat /\ (S = {} => SumOf(f, S) = 0)
           /\ \A x \in S : SumOf(f, S \ {x}) \in Nat /\ SumOf(f, S) = f[x] + SumOf(f, S \ {x})
<1> PICK p : p = Weights(f, S)
  OBVIOUS
<1>1. Weighty(p, S) /\ \A x \in S : p[x].weight = f[x]
  BY DEF Numbers, Weighty, Weights
<1>2. SumOf(f, S) = Weight(p, S)
  BY SumIsWeight
<1>3. Weight(p, S) \in Nat /\ (S = {} => Weight(p, S) = 0)
  BY <1>1, WeightNat, WeightStep
<1>4. ASSUME NEW x \in S PROVE SumOf(f, S \ {x}) \in Nat /\ SumOf(f, S) = f[x] + SumOf(f, S \ {x})
  <2>1. IsFiniteSet(S \ {x}) /\ Weighty(p, S \ {x})
    BY <1>1, FS_Subset DEF Weighty
  <2>2. SumOf(f, S \ {x}) = Weight(p, S \ {x})
    BY <2>1, SumIsWeight
  <2>3. Weight(p, S) = p[x].weight + Weight(p, S \ {x})
    BY <1>1, WeightOfAny
  <2>4. Weight(p, S \ {x}) \in Nat
    BY <2>1, WeightNat
  <2> QED BY <1>1, <1>2, <2>2, <2>3, <2>4
<1> QED BY <1>2, <1>3, <1>4

\* h is at most f, and g beside it on B.
Spread(h, f, g, B, S) == \A x \in S : h[x] <= f[x] + (IF x \in B THEN g[x] ELSE 0)

\* Where h is at most f, and g beside it on B, its sum is at most theirs.
LEMMA SumSpread ==
    ASSUME NEW S, IsFiniteSet(S), NEW f, NEW g, NEW h, Numbers(f, S), Numbers(h, S),
           NEW B \in SUBSET S, Numbers(g, B), Spread(h, f, g, B, S)
    PROVE  SumOf(h, S) <= SumOf(f, S) + SumOf(g, B)
<1> DEFINE Good == {T \in SUBSET S : SumOf(h, T) <= SumOf(f, T) + SumOf(g, T \cap B)}
<1>0. ASSUME NEW T \in SUBSET S
      PROVE  /\ IsFiniteSet(T) /\ Numbers(f, T) /\ Numbers(h, T)
             /\ IsFiniteSet(T \cap B) /\ Numbers(g, T \cap B)
  BY FS_Subset DEF Numbers
<1>1. {} \in Good
  <2>1. IsFiniteSet({}) /\ Numbers(f, {}) /\ Numbers(g, {}) /\ Numbers(h, {})
    BY FS_EmptySet DEF Numbers
  <2>2. SumOf(f, {}) = 0 /\ SumOf(g, {}) = 0 /\ SumOf(h, {}) = 0
    BY <2>1, SumOfAny
  <2> QED BY <2>2
<1>2. ASSUME NEW T \in SUBSET S, T # {}, \A x \in T : T \ {x} \in Good PROVE T \in Good
  <2>1. PICK x \in T : TRUE
    BY <1>2
  <2> PICK R : R = T \ {x}
    OBVIOUS
  <2>2. SumOf(h, R) <= SumOf(f, R) + SumOf(g, R \cap B)
    BY <1>2
  <2>3. SumOf(h, T) = h[x] + SumOf(h, R) /\ SumOf(h, R) \in Nat
    BY <1>0, SumOfAny
  <2>4. SumOf(f, T) = f[x] + SumOf(f, R) /\ SumOf(f, R) \in Nat
    BY <1>0, SumOfAny
  <2>5. h[x] \in Nat /\ f[x] \in Nat /\ h[x] <= f[x] + (IF x \in B THEN g[x] ELSE 0)
    BY DEF Numbers, Spread
  <2> PICK t, r : t = SumOf(g, T \cap B) /\ r = SumOf(g, R \cap B)
    OBVIOUS
  <2>6. r \in Nat
    <3>1. R \in SUBSET S
      OBVIOUS
    <3> QED BY <1>0, <3>1, SumOfAny
  <2>7. t = r + (IF x \in B THEN g[x] ELSE 0)
    <3>1. CASE x \in B
      <4>1. x \in T \cap B /\ (T \cap B) \ {x} = R \cap B
        BY <3>1
      <4>2. g[x] \in Nat
        BY <3>1 DEF Numbers
      <4>3. SumOf(g, T \cap B) = g[x] + SumOf(g, (T \cap B) \ {x})
        BY <1>0, <4>1, SumOfAny
      <4> QED BY <2>6, <3>1, <4>1, <4>2, <4>3
    <3>2. CASE x \notin B
      <4>1. T \cap B = R \cap B
        BY <3>2
      <4> QED BY <2>6, <3>2, <4>1
    <3> QED BY <3>1, <3>2
  <2>8. x \in B => g[x] \in Nat
    BY DEF Numbers
  <2> PICK hr, fr, hx, fx, gx : /\ hr = SumOf(h, R) /\ fr = SumOf(f, R) /\ hx = h[x] /\ fx = f[x]
                                /\ gx = (IF x \in B THEN g[x] ELSE 0)
    OBVIOUS
  <2>9. /\ hr \in Nat /\ fr \in Nat /\ hx \in Nat /\ fx \in Nat /\ gx \in Nat /\ r \in Nat /\ t = r + gx
        /\ hr <= fr + r /\ hx <= fx + gx
    BY <2>2, <2>3, <2>4, <2>5, <2>6, <2>7, <2>8
  <2>a. hx + hr <= (fx + fr) + t
    BY ONLY <2>9
  <2>b. SumOf(h, T) <= SumOf(f, T) + SumOf(g, T \cap B)
    BY <2>3, <2>4, <2>a
  <2> QED BY <2>b
<1> HIDE DEF Good
<1>3. S \in Good
  <2>1. \A T \in SUBSET S : T \in Good
    BY ONLY IsFiniteSet(S), <1>1, <1>2, SetInduction
  <2> QED BY <2>1
<1>4. S \cap B = B
  OBVIOUS
<1> QED BY <1>3, <1>4 DEF Good

\* Smaller numbers have a smaller sum.
LEMMA SumOfLess ==
    ASSUME NEW S, IsFiniteSet(S), NEW f, NEW h, Numbers(f, S), Numbers(h, S), \A x \in S : h[x] <= f[x]
    PROVE  SumOf(h, S) <= SumOf(f, S)
<1>1. Spread(h, f, f, {}, S) /\ Numbers(f, {}) /\ IsFiniteSet({})
  <2>1. \A x \in S : h[x] \in Nat /\ f[x] \in Nat
    BY DEF Numbers
  <2> QED BY <2>1, FS_EmptySet DEF Spread, Numbers
<1>2. SumOf(h, S) <= SumOf(f, S) + SumOf(f, {})
  BY <1>1, SumSpread
<1>3. SumOf(f, {}) = 0 /\ SumOf(f, S) \in Nat
  BY <1>1, SumOfAny
<1> QED BY <1>2, <1>3

\* Where one number is smaller by v and none is greater, the sum is smaller by v.
LEMMA SumDrops ==
    ASSUME NEW S, IsFiniteSet(S), NEW f, NEW h, Numbers(f, S), Numbers(h, S), NEW x \in S, NEW v \in Nat,
           h[x] + v <= f[x], \A y \in S \ {x} : h[y] <= f[y]
    PROVE  SumOf(h, S) + v <= SumOf(f, S)
<1> PICK R : R = S \ {x}
  OBVIOUS
<1>1. IsFiniteSet(R) /\ Numbers(f, R) /\ Numbers(h, R)
  BY FS_Subset DEF Numbers
<1>2. SumOf(h, R) <= SumOf(f, R)
  BY <1>1, SumOfLess
<1>3. SumOf(h, S) = h[x] + SumOf(h, R) /\ SumOf(f, S) = f[x] + SumOf(f, R)
  BY SumOfAny
<1>4. SumOf(h, R) \in Nat /\ SumOf(f, R) \in Nat /\ h[x] \in Nat /\ f[x] \in Nat
  BY <1>1, SumOfAny DEF Numbers
<1> PICK hr, fr, hx, fx : hr = SumOf(h, R) /\ fr = SumOf(f, R) /\ hx = h[x] /\ fx = f[x]
  OBVIOUS
<1>5. hr \in Nat /\ fr \in Nat /\ hx \in Nat /\ fx \in Nat /\ v \in Nat /\ hx + v <= fx /\ hr <= fr
  BY <1>2, <1>4
<1>6. (hx + hr) + v <= fx + fr
  BY ONLY <1>5
<1> QED BY <1>3, <1>6

\* The same numbers have the same sum.
LEMMA SumOfSame ==
    ASSUME NEW S, IsFiniteSet(S), NEW f, NEW h, Numbers(f, S), Numbers(h, S), \A x \in S : h[x] = f[x]
    PROVE  SumOf(h, S) = SumOf(f, S)
<1>0. \A x \in S : h[x] \in Nat /\ f[x] \in Nat
  BY DEF Numbers
<1>1. \A x \in S : h[x] <= f[x] /\ f[x] <= h[x]
  BY <1>0
<1>2. SumOf(h, S) <= SumOf(f, S) /\ SumOf(f, S) <= SumOf(h, S)
  BY <1>1, SumOfLess
<1>3. SumOf(h, S) \in Nat /\ SumOf(f, S) \in Nat
  BY SumOfAny
<1> QED BY <1>2, <1>3

\* One sequence is the other from its second place on.
Shifts(z, y, m) == \A i \in 1..m : z[i] = y[i + 1]

-----------------------------------------------------------------------------
\* What the numbers of a sequence sum up to.
Worths(z) == SumOf(z, DOMAIN z)

\* A sequence of numbers sums up to a number.
LEMMA WorthsNat ==
    ASSUME NEW z \in Seq(Nat)
    PROVE  IsFiniteSet(DOMAIN z) /\ Numbers(z, DOMAIN z) /\ Worths(z) \in Nat
<1>1. Len(z) \in Nat /\ DOMAIN z = 1..Len(z) /\ \A i \in 1..Len(z) : z[i] \in Nat
  OBVIOUS
<1>2. IsFiniteSet(1..Len(z))
  BY <1>1, FS_Interval
<1>3. IsFiniteSet(DOMAIN z) /\ Numbers(z, DOMAIN z)
  BY <1>1, <1>2 DEF Numbers
<1> QED BY <1>3, SumOfAny DEF Worths

\* An empty sequence sums up to nothing.
LEMMA WorthsEmpty == Worths(<<>>) = 0
<1>1. <<>> \in Seq(Nat) /\ DOMAIN <<>> = {}
  OBVIOUS
<1> QED BY <1>1, WorthsNat, SumOfAny DEF Worths

\* A number appended adds itself.
LEMMA WorthsAppend ==
    ASSUME NEW z \in Seq(Nat), NEW v \in Nat
    PROVE  Worths(Append(z, v)) = Worths(z) + v
<1> PICK y : y = Append(z, v)
  OBVIOUS
<1> PICK m : m = Len(z)
  OBVIOUS
<1>1. /\ m \in Nat /\ y \in Seq(Nat) /\ DOMAIN y = 1..(m + 1) /\ DOMAIN z = 1..m /\ y[m + 1] = v
      /\ \A i \in 1..m : y[i] = z[i]
  OBVIOUS
<1>2. IsFiniteSet(DOMAIN y) /\ Numbers(y, DOMAIN y) /\ IsFiniteSet(DOMAIN z) /\ Numbers(z, DOMAIN z)
  BY <1>1, WorthsNat
<1>3. m + 1 \in DOMAIN y /\ DOMAIN y \ {m + 1} = DOMAIN z
  BY <1>1
<1>4. Numbers(y, DOMAIN z) /\ \A i \in DOMAIN z : y[i] = z[i]
  BY <1>1, <1>2 DEF Numbers
<1>5. SumOf(y, DOMAIN y) = y[m + 1] + SumOf(y, DOMAIN z)
  <2> PICK D, E : D = DOMAIN y /\ E = DOMAIN z
    OBVIOUS
  <2>1. \A i \in D : SumOf(y, D) = y[i] + SumOf(y, D \ {i})
    BY ONLY <1>2, D = DOMAIN y, SumOfAny
  <2> QED BY <1>3, <2>1
<1>6. SumOf(y, DOMAIN z) = SumOf(z, DOMAIN z)
  BY <1>2, <1>4, SumOfSame
<1>7. SumOf(z, DOMAIN z) \in Nat
  BY <1>2, SumOfAny
<1> QED BY <1>1, <1>5, <1>6, <1>7 DEF Worths

\* Shifting the places of numbers does not change their sum.
LEMMA SumShifts ==
    ASSUME NEW m \in Nat, NEW z, NEW y, Numbers(z, 1..m), Numbers(y, 2..(m + 1)), Shifts(z, y, m)
    PROVE  SumOf(z, 1..m) = SumOf(y, 2..(m + 1))
<1> DEFINE Next1(T) == {i + 1 : i \in T}
           Good == {T \in SUBSET (1..m) : SumOf(z, T) = SumOf(y, Next1(T))}
<1>0. IsFiniteSet(1..m)
  BY FS_Interval
<1>a. ASSUME NEW T \in SUBSET (1..m)
      PROVE  IsFiniteSet(T) /\ Numbers(z, T) /\ IsFiniteSet(Next1(T)) /\ Numbers(y, Next1(T))
  <2>1. IsFiniteSet(T) /\ Numbers(z, T)
    BY <1>0, FS_Subset DEF Numbers
  <2>2. Next1(T) \in SUBSET (2..(m + 1))
    OBVIOUS
  <2>3. IsFiniteSet(2..(m + 1))
    BY FS_Interval
  <2> HIDE DEF Next1
  <2>4. IsFiniteSet(Next1(T)) /\ Numbers(y, Next1(T))
    BY <2>2, <2>3, FS_Subset DEF Numbers
  <2> QED BY <2>1, <2>4
<1>1. {} \in Good
  <2>1. Next1({}) = {}
    OBVIOUS
  <2>2. SumOf(z, {}) = 0 /\ SumOf(y, Next1({})) = 0
    BY <1>a, <2>1, SumOfAny
  <2> QED BY <2>2
<1>2. ASSUME NEW T \in SUBSET (1..m), T # {}, \A x \in T : T \ {x} \in Good PROVE T \in Good
  <2>1. PICK x \in T : TRUE
    BY <1>2
  <2>a. T \subseteq Int /\ x + 1 \in Next1(T)
    OBVIOUS
  <2>b. \A i \in T : i + 1 = x + 1 => i = x
    BY <2>a
  <2>2. x + 1 \in Next1(T) /\ Next1(T) \ {x + 1} = Next1(T \ {x})
    BY <2>a, <2>b
  <2>3. z[x] = y[x + 1]
    BY DEF Shifts
  <2>4. SumOf(z, T \ {x}) = SumOf(y, Next1(T \ {x}))
    BY <1>2
  <2> HIDE DEF Next1
  <2>5. SumOf(z, T) = z[x] + SumOf(z, T \ {x})
    BY <1>a, SumOfAny
  <2>6. SumOf(y, Next1(T)) = y[x + 1] + SumOf(y, Next1(T) \ {x + 1})
    BY <1>a, <2>2, SumOfAny
  <2> QED BY <2>2, <2>3, <2>4, <2>5, <2>6
<1>3. Next1(1..m) = 2..(m + 1)
  <2>1. ASSUME NEW i \in 2..(m + 1) PROVE i \in Next1(1..m)
    <3>1. i - 1 \in 1..m /\ i = (i - 1) + 1
      OBVIOUS
    <3> QED BY ONLY <3>1
  <2>2. Next1(1..m) \subseteq 2..(m + 1)
    OBVIOUS
  <2> HIDE DEF Next1
  <2> QED BY ONLY <2>1, <2>2
<1> HIDE DEF Good, Next1
<1>4. \A T \in SUBSET (1..m) : T \in Good
  BY ONLY <1>0, <1>1, <1>2, SetInduction
<1>5. 1..m \in Good
  BY <1>4
<1> QED BY <1>3, <1>5 DEF Good

\* The sum of a sequence is that of its head and its tail.
LEMMA WorthsTail ==
    ASSUME NEW z \in Seq(Nat), z # <<>>
    PROVE  Tail(z) \in Seq(Nat) /\ z[1] \in Nat /\ Worths(z) = z[1] + Worths(Tail(z))
<1> PICK y : y = Tail(z)
  OBVIOUS
<1> PICK m : m = Len(z) - 1
  OBVIOUS
<1>1. /\ m \in Nat /\ y \in Seq(Nat) /\ DOMAIN z = 1..(m + 1) /\ DOMAIN y = 1..m /\ z[1] \in Nat
      /\ \A i \in 1..m : y[i] = z[i + 1]
  OBVIOUS
<1>2. IsFiniteSet(DOMAIN y) /\ Numbers(y, DOMAIN y) /\ IsFiniteSet(DOMAIN z) /\ Numbers(z, DOMAIN z)
  BY <1>1, WorthsNat
<1>3. 1 \in DOMAIN z /\ DOMAIN z \ {1} = 2..(m + 1)
  BY <1>1
<1>4. Numbers(z, 2..(m + 1)) /\ Numbers(y, 1..m) /\ Shifts(y, z, m)
  <2>1. 2..(m + 1) \subseteq DOMAIN z
    BY <1>3
  <2> QED BY <1>1, <1>2, <2>1 DEF Numbers, Shifts
<1>5. SumOf(z, DOMAIN z) = z[1] + SumOf(z, 2..(m + 1))
  BY <1>2, <1>3, SumOfAny
<1>6. SumOf(y, 1..m) = SumOf(z, 2..(m + 1))
  BY <1>1, <1>4, SumShifts
<1> QED BY <1>1, <1>5, <1>6 DEF Worths

-----------------------------------------------------------------------------
\* What holds of zero and is handed on holds up to any bound.
LEMMA Upward ==
    ASSUME NEW m \in Nat, NEW G, 0 \in G, \A k \in 0..m : k < m /\ k \in G => k + 1 \in G
    PROVE  \A k \in 0..m : k \in G
<1> DEFINE Bad == {k \in 0..m : k \notin G}
<1> SUFFICES ASSUME Bad # {} PROVE FALSE
  OBVIOUS
<1>1. Bad \in SUBSET Nat /\ IsFiniteSet(Bad)
  <2>1. IsFiniteSet(0..m)
    BY FS_Interval
  <2> QED BY <2>1, FS_Subset
<1>2. PICK b \in Bad : \A k \in Bad : b <= k
  <2> HIDE DEF Bad
  <2> QED BY <1>1, Least
<1>3. b \in 1..m
  BY <1>2
<1>4. b - 1 \in 0..m /\ b - 1 < m /\ (b - 1) + 1 = b /\ ~(b <= b - 1)
  BY <1>3
<1>5. b - 1 \in G
  BY <1>2, <1>4
<1>6. b \in G
  BY <1>4, <1>5
<1> QED BY <1>2, <1>6

\* There are finitely many ways; each leads over a link to a node.
LEMMA WaysFinite ==
    /\ IsFiniteSet(Ways)
    /\ \A w \in Ways : w[1] \in Links /\ w[2] \in Relays /\ Onward(w) \in SUBSET Ways
<1>1. IsFiniteSet(Relays) /\ Links \subseteq (Relays \X Relays)
  BY MeshAssumption
<1>2. IsFiniteSet(Relays \X Relays)
  BY <1>1, FS_Product
<1>3. IsFiniteSet(Links)
  BY <1>1, <1>2, FS_Subset
<1>4. IsFiniteSet(Links \X Relays)
  BY <1>1, <1>3, FS_Product
<1>5. Ways \subseteq (Links \X Relays)
  BY DEF Ways
<1>6. IsFiniteSet(Ways)
  BY <1>4, <1>5, FS_Subset
<1> QED BY <1>5, <1>6 DEF Onward

\* Walks of one way more.
Longer(k, less) ==
    [n \in Relays |-> [w \in Ways |->
        IF k = 0 THEN 0
        ELSE (IF w[2] = n THEN 1 ELSE 0) + SumOf(less[n], Onward(w))]]
\* f counts the walks of up to m ways.
IsWalks(f, m) == f = [k \in 0..m |-> Longer(k, f[k - 1])]

\* There is such a function for every number of ways, one way at a time.
LEMMA WalksExist == ASSUME NEW m \in Nat PROVE \E f : IsWalks(f, m)
<1> DEFINE G == {k \in 0..m : \E f : IsWalks(f, k)}
<1>1. 0 \in G
  <2> PICK z : z = Longer(0, <<>>)
    OBVIOUS
  <2>1. \A x : Longer(0, x) = z
    BY DEF Longer
  <2> DEFINE f == [k \in 0..0 |-> z]
  <2>2. \A k \in 0..0 : k = 0
    OBVIOUS
  <2>3. f = [k \in 0..0 |-> Longer(k, f[k - 1])]
    BY <2>1, <2>2, Zenon
  <2>4. IsWalks(f, 0)
    BY <2>3 DEF IsWalks
  <2> QED BY <2>4
<1>2. ASSUME NEW k \in 0..m, k < m, k \in G PROVE k + 1 \in G
  <2>1. PICK g : IsWalks(g, k)
    BY <1>2
  <2> PICK z : z = Longer(k + 1, g[k])
    OBVIOUS
  <2> DEFINE f == [j \in 0..(k + 1) |-> IF j = k + 1 THEN z ELSE g[j]]
  <2>2. ASSUME NEW j \in 0..(k + 1) PROVE f[j] = Longer(j, f[j - 1])
    <3>1. CASE j = k + 1
      <4>1. f[j] = z
        BY <3>1
      <4>2. j - 1 = k /\ k \in 0..(k + 1) /\ k # k + 1
        BY <3>1
      <4>3. f[j - 1] = g[k]
        BY <4>2
      <4> HIDE DEF f
      <4> QED BY <3>1, <4>1, <4>3
    <3>2. CASE j = 0
      <4>1. f[j] = g[j] /\ j \in 0..k
        BY <3>2
      <4>2. g[j] = Longer(j, g[j - 1])
        BY <2>1, <4>1 DEF IsWalks
      <4>3. Longer(j, g[j - 1]) = Longer(j, f[j - 1])
        BY <3>2 DEF Longer
      <4> HIDE DEF f
      <4> QED BY <4>1, <4>2, <4>3
    <3>3. CASE j # 0 /\ j # k + 1
      <4>1. j \in 0..k /\ j - 1 \in 0..(k + 1) /\ j - 1 # k + 1
        BY <3>3
      <4>2. f[j] = g[j] /\ f[j - 1] = g[j - 1]
        BY <3>3, <4>1
      <4>3. g[j] = Longer(j, g[j - 1])
        BY <2>1, <4>1 DEF IsWalks
      <4> HIDE DEF f
      <4> QED BY <4>2, <4>3
    <3> QED BY <3>1, <3>2, <3>3
  <2>3. f = [j \in 0..(k + 1) |-> f[j]]
    OBVIOUS
  <2> HIDE DEF f
  <2>4. IsWalks(f, k + 1)
    BY <2>2, <2>3 DEF IsWalks
  <2>5. k + 1 \in 0..m
    BY <1>2
  <2> QED BY <2>4, <2>5
<1> HIDE DEF G
<1>3. m \in G
  BY <1>1, <1>2, Upward
<1> QED BY <1>3 DEF G

\* Walks is such a function.
LEMMA WalksAre == IsWalks(Walks, Ttl + 1)
<1>1. Ttl + 1 \in Nat
  BY MeshAssumption
<1>2. Walks = CHOOSE f : f = [k \in 0..(Ttl + 1) |->
                 [n \in Relays |-> [w \in Ways |->
                    IF k = 0 THEN 0
                    ELSE (IF w[2] = n THEN 1 ELSE 0) + SumOf(f[k - 1][n], Onward(w))]]]
  BY DEF Walks
<1>3. Walks = CHOOSE f : IsWalks(f, Ttl + 1)
  BY <1>2 DEF IsWalks, Longer
<1> QED BY <1>1, <1>3, WalksExist

\* How many walks there are.
LEMMA WalksFacts ==
    ASSUME NEW n \in Relays
    PROVE  /\ \A k \in 0..(Ttl + 1) : Numbers(Walks[k][n], Ways)
           /\ \A k \in 0..Ttl, w \in Ways :
                Walks[k + 1][n][w] = (IF w[2] = n THEN 1 ELSE 0) + SumOf(Walks[k][n], Onward(w))
<1>0. Ttl \in Nat
  BY MeshAssumption
<1>1. \A k \in 0..(Ttl + 1) : Walks[k] = Longer(k, Walks[k - 1])
  BY WalksAre DEF IsWalks
<1>2. ASSUME NEW k \in 0..Ttl, NEW w \in Ways
      PROVE  Walks[k + 1][n][w] = (IF w[2] = n THEN 1 ELSE 0) + SumOf(Walks[k][n], Onward(w))
  <2>1. k + 1 \in 0..(Ttl + 1) /\ k + 1 # 0 /\ (k + 1) - 1 = k
    BY <1>0
  <2>2. Walks[k + 1] = Longer(k + 1, Walks[k])
    BY <1>1, <2>1
  <2>3. Longer(k + 1, Walks[k])[n][w] = (IF w[2] = n THEN 1 ELSE 0) + SumOf(Walks[k][n], Onward(w))
    BY <2>1 DEF Longer
  <2> QED BY <2>2, <2>3
<1>3. \A k \in 0..(Ttl + 1) : Numbers(Walks[k][n], Ways)
  <2> DEFINE G == {k \in 0..(Ttl + 1) : Numbers(Walks[k][n], Ways)}
  <2>1. 0 \in G
    <3>1. 0 \in 0..(Ttl + 1) /\ Walks[0] = Longer(0, Walks[0 - 1])
      BY <1>0, <1>1
    <3>2. \A x : \A w \in Ways : Longer(0, x)[n][w] = 0
      BY DEF Longer
    <3> QED BY <3>1, <3>2 DEF Numbers
  <2>2. ASSUME NEW k \in 0..(Ttl + 1), k < Ttl + 1, k \in G PROVE k + 1 \in G
    <3>1. k \in 0..Ttl /\ k + 1 \in 0..(Ttl + 1)
      BY <1>0, <2>2
    <3>2. ASSUME NEW w \in Ways PROVE Walks[k + 1][n][w] \in Nat
      <4>1. IsFiniteSet(Onward(w)) /\ Numbers(Walks[k][n], Onward(w))
        BY <2>2, WaysFinite, FS_Subset DEF Numbers
      <4>2. SumOf(Walks[k][n], Onward(w)) \in Nat
        BY <4>1, SumOfAny
      <4> QED BY <1>2, <3>1, <4>2
    <3> QED BY <3>1, <3>2 DEF Numbers
  <2> HIDE DEF G
  <2>3. Ttl + 1 \in Nat
    BY <1>0
  <2>4. \A k \in 0..(Ttl + 1) : k \in G
    BY <2>1, <2>2, <2>3, Upward
  <2> QED BY <2>4 DEF G
<1> QED BY <1>2, <1>3

-----------------------------------------------------------------------------
\* The walks that an envelope on a way may still take to n.
Promise(e, w, n, a) == IF e.attestation = a THEN Walks[e.ttl + 1][n][w] ELSE 0
Promises(q, w, n, a) == [i \in DOMAIN q |-> Promise(q[i], w, n, a)]
OnWay(wires, n, a) == [w \in Ways |-> Worths(Promises(wires[w], w, n, a))]
Due(wires, n, a) == SumOf(OnWay(wires, n, a), Ways)

Wires == [Ways -> Seq(Envelopes)]

\* A promise is a number.
LEMMA PromiseNat ==
    ASSUME NEW e \in Envelopes, NEW w \in Ways, NEW n \in Relays, NEW a
    PROVE  Promise(e, w, n, a) \in Nat
<1>1. e.ttl \in 0..Ttl /\ Ttl \in Nat
  BY MeshAssumption DEF Envelopes
<1>2. e.ttl + 1 \in 0..(Ttl + 1)
  BY <1>1
<1>3. Walks[e.ttl + 1][n][w] \in Nat
  BY <1>2, WalksFacts DEF Numbers
<1> QED BY <1>3 DEF Promise

\* The promises of the envelopes of a way, in their order.
LEMMA PromisesSeq ==
    ASSUME NEW q \in Seq(Envelopes), NEW w \in Ways, NEW n \in Relays, NEW a
    PROVE  Promises(q, w, n, a) \in Seq(Nat) /\ Len(Promises(q, w, n, a)) = Len(q)
<1>1. Len(q) \in Nat /\ DOMAIN q = 1..Len(q) /\ \A i \in 1..Len(q) : q[i] \in Envelopes
  OBVIOUS
<1>2. \A i \in 1..Len(q) : Promise(q[i], w, n, a) \in Nat
  BY <1>1, PromiseNat
<1> PICK p : p = Promises(q, w, n, a)
  OBVIOUS
<1>3. p = [i \in 1..Len(q) |-> Promise(q[i], w, n, a)]
  BY <1>1 DEF Promises
<1>4. p = [i \in 1..Len(q) |-> p[i]] /\ \A i \in 1..Len(q) : p[i] \in Nat
  BY <1>2, <1>3
<1>5. p \in Seq(Nat) /\ Len(p) = Len(q)
  BY <1>1, <1>4
<1> QED BY <1>5

\* An empty way promises nothing.
LEMMA WorthOfEmpty == ASSUME NEW w, NEW n, NEW a PROVE Worths(Promises(<<>>, w, n, a)) = 0
<1>1. Promises(<<>>, w, n, a) = <<>>
  BY DEF Promises
<1> QED BY <1>1, WorthsEmpty

\* An envelope put on a way adds its promise.
LEMMA WorthOfMore ==
    ASSUME NEW q \in Seq(Envelopes), NEW e \in Envelopes, NEW w \in Ways, NEW n \in Relays, NEW a
    PROVE  Worths(Promises(Append(q, e), w, n, a)) = Worths(Promises(q, w, n, a)) + Promise(e, w, n, a)
<1> PICK r : r = Append(q, e)
  OBVIOUS
<1>1. /\ r \in Seq(Envelopes) /\ Len(r) = Len(q) + 1 /\ Len(q) \in Nat /\ DOMAIN q = 1..Len(q)
      /\ DOMAIN r = 1..(Len(q) + 1) /\ r[Len(q) + 1] = e /\ \A i \in 1..Len(q) : r[i] = q[i]
  OBVIOUS
<1> PICK p, o, v : p = Promises(r, w, n, a) /\ o = Promises(q, w, n, a) /\ v = Promise(e, w, n, a)
  OBVIOUS
<1>2. o \in Seq(Nat) /\ p \in Seq(Nat) /\ v \in Nat /\ Len(o) = Len(q) /\ Len(p) = Len(q) + 1
  BY <1>1, PromisesSeq, PromiseNat
<1>3. \A i \in 1..Len(q) : p[i] = o[i]
  BY <1>1 DEF Promises
<1>4. p[Len(q) + 1] = v
  BY <1>1 DEF Promises
<1>5. p = Append(o, v)
  BY <1>1, <1>2, <1>3, <1>4
<1> QED BY <1>2, <1>5, WorthsAppend

\* An envelope taken from a way takes its promise with it.
LEMMA WorthOfRest ==
    ASSUME NEW q \in Seq(Envelopes), q # <<>>, NEW w \in Ways, NEW n \in Relays, NEW a
    PROVE  /\ Tail(q) \in Seq(Envelopes) /\ Head(q) \in Envelopes
           /\ Worths(Promises(q, w, n, a)) = Worths(Promises(Tail(q), w, n, a)) + Promise(Head(q), w, n, a)
<1> PICK r : r = Tail(q)
  OBVIOUS
<1>1. /\ r \in Seq(Envelopes) /\ Len(r) = Len(q) - 1 /\ Len(q) \in Nat \ {0} /\ DOMAIN q = 1..Len(q)
      /\ DOMAIN r = 1..(Len(q) - 1) /\ Head(q) = q[1] /\ \A i \in 1..(Len(q) - 1) : r[i] = q[i + 1]
  OBVIOUS
<1>a. 1 \in DOMAIN q /\ q[1] \in Envelopes
  BY <1>1
<1> PICK p, o, v : p = Promises(q, w, n, a) /\ o = Promises(r, w, n, a) /\ v = Promise(Head(q), w, n, a)
  OBVIOUS
<1>2. o \in Seq(Nat) /\ p \in Seq(Nat) /\ v \in Nat /\ Len(p) = Len(q) /\ Len(o) = Len(q) - 1
  BY <1>1, <1>a, PromisesSeq, PromiseNat
<1>3. \A i \in 1..(Len(q) - 1) : o[i] = p[i + 1]
  <2> SUFFICES ASSUME NEW i \in 1..(Len(q) - 1) PROVE o[i] = p[i + 1]
    OBVIOUS
  <2>1. i \in DOMAIN r /\ i + 1 \in DOMAIN q /\ r[i] = q[i + 1]
    BY <1>1
  <2> QED BY <2>1 DEF Promises
<1>4. p[1] = v
  BY <1>1, <1>a DEF Promises
<1>5. p # <<>> /\ o = Tail(p)
  <2>1. p # <<>> /\ Len(p) \in Nat \ {0}
    BY <1>1, <1>2
  <2> PICK t : t = Tail(p)
    OBVIOUS
  <2>2. t \in Seq(Nat) /\ Len(t) = Len(p) - 1 /\ \A i \in 1..(Len(p) - 1) : t[i] = p[i + 1]
    BY <1>2, <2>1
  <2>3. Len(o) = Len(t) /\ \A i \in 1..Len(o) : o[i] = t[i]
    BY <1>2, <1>3, <2>2
  <2>4. o = [i \in 1..Len(o) |-> o[i]] /\ t = [i \in 1..Len(t) |-> t[i]]
    BY ONLY <1>2, <2>2
  <2>5. o = t
    BY ONLY <2>3, <2>4
  <2> QED BY <2>1, <2>5
<1>6. Worths(p) = p[1] + Worths(o) /\ Worths(o) \in Nat
  BY <1>2, <1>5, WorthsTail, WorthsNat
<1> QED BY <1>1, <1>2, <1>4, <1>6, <1>a

\* What is due is a number.
LEMMA DueNat ==
    ASSUME NEW wires \in Wires, NEW n \in Relays, NEW a
    PROVE  Numbers(OnWay(wires, n, a), Ways) /\ Due(wires, n, a) \in Nat
<1>1. ASSUME NEW w \in Ways PROVE OnWay(wires, n, a)[w] \in Nat
  <2>1. wires[w] \in Seq(Envelopes)
    BY DEF Wires
  <2>2. Promises(wires[w], w, n, a) \in Seq(Nat)
    BY <2>1, PromisesSeq
  <2> QED BY <2>2, WorthsNat DEF OnWay
<1>2. Numbers(OnWay(wires, n, a), Ways)
  BY <1>1 DEF Numbers
<1> QED BY <1>2, WaysFinite, SumOfAny DEF Due

\* What is on the ways of links that close is lost.
LEMMA DueClosed ==
    ASSUME NEW wires \in Wires, NEW n \in Relays, NEW a, NEW S, NEW next,
           next = [w \in Ways |-> IF w[1] \in S THEN <<>> ELSE wires[w]]
    PROVE  next \in Wires /\ Due(next, n, a) <= Due(wires, n, a)
<1>1. next \in Wires
  <2>1. <<>> \in Seq(Envelopes)
    OBVIOUS
  <2> QED BY <2>1 DEF Wires
<1> PICK f, h : f = OnWay(wires, n, a) /\ h = OnWay(next, n, a)
  OBVIOUS
<1>2. Numbers(f, Ways) /\ Numbers(h, Ways) /\ IsFiniteSet(Ways)
  BY <1>1, DueNat, WaysFinite
<1>3. ASSUME NEW w \in Ways PROVE h[w] <= f[w]
  <2>1. f[w] \in Nat
    BY <1>2 DEF Numbers
  <2>2. h[w] = Worths(Promises(next[w], w, n, a)) /\ f[w] = Worths(Promises(wires[w], w, n, a))
    BY DEF OnWay
  <2>3. next[w] = wires[w] \/ next[w] = <<>>
    OBVIOUS
  <2>4. h[w] = f[w] \/ h[w] = 0
    BY <2>2, <2>3, WorthOfEmpty
  <2> QED BY <2>1, <2>4
<1>4. SumOf(h, Ways) <= SumOf(f, Ways)
  BY <1>2, <1>3, SumOfLess
<1> QED BY <1>1, <1>4 DEF Due

\* What is taken from a way is no longer due.
LEMMA DueTaken ==
    ASSUME NEW wires \in Wires, NEW n \in Relays, NEW a, NEW w \in Ways, wires[w] # <<>>, NEW next,
           next = [wires EXCEPT ![w] = Tail(@)]
    PROVE  /\ next \in Wires /\ Head(wires[w]) \in Envelopes
           /\ Due(next, n, a) + Promise(Head(wires[w]), w, n, a) <= Due(wires, n, a)
<1> PICK q : q = wires[w]
  OBVIOUS
<1>0. q \in Seq(Envelopes) /\ q # <<>>
  BY DEF Wires
<1>1. /\ Tail(q) \in Seq(Envelopes) /\ Head(q) \in Envelopes
      /\ Worths(Promises(q, w, n, a)) = Worths(Promises(Tail(q), w, n, a)) + Promise(Head(q), w, n, a)
  BY <1>0, WorthOfRest
<1>2. next \in Wires /\ next[w] = Tail(q) /\ \A x \in Ways \ {w} : next[x] = wires[x]
  BY <1>1 DEF Wires
<1> PICK f, h, v : f = OnWay(wires, n, a) /\ h = OnWay(next, n, a) /\ v = Promise(Head(q), w, n, a)
  OBVIOUS
<1>3. Numbers(f, Ways) /\ Numbers(h, Ways) /\ IsFiniteSet(Ways) /\ v \in Nat
  BY <1>1, <1>2, DueNat, WaysFinite, PromiseNat
<1>4. \A x \in Ways : h[x] = Worths(Promises(next[x], x, n, a)) /\ f[x] = Worths(Promises(wires[x], x, n, a))
  BY DEF OnWay
<1>5. f[w] = h[w] + v
  BY <1>1, <1>2, <1>4
<1>6. \A x \in Ways : h[x] \in Nat /\ f[x] \in Nat
  BY <1>3 DEF Numbers
<1>7. h[w] + v <= f[w]
  BY <1>3, <1>5, <1>6
<1>8. \A x \in Ways \ {w} : h[x] <= f[x]
  <2> SUFFICES ASSUME NEW x \in Ways \ {w} PROVE h[x] <= f[x]
    OBVIOUS
  <2>1. h[x] = f[x]
    BY <1>2, <1>4
  <2> QED BY <1>6, <2>1
<1>9. SumOf(h, Ways) + v <= SumOf(f, Ways)
  BY <1>3, <1>7, <1>8, SumDrops
<1> QED BY <1>1, <1>2, <1>9 DEF Due

\* An envelope is put on some of the ways of B.
Sends(wires, next, e, B) ==
    /\ next \in [Ways -> {next[v] : v \in Ways}]
    /\ \A v \in Ways : next[v] = wires[v] \/ (v \in B /\ next[v] = Append(wires[v], e))

\* What is sent is due on the ways it is put on.
LEMMA DueSent ==
    ASSUME NEW wires \in Wires, NEW n \in Relays, NEW a, NEW e \in Envelopes, NEW B \in SUBSET Ways,
           NEW next, Sends(wires, next, e, B)
    PROVE  /\ next \in Wires
           /\ Due(next, n, a) <= Due(wires, n, a) +
                (IF e.attestation = a THEN SumOf(Walks[e.ttl + 1][n], B) ELSE 0)
           /\ SumOf(Walks[e.ttl + 1][n], B) \in Nat
<1>1. next \in Wires
  <2>1. ASSUME NEW v \in Ways PROVE next[v] \in Seq(Envelopes)
    <3>1. wires[v] \in Seq(Envelopes)
      BY DEF Wires
    <3>2. Append(wires[v], e) \in Seq(Envelopes)
      BY <3>1
    <3> QED BY <3>1, <3>2 DEF Sends
  <2> QED BY <2>1 DEF Sends, Wires
<1> PICK f, h, g : f = OnWay(wires, n, a) /\ h = OnWay(next, n, a) /\ g = Walks[e.ttl + 1][n]
  OBVIOUS
<1>2. Numbers(f, Ways) /\ Numbers(h, Ways) /\ IsFiniteSet(Ways)
  BY <1>1, DueNat, WaysFinite
<1>3. Numbers(g, Ways)
  <2>1. e.ttl \in 0..Ttl /\ Ttl \in Nat
    BY MeshAssumption DEF Envelopes
  <2>2. e.ttl + 1 \in 0..(Ttl + 1)
    BY <2>1
  <2> QED BY <2>2, WalksFacts
<1>4. Numbers(g, B) /\ IsFiniteSet(B)
  BY <1>2, <1>3, FS_Subset DEF Numbers
<1>5. \A x \in Ways : h[x] = Worths(Promises(next[x], x, n, a)) /\ f[x] = Worths(Promises(wires[x], x, n, a))
  BY DEF OnWay
<1>6. \A x \in Ways : h[x] \in Nat /\ f[x] \in Nat /\ g[x] \in Nat
  BY <1>2, <1>3 DEF Numbers
<1>7. ASSUME NEW x \in Ways PROVE h[x] = f[x] \/ (x \in B /\ h[x] = f[x] + (IF e.attestation = a THEN g[x] ELSE 0))
  <2>1. CASE next[x] = wires[x]
    BY <1>5, <2>1
  <2>2. CASE x \in B /\ next[x] = Append(wires[x], e)
    <3>1. wires[x] \in Seq(Envelopes)
      BY DEF Wires
    <3>2. h[x] = f[x] + Promise(e, x, n, a)
      BY <1>5, <2>2, <3>1, WorthOfMore
    <3> QED BY <2>2, <3>2 DEF Promise
  <2> QED BY <2>1, <2>2 DEF Sends
<1>8. CASE e.attestation = a
  <2>1. ASSUME NEW x \in Ways PROVE h[x] <= f[x] + (IF x \in B THEN g[x] ELSE 0)
    <3>1. h[x] \in Nat /\ f[x] \in Nat /\ g[x] \in Nat
      BY <1>6
    <3>2. h[x] = f[x] \/ (x \in B /\ h[x] = f[x] + g[x])
      BY <1>7, <1>8
    <3> QED BY <3>1, <3>2
  <2>2. Spread(h, f, g, B, Ways)
    BY <2>1 DEF Spread
  <2>3. SumOf(h, Ways) <= SumOf(f, Ways) + SumOf(g, B)
    BY <1>2, <1>4, <2>2, SumSpread
  <2> QED BY <1>1, <1>4, <1>8, <2>3, SumOfAny DEF Due
<1>9. CASE e.attestation # a
  <2>1. ASSUME NEW x \in Ways PROVE h[x] <= f[x]
    <3>1. h[x] \in Nat /\ f[x] \in Nat
      BY <1>6
    <3>2. h[x] = f[x]
      <4>1. h[x] = f[x] \/ h[x] = f[x] + 0
        BY <1>7, <1>9
      <4> QED BY <3>1, <4>1
    <3> QED BY <3>1, <3>2
  <2>2. SumOf(h, Ways) <= SumOf(f, Ways)
    BY <1>2, <2>1, SumOfLess
  <2>3. SumOf(h, Ways) \in Nat /\ SumOf(f, Ways) \in Nat /\ SumOf(g, B) \in Nat
    BY <1>2, <1>4, SumOfAny
  <2> QED BY <1>1, <1>9, <2>2, <2>3 DEF Due
<1> QED BY <1>8, <1>9

-----------------------------------------------------------------------------
\* Accepted, on its way and yet to be announced.
Conserved ==
    \A n \in Relays, a \in Attestations :
        accepted[n][a] + Due(wire, n, a) + (IF sent[a] = "no" THEN WalksTo(Origin[a], n) ELSE 0)
            <= WalksTo(Origin[a], n)

RelayInv == MeshTypeOK /\ Conserved

\* The envelopes on their way have the type of the wires.
LEMMA WireTyped == ASSUME MeshTypeOK PROVE wire \in Wires
  BY DEF MeshTypeOK, Wires

\* The walks to a node are a number.
LEMMA WalksToNat == ASSUME NEW o \in Relays, NEW n \in Relays PROVE WalksTo(o, n) \in Nat
<1> PICK B : B = {w \in Ways : Sender(w) = o}
  OBVIOUS
<1>1. Ttl \in Nat /\ Ttl + 1 \in 0..(Ttl + 1)
  BY MeshAssumption
<1>2. Numbers(Walks[Ttl + 1][n], Ways)
  BY <1>1, WalksFacts
<1>3. IsFiniteSet(B) /\ Numbers(Walks[Ttl + 1][n], B)
  BY <1>2, WaysFinite, FS_Subset DEF Numbers
<1> QED BY <1>3, SumOfAny DEF WalksTo

\* Nothing is due when every way is empty.
LEMMA NothingDue ==
    ASSUME NEW n \in Relays, NEW a
    PROVE  Due([w \in Ways |-> <<>>], n, a) = 0
<1> PICK z : z = [w \in Ways |-> <<>>]
  OBVIOUS
<1>1. z \in Wires
  BY DEF Wires
<1>2. z = [w \in Ways |-> IF w[1] \in Links THEN <<>> ELSE z[w]]
  BY WaysFinite
<1> PICK h, f : h = OnWay(z, n, a) /\ f = [w \in Ways |-> 0]
  OBVIOUS
<1>3. \A w \in Ways : h[w] = 0
  BY WorthOfEmpty DEF OnWay
<1> DEFINE Good == {T \in SUBSET Ways : SumOf(h, T) = 0}
<1>4. ASSUME NEW T \in SUBSET Ways PROVE IsFiniteSet(T) /\ Numbers(h, T)
  BY <1>3, WaysFinite, FS_Subset DEF Numbers
<1>5. {} \in Good
  BY <1>4, SumOfAny
<1>6. ASSUME NEW T \in SUBSET Ways, T # {}, \A x \in T : T \ {x} \in Good PROVE T \in Good
  <2>1. PICK x \in T : TRUE
    BY <1>6
  <2>2. SumOf(h, T) = h[x] + SumOf(h, T \ {x})
    BY <1>4, SumOfAny
  <2> QED BY <1>3, <1>6, <2>1, <2>2
<1> HIDE DEF Good
<1>7. Ways \in Good
  BY ONLY <1>5, <1>6, WaysFinite, SetInduction
<1> QED BY <1>7 DEF Good, Due

\* A step that loses some of what is on its way.
LEMMA LossKeeps ==
    ASSUME Conserved, MeshTypeOK, UNCHANGED <<accepted, sent>>,
           \A n \in Relays, a \in Attestations : Due(wire', n, a) \in Nat /\ Due(wire', n, a) <= Due(wire, n, a)
    PROVE  Conserved'
<1> SUFFICES ASSUME NEW n \in Relays, NEW a \in Attestations
             PROVE  accepted[n][a] + Due(wire', n, a) + (IF sent[a] = "no" THEN WalksTo(Origin[a], n) ELSE 0)
                        <= WalksTo(Origin[a], n)
  BY DEF Conserved
<1> PICK x, d, y, t : /\ x = accepted[n][a] /\ d = Due(wire, n, a) /\ y = Due(wire', n, a)
                      /\ t = WalksTo(Origin[a], n)
  OBVIOUS
<1>1. Origin[a] \in Relays
  BY MeshAssumption
<1>2. x \in Nat /\ d \in Nat /\ y \in Nat /\ t \in Nat /\ y <= d
  BY <1>1, WireTyped, DueNat, WalksToNat DEF MeshTypeOK
<1>3. x + d + (IF sent[a] = "no" THEN t ELSE 0) <= t
  BY DEF Conserved
<1>4. x + y + (IF sent[a] = "no" THEN t ELSE 0) <= t
  BY <1>2, <1>3
<1> QED BY <1>4

\* A link that closes loses the envelopes on it and nothing else.
LEMMA CloseKeeps ==
    ASSUME RelayInv, NEW S, Close(S), UNCHANGED <<accepted, sent>>
    PROVE  /\ Conserved' /\ wire' \in Wires
           /\ socket' \in [Links -> BOOLEAN] /\ server' \in [Links -> BOOLEAN]
<1>1. wire \in Wires
  BY WireTyped DEF RelayInv
<1>2. wire' = [w \in Ways |-> IF w[1] \in S THEN <<>> ELSE wire[w]]
  BY DEF Close
<1>3. ASSUME NEW n \in Relays, NEW a \in Attestations
      PROVE  wire' \in Wires /\ Due(wire', n, a) <= Due(wire, n, a)
  BY <1>1, <1>2, DueClosed
<1>4. wire' \in Wires
  <2>1. ASSUME NEW w \in Ways PROVE wire'[w] \in Seq(Envelopes)
    <3>1. wire[w] \in Seq(Envelopes) /\ <<>> \in Seq(Envelopes)
      BY <1>1 DEF Wires
    <3> QED BY <1>2, <3>1
  <2> QED BY <1>2, <2>1 DEF Wires
<1>5. \A n \in Relays, a \in Attestations : Due(wire', n, a) \in Nat /\ Due(wire', n, a) <= Due(wire, n, a)
  BY <1>3, <1>4, DueNat
<1>6. Conserved'
  BY <1>5, LossKeeps DEF RelayInv
<1>7. socket' \in [Links -> BOOLEAN] /\ server' \in [Links -> BOOLEAN]
  BY DEF Close, RelayInv, MeshTypeOK
<1> QED BY <1>4, <1>6, <1>7

\* A link's state without its envelopes.
LEMMA LinkKeeps ==
    ASSUME RelayInv, UNCHANGED <<wire, seen, minted, sent, accepted, lost, faults>>,
           socket' \in [Links -> BOOLEAN], server' \in [Links -> BOOLEAN],
           client' \in [Links -> {"none", "live", "dead"}]
    PROVE  RelayInv'
<1>1. MeshTypeOK'
  BY DEF RelayInv, MeshTypeOK
<1>2. Conserved'
  BY DEF RelayInv, Conserved
<1> QED BY <1>1, <1>2 DEF RelayInv

\* Connecting and registering move no envelope.
LEMMA ConnectionsKeep ==
    ASSUME RelayInv, NEW l \in Links, Connect(l) \/ Register(l) \/ Admit(l)
    PROVE  RelayInv'
<1>1. /\ socket \in [Links -> BOOLEAN] /\ server \in [Links -> BOOLEAN]
      /\ client \in [Links -> {"none", "live", "dead"}]
  BY DEF RelayInv, MeshTypeOK
<1>2. CASE Connect(l)
  BY <1>1, <1>2, LinkKeeps DEF Connect, Gossip
<1>3. CASE Register(l)
  BY <1>1, <1>3, LinkKeeps DEF Register, Gossip
<1>4. CASE Admit(l)
  BY <1>1, <1>4, LinkKeeps DEF Admit, Gossip
<1> QED BY <1>2, <1>3, <1>4

\* A link that is refused or fails only loses envelopes.
LEMMA LossesKeep ==
    ASSUME RelayInv, NEW l \in Links, Reject(l) \/ LinkFails(l)
    PROVE  RelayInv'
<1>1. client \in [Links -> {"none", "live", "dead"}] /\ faults \in 0..MaxFaults /\ MaxFaults \in Nat
  BY MeshAssumption DEF RelayInv, MeshTypeOK
<1>2. Close({l}) /\ UNCHANGED <<accepted, sent, seen, minted>>
  BY DEF Reject, LinkFails, Gossip
<1>3. /\ Conserved' /\ wire' \in Wires
      /\ socket' \in [Links -> BOOLEAN] /\ server' \in [Links -> BOOLEAN]
  BY <1>2, CloseKeeps
<1>4. /\ client' \in [Links -> {"none", "live", "dead"}]
      /\ lost' \in BOOLEAN /\ faults' \in 0..MaxFaults
  <2>1. CASE Reject(l)
    BY <1>1, <2>1 DEF Reject, RelayInv, MeshTypeOK
  <2>2. CASE LinkFails(l)
    <3>1. faults' = faults + 1 /\ faults < MaxFaults /\ lost' = TRUE
      BY <2>2 DEF LinkFails
    <3>2. client' \in [Links -> {"none", "live", "dead"}]
      BY <1>1, <2>2 DEF LinkFails
    <3> QED BY <1>1, <3>1, <3>2
  <2> QED BY <2>1, <2>2
<1>5. MeshTypeOK'
  BY <1>2, <1>3, <1>4 DEF RelayInv, MeshTypeOK, Wires
<1> QED BY <1>3, <1>5 DEF RelayInv

\* A node that restarts loses envelopes and what it remembers.
LEMMA RestartKeeps == ASSUME RelayInv, NEW n \in Relays, Restart(n) PROVE RelayInv'
<1>1. faults \in 0..MaxFaults /\ MaxFaults \in Nat /\ client \in [Links -> {"none", "live", "dead"}]
  BY MeshAssumption DEF RelayInv, MeshTypeOK
<1>2. UNCHANGED <<accepted, sent, minted>> /\ faults' = faults + 1 /\ faults < MaxFaults /\ lost' = TRUE
  BY DEF Restart
<1>3. /\ Conserved' /\ wire' \in Wires
      /\ socket' \in [Links -> BOOLEAN] /\ server' \in [Links -> BOOLEAN]
  <2> PICK S : S = {l \in Links : n \in {l[1], l[2]}}
    OBVIOUS
  <2>1. Close(S)
    BY DEF Restart
  <2> QED BY <1>2, <2>1, CloseKeeps
<1>4. client' \in [Links -> {"none", "live", "dead"}]
  BY <1>1 DEF Restart
<1>5. seen' \in [Relays -> Seq(Relays \X Nat)] /\ \A m \in Relays : Len(seen'[m]) <= Capacity
  <2>1. seen \in [Relays -> Seq(Relays \X Nat)] /\ \A m \in Relays : Len(seen[m]) <= Capacity
    BY DEF RelayInv, MeshTypeOK
  <2>2. seen' = [seen EXCEPT ![n] = <<>>] /\ Len(<<>>) <= Capacity /\ <<>> \in Seq(Relays \X Nat)
    BY MeshAssumption DEF Restart
  <2> QED BY <2>1, <2>2
<1>6. faults' \in 0..MaxFaults
  BY <1>1, <1>2
<1>7. MeshTypeOK'
  BY <1>2, <1>3, <1>4, <1>5, <1>6 DEF RelayInv, MeshTypeOK, Wires
<1> QED BY <1>3, <1>7 DEF RelayInv

\* The deduplicator never remembers more than its capacity.
LEMMA RememberBounded ==
    ASSUME NEW A, NEW ids \in Seq(A), Len(ids) <= Capacity, NEW id \in A
    PROVE  Remember(ids, id) \in Seq(A) /\ Len(Remember(ids, id)) <= Capacity
<1>1. Capacity \in Nat \ {0} /\ Len(ids) \in Nat
  BY MeshAssumption
<1>2. CASE Len(ids) < Capacity
  <2>1. Append(ids, id) \in Seq(A) /\ Len(Append(ids, id)) = Len(ids) + 1
    OBVIOUS
  <2> QED BY <1>1, <1>2, <2>1 DEF Remember
<1>3. CASE ~(Len(ids) < Capacity)
  <2>1. ids # <<>>
    BY <1>1, <1>3
  <2>2. Tail(ids) \in Seq(A) /\ Len(Tail(ids)) = Len(ids) - 1
    BY <2>1
  <2>3. Append(Tail(ids), id) \in Seq(A) /\ Len(Append(Tail(ids), id)) = Len(ids) - 1 + 1
    BY <2>2
  <2> QED BY <1>1, <1>3, <2>3 DEF Remember
<1> QED BY <1>2, <1>3

\* Every deduplicator is within its capacity.
Remembered == /\ seen \in [Relays -> Seq(Relays \X Nat)]
              /\ \A m \in Relays : Len(seen[m]) <= Capacity

\* It stays so when one more id is remembered.
LEMMA SeenKept ==
    ASSUME Remembered, NEW n \in Relays, NEW id \in Relays \X Nat,
           seen' = [seen EXCEPT ![n] = Remember(@, id)]
    PROVE  Remembered'
<1>1. seen[n] \in Seq(Relays \X Nat) /\ Len(seen[n]) <= Capacity
  BY DEF Remembered
<1>2. Remember(seen[n], id) \in Seq(Relays \X Nat) /\ Len(Remember(seen[n], id)) <= Capacity
  BY <1>1, RememberBounded
<1> QED BY <1>2 DEF Remembered

\* What an announcement puts on the wire.
LEMMA BroadcastSends ==
    ASSUME NEW wires \in Wires, NEW n, NEW e, NEW except
    PROVE  Sends(wires, Broadcast(wires, n, e, except), e, {w \in Ways : Sender(w) = n /\ w[1] \notin except})
  BY DEF Sends, Broadcast

\* An announcement puts on the wire what was held back for it.
LEMMA AnnounceKeeps ==
    ASSUME RelayInv, NEW k \in Relays, NEW b \in Attestations, Announce(k, b)
    PROVE  RelayInv'
<1>1. /\ wire \in Wires /\ minted \in [Relays -> Nat] /\ sent \in [Attestations -> {"no", "whole", "partly"}]
      /\ Remembered /\ Ttl \in Nat
  BY WireTyped, MeshAssumption DEF RelayInv, MeshTypeOK, Remembered
<1> PICK e : e = Envelope(k, b, Ttl)
  OBVIOUS
<1>2. e \in Envelopes /\ e.attestation = b /\ e.ttl = Ttl /\ e.id \in Relays \X Nat
  BY <1>1 DEF Envelope, Envelopes
<1> PICK B : B = {w \in Ways : Sender(w) = k}
  OBVIOUS
<1>3. Sends(wire, wire', e, B)
  <2>1. wire' = Broadcast(wire, k, e, {})
    BY DEF Announce
  <2>2. {w \in Ways : Sender(w) = k /\ w[1] \notin {}} = B
    OBVIOUS
  <2> QED BY <1>1, <2>1, <2>2, BroadcastSends
<1>4. ASSUME NEW n \in Relays, NEW a \in Attestations
      PROVE  /\ wire' \in Wires
             /\ Due(wire', n, a) <= Due(wire, n, a) + (IF b = a THEN WalksTo(k, n) ELSE 0)
  <2>1. B \in SUBSET Ways
    OBVIOUS
  <2>2. SumOf(Walks[e.ttl + 1][n], B) = WalksTo(k, n)
    BY <1>2 DEF WalksTo
  <2> QED BY <1>1, <1>2, <1>3, <2>1, <2>2, DueSent
<1>5. wire' \in Wires
  <2>1. Broadcast(wire, k, e, {}) \in Wires
    <3>1. ASSUME NEW w \in Ways PROVE wire[w] \in Seq(Envelopes) /\ Append(wire[w], e) \in Seq(Envelopes)
      BY <1>1, <1>2 DEF Wires
    <3> QED BY <3>1 DEF Broadcast, Wires
  <2> QED BY <2>1 DEF Announce
<1>6. Remembered'
  <2>1. seen' = [seen EXCEPT ![k] = Remember(@, e.id)]
    BY DEF Announce
  <2> QED BY <1>1, <1>2, <2>1, SeenKept
<1>7. MeshTypeOK'
  <2>1. minted' \in [Relays -> Nat]
    BY <1>1 DEF Announce
  <2>2. sent' \in [Attestations -> {"no", "whole", "partly"}]
    BY <1>1 DEF Announce
  <2>3. UNCHANGED <<socket, client, server, accepted, lost, faults>>
    BY DEF Announce
  <2> QED BY <1>5, <1>6, <2>1, <2>2, <2>3 DEF RelayInv, MeshTypeOK, Wires, Remembered
<1>8. Conserved'
  <2> SUFFICES ASSUME NEW n \in Relays, NEW a \in Attestations
               PROVE  accepted'[n][a] + Due(wire', n, a) + (IF sent'[a] = "no" THEN WalksTo(Origin[a], n) ELSE 0)
                        <= WalksTo(Origin[a], n)
    BY DEF Conserved
  <2> PICK x, d, y, t : /\ x = accepted[n][a] /\ d = Due(wire, n, a) /\ y = Due(wire', n, a)
                        /\ t = WalksTo(Origin[a], n)
    OBVIOUS
  <2>1. Origin[a] \in Relays /\ accepted' = accepted
    BY MeshAssumption DEF Announce
  <2>2. x \in Nat /\ d \in Nat /\ y \in Nat /\ t \in Nat
    BY <1>1, <1>5, <2>1, DueNat, WalksToNat DEF RelayInv, MeshTypeOK
  <2>3. x + d + (IF sent[a] = "no" THEN t ELSE 0) <= t
    BY DEF RelayInv, Conserved
  <2>4. CASE a = b
    <3>1. sent[a] = "no" /\ sent'[a] # "no" /\ Origin[a] = k
      BY <1>1, <2>4 DEF Announce
    <3>2. y <= d + t
      BY <1>4, <2>4, <3>1
    <3>3. x + y <= t
      BY <2>2, <2>3, <3>1, <3>2
    <3>4. x + y + (IF sent'[a] = "no" THEN t ELSE 0) <= t
      BY <2>2, <3>1, <3>3
    <3> QED BY <2>1, <3>4
  <2>5. CASE a # b
    <3>1. sent'[a] = sent[a]
      BY <1>1, <2>5 DEF Announce
    <3>2. y <= d + 0
      BY <1>4, <2>5
    <3>3. x + y + (IF sent'[a] = "no" THEN t ELSE 0) <= t
      BY <2>2, <2>3, <3>1, <3>2
    <3> QED BY <2>1, <3>3
  <2> QED BY <2>4, <2>5
<1> QED BY <1>7, <1>8 DEF RelayInv

\* What taking the next envelope of a way does.
LEMMA TakenFacts ==
    ASSUME RelayInv, NEW w \in Ways, Arrives(w)
    PROVE  /\ Taken(w) \in Wires /\ Head(wire[w]) \in Envelopes
           /\ \A n \in Relays, a \in Attestations :
                Due(Taken(w), n, a) \in Nat /\ Due(Taken(w), n, a) <= Due(wire, n, a)
<1>1. wire \in Wires /\ wire[w] # <<>> /\ Taken(w) = [wire EXCEPT ![w] = Tail(@)]
  BY WireTyped DEF RelayInv, Arrives, Taken
<1>2. wire[w] \in Seq(Envelopes)
  BY <1>1 DEF Wires
<1>3. Head(wire[w]) \in Envelopes /\ Tail(wire[w]) \in Seq(Envelopes)
  BY <1>1, <1>2
<1>4. Taken(w) \in Wires
  BY <1>1, <1>3 DEF Wires
<1>5. ASSUME NEW n \in Relays, NEW a \in Attestations
      PROVE  Due(Taken(w), n, a) \in Nat /\ Due(Taken(w), n, a) <= Due(wire, n, a)
  <2> PICK y, d, p : y = Due(Taken(w), n, a) /\ d = Due(wire, n, a) /\ p = Promise(Head(wire[w]), w, n, a)
    OBVIOUS
  <2>1. y \in Nat /\ d \in Nat /\ p \in Nat
    BY <1>1, <1>3, <1>4, DueNat, PromiseNat
  <2>2. y + p <= d
    BY <1>1, DueTaken
  <2>3. y <= d
    BY <2>1, <2>2
  <2> QED BY <2>1, <2>3
<1> QED BY <1>3, <1>4, <1>5

\* An envelope that is dropped, ignored or refused only lowers what is due.
LEMMA DropsKeep ==
    ASSUME RelayInv, NEW w \in Ways, Throttle(w) \/ Ignore(w) \/ Refuse(w)
    PROVE  RelayInv'
<1>1. Arrives(w) /\ wire' = Taken(w) /\ UNCHANGED <<socket, client, server, accepted, sent, minted>>
  BY DEF Throttle, Ignore, Refuse, Gossip
<1>2. /\ wire' \in Wires /\ Head(wire[w]) \in Envelopes
      /\ \A n \in Relays, a \in Attestations :
            Due(wire', n, a) \in Nat /\ Due(wire', n, a) <= Due(wire, n, a)
  BY <1>1, TakenFacts
<1>3. Conserved'
  BY <1>1, <1>2, LossKeeps DEF RelayInv
<1>4. Remembered'
  <2>1. Remembered
    BY DEF RelayInv, MeshTypeOK, Remembered
  <2>2. CASE Refuse(w)
    <3>1. w[2] \in Relays /\ Head(wire[w]).id \in Relays \X Nat
      BY <1>2, WaysFinite DEF Envelopes
    <3>2. seen' = [seen EXCEPT ![w[2]] = Remember(@, Head(wire[w]).id)]
      BY <2>2 DEF Refuse
    <3> QED BY <2>1, <3>1, <3>2, SeenKept
  <2>3. CASE ~Refuse(w)
    <3>1. seen' = seen
      BY <2>3 DEF Throttle, Ignore, Gossip
    <3> QED BY <2>1, <3>1 DEF Remembered
  <2> QED BY <2>2, <2>3
<1>5. lost' \in BOOLEAN /\ faults' \in 0..MaxFaults
  <2>1. lost \in BOOLEAN /\ faults \in 0..MaxFaults /\ MaxFaults \in Nat
    BY MeshAssumption DEF RelayInv, MeshTypeOK
  <2>2. CASE Throttle(w)
    <3>1. faults' = faults + 1 /\ faults < MaxFaults /\ lost' = TRUE
      BY <2>2 DEF Throttle
    <3> QED BY <2>1, <3>1
  <2>3. CASE ~Throttle(w)
    <3>1. UNCHANGED <<lost, faults>>
      BY <2>3 DEF Ignore, Refuse
    <3> QED BY <2>1, <3>1
  <2> QED BY <2>2, <2>3
<1>6. MeshTypeOK'
  BY <1>1, <1>2, <1>4, <1>5 DEF RelayInv, MeshTypeOK, Wires, Remembered
<1> QED BY <1>3, <1>6 DEF RelayInv

\* What an envelope promises is the node it comes to and what may be sent on from there.
LEMMA PromiseIs ==
    ASSUME NEW m \in Envelopes, NEW w \in Ways, NEW n \in Relays
    PROVE  /\ SumOf(Walks[m.ttl][n], Onward(w)) \in Nat
           /\ Promise(m, w, n, m.attestation)
                = (IF w[2] = n THEN 1 ELSE 0) + SumOf(Walks[m.ttl][n], Onward(w))
<1>1. m.ttl \in 0..Ttl /\ Ttl \in Nat
  BY MeshAssumption DEF Envelopes
<1>2. m.ttl \in 0..(Ttl + 1)
  BY <1>1
<1>3. Numbers(Walks[m.ttl][n], Ways)
  BY <1>2, WalksFacts
<1>4. IsFiniteSet(Onward(w)) /\ Numbers(Walks[m.ttl][n], Onward(w))
  BY <1>3, WaysFinite, FS_Subset DEF Numbers
<1>5. Walks[m.ttl + 1][n][w] = (IF w[2] = n THEN 1 ELSE 0) + SumOf(Walks[m.ttl][n], Onward(w))
  BY <1>1, WalksFacts
<1> QED BY <1>4, <1>5, SumOfAny DEF Promise

\* An acceptance takes an envelope from its way and sends another on.
LEMMA AcceptSends ==
    ASSUME RelayInv, NEW w \in Ways, Accept(w), Head(wire[w]).ttl > 0,
           NEW e, e = Envelope(w[2], Head(wire[w]).attestation, Head(wire[w]).ttl - 1)
    PROVE  /\ e \in Envelopes /\ e.attestation = Head(wire[w]).attestation /\ e.ttl + 1 = Head(wire[w]).ttl
           /\ Sends(Taken(w), wire', e, Onward(w)) /\ wire' \in Wires
<1> PICK m : m = Head(wire[w])
  OBVIOUS
<1>1. Taken(w) \in Wires /\ m \in Envelopes
  BY TakenFacts DEF Accept
<1>2. m.ttl \in 0..Ttl /\ m.attestation \in Attestations /\ Ttl \in Nat /\ w[2] \in Relays
  BY <1>1, WaysFinite, MeshAssumption DEF Envelopes
<1>3. minted[w[2]] \in Nat
  BY <1>2 DEF RelayInv, MeshTypeOK
<1>4. m.ttl - 1 \in 0..Ttl /\ (m.ttl - 1) + 1 = m.ttl
  BY <1>2
<1>5. e \in Envelopes /\ e.attestation = m.attestation /\ e.ttl + 1 = m.ttl
  BY <1>2, <1>3, <1>4 DEF Envelope, Envelopes
<1>6. wire' = Broadcast(Taken(w), w[2], e, {w[1]})
  BY DEF Accept, Except
<1>7. {v \in Ways : Sender(v) = w[2] /\ v[1] \notin {w[1]}} = Onward(w)
  BY DEF Onward
<1>8. Sends(Taken(w), wire', e, Onward(w))
  BY <1>1, <1>6, <1>7, BroadcastSends
<1>9. wire' \in Wires
  <2>1. ASSUME NEW v \in Ways PROVE Taken(w)[v] \in Seq(Envelopes) /\ Append(Taken(w)[v], e) \in Seq(Envelopes)
    BY <1>1, <1>5 DEF Wires
  <2> QED BY <1>6, <2>1 DEF Broadcast, Wires
<1> QED BY <1>5, <1>8, <1>9

\* The numbers of an acceptance: what was promised pays for it and for what is sent on.
LEMMA AcceptPays ==
    ASSUME RelayInv, NEW w \in Ways, Accept(w), NEW n \in Relays, NEW a \in Attestations
    PROVE  /\ wire' \in Wires
           /\ Due(wire', n, a) + (IF n = w[2] /\ a = Head(wire[w]).attestation THEN 1 ELSE 0) <= Due(wire, n, a)
<1> PICK m : m = Head(wire[w])
  OBVIOUS
<1>1. wire \in Wires /\ wire[w] # <<>> /\ Taken(w) = [wire EXCEPT ![w] = Tail(@)] /\ Arrives(w)
  BY WireTyped DEF RelayInv, Accept, Arrives, Taken
<1>2. Taken(w) \in Wires /\ m \in Envelopes
  BY <1>1, TakenFacts
<1> PICK y, d, p, s, i : /\ y = Due(Taken(w), n, a) /\ d = Due(wire, n, a) /\ p = Promise(m, w, n, a)
                         /\ s = SumOf(Walks[m.ttl][n], Onward(w)) /\ i = (IF w[2] = n THEN 1 ELSE 0)
  OBVIOUS
<1>3. y + p <= d
  BY <1>1, DueTaken
<1>4. y \in Nat /\ d \in Nat /\ p \in Nat /\ s \in Nat /\ i \in Nat
  BY <1>1, <1>2, DueNat, PromiseNat, PromiseIs
<1>5. a = m.attestation => p = i + s
  BY <1>2, PromiseIs
<1>6. m.ttl \in Nat
  BY <1>2 DEF Envelopes
<1>7. CASE m.ttl > 0
  <2> PICK e : e = Envelope(w[2], m.attestation, m.ttl - 1)
    OBVIOUS
  <2>1. /\ e \in Envelopes /\ e.attestation = m.attestation /\ e.ttl + 1 = m.ttl
        /\ Sends(Taken(w), wire', e, Onward(w)) /\ wire' \in Wires
    BY <1>7, AcceptSends
  <2>2. Onward(w) \in SUBSET Ways
    BY WaysFinite
  <2> PICK z : z = Due(wire', n, a)
    OBVIOUS
  <2>3. z <= y + (IF m.attestation = a THEN s ELSE 0)
    BY <1>2, <2>1, <2>2, DueSent
  <2>4. z \in Nat
    BY <2>1, DueNat
  <2>5. z + (IF n = w[2] /\ a = m.attestation THEN 1 ELSE 0) <= d
    <3>1. CASE a = m.attestation
      <4>1. z <= y + s /\ y + (i + s) <= d
        BY <1>3, <1>5, <2>3, <3>1
      <4>2. z + i <= d
        BY <1>4, <2>4, <4>1
      <4>3. (IF n = w[2] /\ a = m.attestation THEN 1 ELSE 0) = i
        BY <3>1
      <4> QED BY <4>2, <4>3
    <3>2. CASE a # m.attestation
      <4>1. z <= y + 0
        BY <2>3, <3>2
      <4>2. z + 0 <= d
        BY <1>3, <1>4, <2>4, <4>1
      <4> QED BY <3>2, <4>2
    <3> QED BY <3>1, <3>2
  <2> QED BY <2>1, <2>5
<1>8. CASE ~(m.ttl > 0)
  <2>1. wire' = Taken(w)
    BY <1>8 DEF Accept
  <2>2. y + (IF n = w[2] /\ a = m.attestation THEN 1 ELSE 0) <= d
    <3>1. CASE a = m.attestation
      <4>1. y + (i + s) <= d
        BY <1>3, <1>5, <3>1
      <4>2. y + i <= d
        BY <1>4, <4>1
      <4>3. (IF n = w[2] /\ a = m.attestation THEN 1 ELSE 0) = i
        BY <3>1
      <4> QED BY <4>2, <4>3
    <3>2. CASE a # m.attestation
      BY <1>3, <1>4, <3>2
    <3> QED BY <3>1, <3>2
  <2> QED BY <1>2, <2>1, <2>2
<1> QED BY <1>7, <1>8

\* An acceptance keeps the types.
LEMMA AcceptTyped == ASSUME RelayInv, NEW w \in Ways, Accept(w), wire' \in Wires PROVE MeshTypeOK'
<1> PICK m : m = Head(wire[w])
  OBVIOUS
<1>1. m \in Envelopes /\ w[2] \in Relays
  BY TakenFacts, WaysFinite DEF Accept
<1>2. m.id \in Relays \X Nat /\ m.attestation \in Attestations
  BY <1>1 DEF Envelopes
<1>3. /\ Remembered /\ minted \in [Relays -> Nat] /\ accepted \in [Relays -> [Attestations -> Nat]]
  BY DEF RelayInv, MeshTypeOK, Remembered
<1>4. accepted' \in [Relays -> [Attestations -> Nat]]
  BY <1>1, <1>2, <1>3 DEF Accept
<1>5. minted' \in [Relays -> Nat]
  BY <1>1, <1>3 DEF Accept
<1>6. Remembered'
  <2>1. CASE m.ttl > 0
    <3> PICK id, ids : id = <<w[2], minted[w[2]]>> /\ ids = Remember(seen[w[2]], m.id)
      OBVIOUS
    <3>1. id \in Relays \X Nat
      BY <1>1, <1>3
    <3>2. ids \in Seq(Relays \X Nat) /\ Len(ids) <= Capacity
      BY <1>1, <1>2, <1>3, RememberBounded DEF Remembered
    <3>3. Remember(ids, id) \in Seq(Relays \X Nat) /\ Len(Remember(ids, id)) <= Capacity
      BY <3>1, <3>2, RememberBounded
    <3>4. seen' = [seen EXCEPT ![w[2]] = Remember(ids, id)]
      BY <2>1 DEF Accept, Envelope
    <3> QED BY <1>3, <3>3, <3>4 DEF Remembered
  <2>2. CASE ~(m.ttl > 0)
    <3>1. seen' = [seen EXCEPT ![w[2]] = Remember(@, m.id)]
      BY <2>2 DEF Accept
    <3> QED BY <1>1, <1>2, <1>3, <3>1, SeenKept
  <2> QED BY <2>1, <2>2
<1>7. UNCHANGED <<socket, client, server, sent, lost, faults>>
  BY DEF Accept
<1> QED BY <1>4, <1>5, <1>6, <1>7 DEF RelayInv, MeshTypeOK, Wires, Remembered

\* An acceptance keeps the sum.
LEMMA AcceptKeeps == ASSUME RelayInv, NEW w \in Ways, Accept(w) PROVE RelayInv'
<1> PICK m : m = Head(wire[w])
  OBVIOUS
<1>1. m \in Envelopes /\ w[2] \in Relays
  BY TakenFacts, WaysFinite DEF Accept
<1>2. wire' \in Wires
  <2>1. CASE m.ttl > 0
    BY <2>1, AcceptSends
  <2>2. CASE ~(m.ttl > 0)
    BY <2>2, TakenFacts DEF Accept
  <2> QED BY <2>1, <2>2
<1>3. MeshTypeOK'
  BY <1>2, AcceptTyped
<1>4. Conserved'
  <2> SUFFICES ASSUME NEW n \in Relays, NEW a \in Attestations
               PROVE  accepted'[n][a] + Due(wire', n, a) + (IF sent'[a] = "no" THEN WalksTo(Origin[a], n) ELSE 0)
                        <= WalksTo(Origin[a], n)
    BY DEF Conserved
  <2> PICK x, d, y, t, z : /\ x = accepted[n][a] /\ d = Due(wire, n, a) /\ y = Due(wire', n, a)
                           /\ t = WalksTo(Origin[a], n) /\ z = accepted'[n][a]
    OBVIOUS
  <2>1. Origin[a] \in Relays /\ sent' = sent
    BY MeshAssumption DEF Accept
  <2>2. x \in Nat /\ d \in Nat /\ y \in Nat /\ t \in Nat /\ z \in Nat
    BY <1>2, <1>3, <2>1, WireTyped, DueNat, WalksToNat DEF RelayInv, MeshTypeOK
  <2>3. x + d + (IF sent[a] = "no" THEN t ELSE 0) <= t
    BY DEF RelayInv, Conserved
  <2>4. z = x + (IF n = w[2] /\ a = m.attestation THEN 1 ELSE 0)
    <3>1. accepted \in [Relays -> [Attestations -> Nat]]
      BY DEF RelayInv, MeshTypeOK
    <3>2. accepted' = [accepted EXCEPT ![w[2]][m.attestation] = @ + 1]
      BY DEF Accept
    <3>3. m.attestation \in Attestations
      BY <1>1 DEF Envelopes
    <3> QED BY <1>1, <2>2, <3>1, <3>2, <3>3
  <2>5. y + (IF n = w[2] /\ a = m.attestation THEN 1 ELSE 0) <= d
    BY AcceptPays
  <2>6. z + y + (IF sent[a] = "no" THEN t ELSE 0) <= t
    BY ONLY <2>2, <2>3, <2>4, <2>5
  <2> QED BY <2>1, <2>6
<1> QED BY <1>3, <1>4 DEF RelayInv

\* At first nothing is accepted and nothing is on its way.
LEMMA RelayBegins == MeshInit => RelayInv
<1> SUFFICES ASSUME MeshInit PROVE RelayInv
  OBVIOUS
<1>1. MeshTypeOK
  <2>1. socket \in [Links -> BOOLEAN] /\ server \in [Links -> BOOLEAN]
    BY DEF MeshInit
  <2>2. client \in [Links -> {"none", "live", "dead"}]
    BY DEF MeshInit
  <2>3. wire \in [Ways -> Seq(Envelopes)]
    <3>1. <<>> \in Seq(Envelopes)
      OBVIOUS
    <3> QED BY <3>1 DEF MeshInit
  <2>4. seen \in [Relays -> Seq(Relays \X Nat)] /\ \A n \in Relays : Len(seen[n]) <= Capacity
    <3>1. <<>> \in Seq(Relays \X Nat) /\ Len(<<>>) = 0
      OBVIOUS
    <3>2. seen = [n \in Relays |-> <<>>]
      BY DEF MeshInit
    <3>3. \A n \in Relays : Len(seen[n]) = 0
      BY <3>1, <3>2
    <3>4. seen \in [Relays -> Seq(Relays \X Nat)]
      BY <3>1, <3>2
    <3>5. Capacity \in Nat /\ 0 <= Capacity
      BY MeshAssumption
    <3> QED BY <3>3, <3>4, <3>5
  <2>5. minted \in [Relays -> Nat]
    BY DEF MeshInit
  <2>6. sent \in [Attestations -> {"no", "whole", "partly"}]
    BY DEF MeshInit
  <2>7. accepted \in [Relays -> [Attestations -> Nat]]
    BY DEF MeshInit
  <2>8. lost \in BOOLEAN /\ faults \in 0..MaxFaults
    <3>1. MaxFaults \in Nat /\ 0 \in 0..MaxFaults
      BY MeshAssumption
    <3>2. lost = FALSE /\ faults = 0
      BY DEF MeshInit
    <3> QED BY <3>1, <3>2
  <2> QED BY <2>1, <2>2, <2>3, <2>4, <2>5, <2>6, <2>7, <2>8 DEF MeshTypeOK
<1>2. ASSUME NEW n \in Relays, NEW a \in Attestations
      PROVE  accepted[n][a] + Due(wire, n, a) + (IF sent[a] = "no" THEN WalksTo(Origin[a], n) ELSE 0)
                <= WalksTo(Origin[a], n)
  <2>1. accepted[n][a] = 0 /\ sent[a] = "no" /\ wire = [w \in Ways |-> <<>>]
    BY DEF MeshInit
  <2>2. Due(wire, n, a) = 0
    BY <2>1, NothingDue
  <2>3. WalksTo(Origin[a], n) \in Nat
    BY MeshAssumption, WalksToNat
  <2> QED BY <2>1, <2>2, <2>3
<1> QED BY <1>1, <1>2 DEF RelayInv, Conserved

\* Every step of the relay keeps the invariant.
LEMMA RelayKeeps == RelayInv /\ [MeshNext]_meshVars => RelayInv'
<1> SUFFICES ASSUME RelayInv, [MeshNext]_meshVars PROVE RelayInv'
  OBVIOUS
<1>1. ASSUME NEW l \in Links, Connect(l) \/ Register(l) \/ Admit(l) \/ Reject(l) \/ LinkFails(l)
      PROVE  RelayInv'
  BY <1>1, ConnectionsKeep, LossesKeep
<1>2. ASSUME NEW n \in Relays, Restart(n) PROVE RelayInv'
  BY <1>2, RestartKeeps
<1>3. ASSUME NEW n \in Relays, NEW a \in Attestations, Announce(n, a) PROVE RelayInv'
  BY <1>3, AnnounceKeeps
<1>4. ASSUME NEW w \in Ways, Read(w) \/ Throttle(w) PROVE RelayInv'
  BY <1>4, AcceptKeeps, DropsKeep DEF Read
<1>5. CASE UNCHANGED meshVars
  BY <1>5 DEF meshVars, RelayInv, MeshTypeOK, Conserved
<1> QED BY <1>1, <1>2, <1>3, <1>4, <1>5 DEF MeshNext

\* What is accepted, what may come of the envelopes on their way and what may come of an
\* announcement that is to be made are never more than the walks from the origin, whatever fails.
THEOREM RelayConserves == MeshSpec => []RelayInv
<1> QED BY RelayBegins, RelayKeeps, PTL DEF MeshSpec

\* A node accepts an attestation at most once for every walk from its origin that never turns
\* back on the link it took last and has no more ways than hops (relay.py:331-384), for any mesh,
\* capacity of the deduplicator, failures and restarts.
THEOREM WorkAlwaysBounded == MeshSpec => []WorkBounded
<1>1. RelayInv => WorkBounded
  <2> SUFFICES ASSUME RelayInv, NEW n \in Relays, NEW a \in Attestations
               PROVE  accepted[n][a] <= WalksTo(Origin[a], n)
    BY DEF WorkBounded
  <2> PICK x, d, t : x = accepted[n][a] /\ d = Due(wire, n, a) /\ t = WalksTo(Origin[a], n)
    OBVIOUS
  <2>1. x \in Nat /\ d \in Nat /\ t \in Nat
    BY WireTyped, DueNat, WalksToNat, MeshAssumption DEF RelayInv, MeshTypeOK
  <2>2. x + d + (IF sent[a] = "no" THEN t ELSE 0) <= t
    BY DEF RelayInv, Conserved
  <2>3. x <= t
    BY <2>1, <2>2
  <2> QED BY <2>3
<1> QED BY <1>1, RelayConserves, PTL
=============================================================================
