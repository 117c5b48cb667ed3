----------------------- MODULE ReputationSessions_proof -----------------------
(***************************************************************************)
(* Proofs about the reputation of a domain, for every set of subjects,     *)
(* reports and sessions: what one update does to a record, what any        *)
(* sequence of updates keeps (DomainReputation, whose row is here a        *)
(* variable of its own), and what sessions that interleave the steps of    *)
(* updates keep.  The invariant of a record, RecordInv, says how standing, *)
(* score, streaks and factor hang together; each branch of the update      *)
(* keeps it.  Sessions carry it to the row they share until a commit       *)
(* writes over another's.                                                  *)
(***************************************************************************)
EXTENDS ReputationSessions, TLAPS

VARIABLE rep    \* a row that whole updates change
Rep == INSTANCE DomainReputation

\* The penalty of a report is a natural number, whatever its severity and confidence.
LEMMA PenaltyIsNat == ASSUME NEW a \in Reports PROVE Penalty(a) \in Nat
<1>1. a \in Report
  BY ReportsAssumption
<1>2. a.max_severity \in 1..5 /\ a.confidence_score \in 0..100
  BY <1>1 DEF Report
<1> DEFINE c == IF a.confidence_score = 0 THEN 100 ELSE a.confidence_score
<1>3. c \in 0..100
  BY <1>2
<1>4. 75 * a.max_severity * c \in Nat
  <2>1. 75 * a.max_severity \in Nat
    BY <1>2
  <2> QED
    BY <2>1, <1>3
<1> HIDE DEF c
<1> DEFINE n == 75 * a.max_severity * c
<1>5. (2 * n + 100) \div (2 * 100) \in Nat
  <2> HIDE DEF n
  <2>1. n \in Nat
    BY <1>4 DEF n
  <2> QED
    BY <2>1
<1> QED
  BY <1>5 DEF Penalty, RoundDiv, c, n

\* A clean report raises the score by at most 5.0.
LEMMA GainIsSmall == ASSUME NEW a \in Reports, IsClean(a) PROVE Gain(a) \in 0..50
<1>1. a \in Report
  BY ReportsAssumption
<1>2. a.suspicion_score \in 0..20
  BY <1>1 DEF Report, IsClean
<1> QED
  BY <1>2 DEF Gain, RoundDiv

\* Replacing one field of a record by a value of its range leaves a record.
LEMMA FieldUpdate ==
  ASSUME NEW r \in DomainRecord
  PROVE  /\ \A x \in 0..1000 : [r EXCEPT !.reputation_score = x] \in DomainRecord
         /\ \A x \in Nat : [r EXCEPT !.audits_count = x] \in DomainRecord
         /\ \A x \in Nat : [r EXCEPT !.consecutive_clean_count = x] \in DomainRecord
         /\ \A x \in Nat : [r EXCEPT !.consecutive_deceptive_count = x] \in DomainRecord
         /\ \A x \in Statuses : [r EXCEPT !.status = x] \in DomainRecord
         /\ \A x \in BackoffFactors : [r EXCEPT !.polling_backoff_factor = x] \in DomainRecord
         /\ \A x \in SUBSET Subjects : [r EXCEPT !.distinct_clean_subjects = x] \in DomainRecord
         /\ \A x \in 0..100 : [r EXCEPT !.redemption_progress_pct = x] \in DomainRecord
<1>1. \A x \in 0..1000 : [r EXCEPT !.reputation_score = x] \in DomainRecord
  BY DEF DomainRecord
<1>2. \A x \in Nat : [r EXCEPT !.audits_count = x] \in DomainRecord
  BY DEF DomainRecord
<1>3. \A x \in Nat : [r EXCEPT !.consecutive_clean_count = x] \in DomainRecord
  BY DEF DomainRecord
<1>4. \A x \in Nat : [r EXCEPT !.consecutive_deceptive_count = x] \in DomainRecord
  BY DEF DomainRecord
<1>5. \A x \in Statuses : [r EXCEPT !.status = x] \in DomainRecord
  BY DEF DomainRecord
<1>6. \A x \in BackoffFactors : [r EXCEPT !.polling_backoff_factor = x] \in DomainRecord
  BY DEF DomainRecord
<1>7. \A x \in SUBSET Subjects : [r EXCEPT !.distinct_clean_subjects = x] \in DomainRecord
  BY DEF DomainRecord
<1>8. \A x \in 0..100 : [r EXCEPT !.redemption_progress_pct = x] \in DomainRecord
  BY DEF DomainRecord
<1> QED
  BY <1>1, <1>2, <1>3, <1>4, <1>5, <1>6, <1>7, <1>8

\* The score arithmetic of a slash and of a credit stays in range.
LEMMA Lowered ==
  ASSUME NEW x \in 0..1000, NEW p \in Nat
  PROVE  Lower(x, p) \in 0..1000 /\ Lower(x, p) <= x
BY DEF Lower

LEMMA Raised ==
  ASSUME NEW x \in 0..1000, NEW g \in 0..50
  PROVE  Raise(x, g) \in 0..1000 /\ Raise(x, g) >= x /\ Raise(x, g) <= x + 50
BY DEF Raise

\* The backoff of a streak is one of the seven factors, and at least 2 once it began.
LEMMA BackoffRange ==
  ASSUME NEW k \in Nat, k >= 1
  PROVE  compute_polling_backoff(k) \in BackoffFactors \ {1}
<1>1. CASE k = 1 BY <1>1 DEF compute_polling_backoff, BackoffFactors
<1>2. CASE k = 2 BY <1>2 DEF compute_polling_backoff, BackoffFactors
<1>3. CASE k = 3 BY <1>3 DEF compute_polling_backoff, BackoffFactors
<1>4. CASE k = 4 BY <1>4 DEF compute_polling_backoff, BackoffFactors
<1>5. CASE k = 5 BY <1>5 DEF compute_polling_backoff, BackoffFactors
<1>6. CASE k >= 6 BY <1>6 DEF compute_polling_backoff, BackoffFactors
<1> QED BY <1>1, <1>2, <1>3, <1>4, <1>5, <1>6

-----------------------------------------------------------------------------
\* What holds of a record between two updates.
RecordInv(r) ==
    /\ r \in DomainRecord
    /\ r.status \in {"TRUSTED", "NEUTRAL"} =>
           /\ r.reputation_score > 400
           /\ r.consecutive_deceptive_count < 3
           /\ r.polling_backoff_factor = 1
    /\ r.status = "SUSPICIOUS" =>
           /\ r.reputation_score > 200 /\ r.reputation_score < 450
           /\ r.consecutive_deceptive_count < 3
    /\ r.status = "QUARANTINED_PROBATION" =>
           r.polling_backoff_factor >= 2 /\ ~Redeemed(r)
    /\ r.status = "PROBATIONARY_RECOVERY" =>
           Redeemed(r) /\ r.consecutive_deceptive_count = 0

LEMMA SlashFacts ==
  ASSUME NEW r \in DomainRecord, NEW a \in Reports
  PROVE  /\ Slash(r, a) \in DomainRecord
         /\ Slash(r, a).status = r.status
         /\ Slash(r, a).polling_backoff_factor = r.polling_backoff_factor
         /\ Slash(r, a).consecutive_clean_count = 0
         /\ Slash(r, a).consecutive_deceptive_count = r.consecutive_deceptive_count + 1
         /\ Slash(r, a).reputation_score <= r.reputation_score
<1> DEFINE score == Lower(r.reputation_score, Penalty(a))
<1> DEFINE streak == r.consecutive_deceptive_count + 1
<1> DEFINE audits == r.audits_count + 1
<1>1. r.reputation_score \in 0..1000
  BY DEF DomainRecord
<1>2. score \in 0..1000 /\ score <= r.reputation_score
  BY <1>1, PenaltyIsNat, Lowered
<1>3. streak \in Nat /\ audits \in Nat
  BY DEF DomainRecord
<1>4. Slash(r, a) =
        [[[[r EXCEPT !.audits_count = audits] EXCEPT !.consecutive_clean_count = 0]
            EXCEPT !.consecutive_deceptive_count = streak] EXCEPT !.reputation_score = score]
  BY DEF Slash
<1> HIDE DEF score, streak, audits
<1>5. Slash(r, a) \in DomainRecord
  <2>1. [r EXCEPT !.audits_count = audits] \in DomainRecord
    BY <1>3, FieldUpdate
  <2>2. [[r EXCEPT !.audits_count = audits] EXCEPT !.consecutive_clean_count = 0] \in DomainRecord
    BY <2>1, FieldUpdate
  <2>3. [[[r EXCEPT !.audits_count = audits] EXCEPT !.consecutive_clean_count = 0]
           EXCEPT !.consecutive_deceptive_count = streak] \in DomainRecord
    BY <2>2, <1>3, FieldUpdate
  <2>4. [[[[r EXCEPT !.audits_count = audits] EXCEPT !.consecutive_clean_count = 0]
           EXCEPT !.consecutive_deceptive_count = streak] EXCEPT !.reputation_score = score] \in DomainRecord
    BY <2>3, <1>2, FieldUpdate
  <2> QED
    BY <2>4, <1>4
<1>6. /\ Slash(r, a).status = r.status
      /\ Slash(r, a).polling_backoff_factor = r.polling_backoff_factor
      /\ Slash(r, a).consecutive_clean_count = 0
      /\ Slash(r, a).consecutive_deceptive_count = streak
      /\ Slash(r, a).reputation_score = score
  BY <1>4 DEF DomainRecord
<1> QED
  BY <1>2, <1>5, <1>6 DEF streak

LEMMA CreditFacts ==
  ASSUME NEW r \in DomainRecord, NEW a \in Reports, IsClean(a)
  PROVE  /\ Credit(r, a) \in DomainRecord
         /\ Credit(r, a).status = r.status
         /\ Credit(r, a).polling_backoff_factor = r.polling_backoff_factor
         /\ Credit(r, a).consecutive_deceptive_count = 0
         /\ Credit(r, a).reputation_score >= r.reputation_score
         /\ Credit(r, a).reputation_score <= r.reputation_score + 50
         /\ Redeemed(r) => Redeemed(Credit(r, a))
<1> DEFINE score == Raise(r.reputation_score, Gain(a))
<1> DEFINE subjects == r.distinct_clean_subjects \union ({a.subject_id} \ {NoSubject})
<1> DEFINE streak == r.consecutive_clean_count + 1
<1> DEFINE audits == r.audits_count + 1
<1>1. r.reputation_score \in 0..1000
  BY DEF DomainRecord
<1>2. score \in 0..1000 /\ score >= r.reputation_score /\ score <= r.reputation_score + 50
  <2>1. Gain(a) \in 0..50
    BY GainIsSmall
  <2> QED
    BY <1>1, <2>1, Raised
<1>3. subjects \in SUBSET Subjects
  BY ReportsAssumption DEF Report, DomainRecord
<1>4. streak \in Nat /\ audits \in Nat /\ r.consecutive_clean_count \in Nat
  BY DEF DomainRecord
<1>5. Credit(r, a) =
        [[[[[r EXCEPT !.audits_count = audits] EXCEPT !.consecutive_deceptive_count = 0]
             EXCEPT !.consecutive_clean_count = streak] EXCEPT !.reputation_score = score]
             EXCEPT !.distinct_clean_subjects = subjects]
  BY DEF Credit
<1>6. r.distinct_clean_subjects \subseteq subjects
  OBVIOUS
<1> HIDE DEF score, subjects, streak, audits
<1>7. Credit(r, a) \in DomainRecord
  <2>1. [r EXCEPT !.audits_count = audits] \in DomainRecord
    BY <1>4, FieldUpdate
  <2>2. [[r EXCEPT !.audits_count = audits] EXCEPT !.consecutive_deceptive_count = 0] \in DomainRecord
    BY <2>1, FieldUpdate
  <2>3. [[[r EXCEPT !.audits_count = audits] EXCEPT !.consecutive_deceptive_count = 0]
           EXCEPT !.consecutive_clean_count = streak] \in DomainRecord
    BY <2>2, <1>4, FieldUpdate
  <2>4. [[[[r EXCEPT !.audits_count = audits] EXCEPT !.consecutive_deceptive_count = 0]
           EXCEPT !.consecutive_clean_count = streak] EXCEPT !.reputation_score = score] \in DomainRecord
    BY <2>3, <1>2, FieldUpdate
  <2>5. [[[[[r EXCEPT !.audits_count = audits] EXCEPT !.consecutive_deceptive_count = 0]
           EXCEPT !.consecutive_clean_count = streak] EXCEPT !.reputation_score = score]
           EXCEPT !.distinct_clean_subjects = subjects] \in DomainRecord
    BY <2>4, <1>3, FieldUpdate
  <2> QED
    BY <2>5, <1>5
<1>8. /\ Credit(r, a).reputation_score = score
      /\ Credit(r, a).distinct_clean_subjects = subjects
      /\ Credit(r, a).consecutive_clean_count = streak
      /\ Credit(r, a).consecutive_deceptive_count = 0
      /\ Credit(r, a).status = r.status
      /\ Credit(r, a).polling_backoff_factor = r.polling_backoff_factor
  BY <1>5 DEF DomainRecord
<1>9. Redeemed(r) => Redeemed(Credit(r, a))
  <2> SUFFICES ASSUME Redeemed(r) PROVE Redeemed(Credit(r, a))
    OBVIOUS
  <2>1. streak >= 5
    BY <1>4 DEF Redeemed, streak
  <2>2. DistinctSubjects(Credit(r, a))
    BY <1>6, <1>8 DEF Redeemed, DistinctSubjects
  <2> QED
    BY <2>1, <2>2, <1>8 DEF Redeemed
<1> QED
  BY <1>2, <1>7, <1>8, <1>9

LEMMA ProgressRange ==
  ASSUME NEW r \in DomainRecord PROVE Progress(r) \in 0..100
BY DEF Progress, DomainRecord

\* A change of standing keeps the score, the streaks and the cleared subjects.
Keeps(u, r) ==
    /\ u.reputation_score = r.reputation_score
    /\ u.consecutive_clean_count = r.consecutive_clean_count
    /\ u.consecutive_deceptive_count = r.consecutive_deceptive_count
    /\ u.distinct_clean_subjects = r.distinct_clean_subjects

LEMMA SuspectFacts ==
  ASSUME NEW r \in DomainRecord
  PROVE  Suspect(r) \in DomainRecord /\ Suspect(r).status = "SUSPICIOUS" /\ Keeps(Suspect(r), r)
<1>1. Suspect(r) \in DomainRecord
  BY FieldUpdate DEF Suspect, Statuses
<1>2. Suspect(r).status = "SUSPICIOUS" /\ Keeps(Suspect(r), r)
  BY DEF Suspect, DomainRecord, Keeps
<1> QED
  BY <1>1, <1>2

LEMMA PromoteFacts ==
  ASSUME NEW r \in DomainRecord, NEW standing \in Statuses
  PROVE  /\ Promote(r, standing) \in DomainRecord
         /\ Promote(r, standing).status = standing
         /\ Promote(r, standing).polling_backoff_factor = 1
         /\ Keeps(Promote(r, standing), r)
<1> DEFINE u == [r EXCEPT !.status = standing]
<1>1. Promote(r, standing) = [u EXCEPT !.polling_backoff_factor = 1]
  BY DEF Promote
<1>2. u \in DomainRecord
  BY FieldUpdate
<1>3. u.status = standing /\ Keeps(u, r)
  BY DEF DomainRecord, Keeps
<1> HIDE DEF u
<1>4. [u EXCEPT !.polling_backoff_factor = 1] \in DomainRecord
  BY <1>2, FieldUpdate DEF BackoffFactors
<1> QED
  BY <1>1, <1>2, <1>3, <1>4 DEF DomainRecord, Keeps

LEMMA WithProgressFacts ==
  ASSUME NEW r \in DomainRecord, NEW pct \in 0..100
  PROVE  /\ WithProgress(r, pct) \in DomainRecord
         /\ WithProgress(r, pct).status = r.status
         /\ WithProgress(r, pct).polling_backoff_factor = r.polling_backoff_factor
         /\ Keeps(WithProgress(r, pct), r)
<1>1. WithProgress(r, pct) \in DomainRecord
  BY FieldUpdate DEF WithProgress
<1> QED
  BY <1>1 DEF WithProgress, DomainRecord, Keeps

LEMMA GraduateFacts ==
  ASSUME NEW r \in DomainRecord
  PROVE  /\ Graduate(r) \in DomainRecord
         /\ Graduate(r).status = "PROBATIONARY_RECOVERY"
         /\ Keeps(Graduate(r), r)
<1> DEFINE b == IF r.polling_backoff_factor >= 4 THEN r.polling_backoff_factor \div 4 ELSE 1
<1> DEFINE u == [r EXCEPT !.status = "PROBATIONARY_RECOVERY"]
<1>1. b \in BackoffFactors
  <2>1. r.polling_backoff_factor \in {1, 2, 4, 8, 16, 32, 64}
    BY DEF DomainRecord, BackoffFactors
  <2> QED
    BY <2>1 DEF BackoffFactors
<1>2. Graduate(r) = [u EXCEPT !.polling_backoff_factor = b]
  BY DEF Graduate
<1> HIDE DEF b
<1>3. u \in DomainRecord
  BY FieldUpdate DEF Statuses
<1>4. u.status = "PROBATIONARY_RECOVERY" /\ Keeps(u, r)
  BY DEF DomainRecord, Keeps
<1> HIDE DEF u
<1>5. [u EXCEPT !.polling_backoff_factor = b] \in DomainRecord
  BY <1>1, <1>3, FieldUpdate
<1> QED
  BY <1>2, <1>3, <1>4, <1>5 DEF DomainRecord, Keeps

LEMMA QuarantineFacts ==
  ASSUME NEW r \in DomainRecord, r.consecutive_deceptive_count >= 1
  PROVE  /\ Quarantine(r) \in DomainRecord
         /\ Quarantine(r).status = "QUARANTINED_PROBATION"
         /\ Quarantine(r).polling_backoff_factor >= 2
         /\ Keeps(Quarantine(r), r)
<1> DEFINE b == compute_polling_backoff(r.consecutive_deceptive_count)
<1> DEFINE u == [r EXCEPT !.status = "QUARANTINED_PROBATION"]
<1> DEFINE v == [u EXCEPT !.polling_backoff_factor = b]
<1>1. b \in BackoffFactors /\ b >= 2
  <2>1. r.consecutive_deceptive_count \in Nat
    BY DEF DomainRecord
  <2>2. b \in BackoffFactors \ {1}
    BY <2>1, BackoffRange
  <2> QED
    BY <2>2 DEF BackoffFactors
<1>2. Quarantine(r) = [v EXCEPT !.redemption_progress_pct = 0]
  BY DEF Quarantine
<1> HIDE DEF b
<1>3. u \in DomainRecord
  BY FieldUpdate DEF Statuses
<1>4. u.status = "QUARANTINED_PROBATION" /\ Keeps(u, r)
  BY DEF DomainRecord, Keeps
<1> HIDE DEF u
<1>5. v \in DomainRecord
  BY <1>1, <1>3, FieldUpdate
<1>6. v.status = "QUARANTINED_PROBATION" /\ v.polling_backoff_factor = b /\ Keeps(v, r)
  BY <1>3, <1>4 DEF DomainRecord, Keeps
<1> HIDE DEF v
<1>7. [v EXCEPT !.redemption_progress_pct = 0] \in DomainRecord
  <2>1. 0 \in 0..100
    OBVIOUS
  <2> QED
    BY <1>5, <2>1, FieldUpdate
<1>8. /\ Quarantine(r).status = "QUARANTINED_PROBATION"
      /\ Quarantine(r).polling_backoff_factor = b
      /\ Keeps(Quarantine(r), r)
  BY <1>2, <1>5, <1>6 DEF DomainRecord, Keeps
<1> QED
  BY <1>1, <1>2, <1>7, <1>8

LEMMA RelapseFacts ==
  ASSUME NEW r \in DomainRecord
  PROVE  /\ Relapse(r) \in DomainRecord
         /\ Relapse(r).status = "QUARANTINED_PROBATION"
         /\ Relapse(r).polling_backoff_factor = 64
         /\ Relapse(r).consecutive_clean_count = r.consecutive_clean_count
<1> DEFINE u == [r EXCEPT !.status = "QUARANTINED_PROBATION"]
<1> DEFINE v == [u EXCEPT !.consecutive_deceptive_count = 6]
<1> DEFINE w == [v EXCEPT !.polling_backoff_factor = 64]
<1> DEFINE x == [w EXCEPT !.redemption_progress_pct = 0]
<1>1. Relapse(r) = [x EXCEPT !.distinct_clean_subjects = {}]
  BY DEF Relapse
<1>2. u \in DomainRecord
  BY FieldUpdate DEF Statuses
<1>3. v \in DomainRecord
  <2> HIDE DEF u
  <2> QED BY <1>2, FieldUpdate
<1>4. w \in DomainRecord
  <2> HIDE DEF v
  <2> QED BY <1>3, FieldUpdate DEF BackoffFactors
<1>5. x \in DomainRecord
  <2> HIDE DEF w
  <2>1. 0 \in 0..100
    OBVIOUS
  <2> QED BY <1>4, <2>1, FieldUpdate
<1>6. [x EXCEPT !.distinct_clean_subjects = {}] \in DomainRecord
  <2> HIDE DEF x
  <2> QED BY <1>5, FieldUpdate
<1>7. /\ Relapse(r).status = "QUARANTINED_PROBATION"
      /\ Relapse(r).polling_backoff_factor = 64
      /\ Relapse(r).consecutive_clean_count = r.consecutive_clean_count
  BY DEF Relapse, DomainRecord
<1> QED
  BY <1>1, <1>6, <1>7, Zenon

-----------------------------------------------------------------------------
\* A deceptive report preserves the invariant, and no record becomes trusted by it.
LEMMA DeceptivePreserves ==
  ASSUME NEW r, RecordInv(r), NEW a \in Reports
  PROVE  /\ RecordInv(AfterDeceptive(r, a))
         /\ AfterDeceptive(r, a).status = "TRUSTED" => r.status = "TRUSTED"
<1> DEFINE s == Slash(r, a)
<1>1. r \in DomainRecord
  BY DEF RecordInv
<1>2. s \in DomainRecord
  BY <1>1, SlashFacts
<1>3. s.status = r.status /\ s.polling_backoff_factor = r.polling_backoff_factor
  BY <1>1, SlashFacts
<1>4. s.consecutive_clean_count = 0
  BY <1>1, SlashFacts
<1>5. s.reputation_score <= r.reputation_score
  BY <1>1, SlashFacts
<1>6. s.consecutive_deceptive_count >= 1
  <2>1. r.consecutive_deceptive_count \in Nat
    BY <1>1 DEF DomainRecord
  <2>2. s.consecutive_deceptive_count = r.consecutive_deceptive_count + 1
    BY <1>1, SlashFacts
  <2> QED
    BY <2>1, <2>2
<1>7. r.reputation_score \in Nat
  BY <1>1 DEF DomainRecord
<1>8. s.reputation_score \in Nat
  BY <1>2 DEF DomainRecord
<1>9. s.consecutive_deceptive_count \in Nat
  BY <1>2 DEF DomainRecord
<1>10. AfterDeceptive(r, a) =
         IF r.status = "PROBATIONARY_RECOVERY" THEN Relapse(s)
         ELSE IF MustQuarantine(s) THEN Quarantine(s)
         ELSE IF s.reputation_score <= 400 THEN Suspect(s)
         ELSE s
  BY DEF AfterDeceptive
<1>11. ~Redeemed(s)
  BY <1>4 DEF Redeemed
<1> HIDE DEF s
<1>12. CASE r.status = "PROBATIONARY_RECOVERY"
  <2> DEFINE u == Relapse(s)
  <2>1. AfterDeceptive(r, a) = u
    BY <1>10, <1>12
  <2>2. /\ u \in DomainRecord /\ u.status = "QUARANTINED_PROBATION"
        /\ u.polling_backoff_factor = 64 /\ u.consecutive_clean_count = 0
    BY <1>2, <1>4, RelapseFacts
  <2> HIDE DEF u
  <2>3. RecordInv(u)
    BY <2>2 DEF RecordInv, Redeemed
  <2> QED
    BY <2>1, <2>2, <2>3
<1>13. CASE r.status # "PROBATIONARY_RECOVERY" /\ MustQuarantine(s)
  <2> DEFINE u == Quarantine(s)
  <2>1. AfterDeceptive(r, a) = u
    BY <1>10, <1>13
  <2>2. /\ u \in DomainRecord /\ u.status = "QUARANTINED_PROBATION"
        /\ u.polling_backoff_factor >= 2 /\ u.consecutive_clean_count = 0
    BY <1>2, <1>4, <1>6, QuarantineFacts DEF Keeps
  <2> HIDE DEF u
  <2>3. RecordInv(u)
    BY <2>2 DEF RecordInv, Redeemed
  <2> QED
    BY <2>1, <2>2, <2>3
<1>14. ~MustQuarantine(s) =>
         s.reputation_score > 200 /\ s.consecutive_deceptive_count < 3
  BY <1>8, <1>9 DEF MustQuarantine
<1>15. CASE /\ r.status # "PROBATIONARY_RECOVERY" /\ ~MustQuarantine(s)
            /\ s.reputation_score <= 400
  <2> DEFINE u == Suspect(s)
  <2>1. AfterDeceptive(r, a) = u
    BY <1>10, <1>15
  <2>2. /\ u \in DomainRecord /\ u.status = "SUSPICIOUS"
        /\ u.reputation_score = s.reputation_score
        /\ u.consecutive_deceptive_count = s.consecutive_deceptive_count
    BY <1>2, SuspectFacts DEF Keeps
  <2> HIDE DEF u
  <2>3. s.reputation_score < 450
    BY <1>8, <1>15
  <2>4. RecordInv(u)
    BY <1>14, <1>15, <2>2, <2>3 DEF RecordInv
  <2> QED
    BY <2>1, <2>2, <2>4
<1>16. CASE /\ r.status # "PROBATIONARY_RECOVERY" /\ ~MustQuarantine(s)
            /\ ~(s.reputation_score <= 400)
  <2>1. AfterDeceptive(r, a) = s
    BY <1>10, <1>16
  <2>2. s.reputation_score > 400
    BY <1>8, <1>16
  <2>3. r.status = "SUSPICIOUS" => s.reputation_score < 450
    <3>1. r.status = "SUSPICIOUS" => r.reputation_score < 450
      BY DEF RecordInv
    <3> QED
      BY <1>5, <1>7, <1>8, <3>1
  <2>4. /\ r.status \in {"TRUSTED", "NEUTRAL"} => r.polling_backoff_factor = 1
        /\ r.status = "QUARANTINED_PROBATION" => r.polling_backoff_factor >= 2
    BY DEF RecordInv
  <2>5. RecordInv(s)
    BY <1>2, <1>3, <1>11, <1>14, <1>16, <2>2, <2>3, <2>4 DEF RecordInv
  <2> QED
    BY <2>1, <2>5, <1>3
<1> QED
  BY <1>12, <1>13, <1>15, <1>16

\* A clean report preserves the invariant, and trust comes from trust or neutrality.
LEMMA CleanPreserves ==
  ASSUME NEW r, RecordInv(r), NEW a \in Reports, IsClean(a)
  PROVE  /\ RecordInv(AfterClean(r, a))
         /\ AfterClean(r, a).status = "TRUSTED" => r.status \in {"TRUSTED", "NEUTRAL"}
<1> DEFINE s == Credit(r, a)
<1>1. r \in DomainRecord
  BY DEF RecordInv
<1>2. s \in DomainRecord
  BY <1>1, CreditFacts
<1>3. s.status = r.status /\ s.polling_backoff_factor = r.polling_backoff_factor
  BY <1>1, CreditFacts
<1>4. s.consecutive_deceptive_count = 0
  BY <1>1, CreditFacts
<1>5. s.reputation_score >= r.reputation_score
  BY <1>1, CreditFacts
<1>6. s.reputation_score <= r.reputation_score + 50
  BY <1>1, CreditFacts
<1>7. Redeemed(r) => Redeemed(s)
  BY <1>1, CreditFacts
<1>8. r.reputation_score \in Nat
  BY <1>1 DEF DomainRecord
<1>9. s.reputation_score \in Nat
  BY <1>2 DEF DomainRecord
<1>10. AfterClean(r, a) =
         IF OnProbation(s) THEN Redemption(s)
         ELSE IF s.reputation_score >= 750 /\ s.consecutive_clean_count >= 3
         THEN Promote(s, "TRUSTED")
         ELSE IF s.reputation_score >= 450 THEN Promote(s, "NEUTRAL")
         ELSE s
  BY DEF AfterClean
<1>11. "TRUSTED" \in Statuses /\ "NEUTRAL" \in Statuses
  BY DEF Statuses
<1>12. r.status \in Statuses
  BY <1>1 DEF DomainRecord
<1> HIDE DEF s
<1>13. CASE OnProbation(s)
  <2> DEFINE t == WithProgress(s, Progress(s))
  <2>1. t \in DomainRecord
    BY <1>2, ProgressRange, WithProgressFacts
  <2>2. t.status = s.status /\ t.polling_backoff_factor = s.polling_backoff_factor
    BY <1>2, ProgressRange, WithProgressFacts
  <2>3. Keeps(t, s)
    BY <1>2, ProgressRange, WithProgressFacts
  <2>4. Redemption(s) =
          IF Redeemed(t) /\ t.status = "QUARANTINED_PROBATION" THEN Graduate(t)
          ELSE IF Redeemed(t) /\ t.reputation_score >= 500
          THEN WithProgress(Promote(t, "NEUTRAL"), 100)
          ELSE t
    BY DEF Redemption
  <2> HIDE DEF t
  <2>5. t.status \in {"QUARANTINED_PROBATION", "PROBATIONARY_RECOVERY"}
    BY <1>13, <2>2 DEF OnProbation
  <2>6. Redeemed(t) <=> Redeemed(s)
    BY <2>3 DEF Redeemed, DistinctSubjects, Keeps
  <2>7. t.reputation_score \in Nat
    BY <2>1 DEF DomainRecord
  <2>8. CASE Redeemed(t) /\ t.status = "QUARANTINED_PROBATION"
    <3> DEFINE u == Graduate(t)
    <3>1. AfterClean(r, a) = u
      BY <1>10, <1>13, <2>4, <2>8
    <3>2. u \in DomainRecord /\ u.status = "PROBATIONARY_RECOVERY" /\ Keeps(u, t)
      BY <2>1, GraduateFacts
    <3> HIDE DEF u
    <3>3. Redeemed(u) /\ u.consecutive_deceptive_count = 0
      BY <1>4, <2>3, <2>8, <3>2 DEF Redeemed, DistinctSubjects, Keeps
    <3>4. RecordInv(u)
      BY <3>2, <3>3 DEF RecordInv
    <3> QED
      BY <3>1, <3>2, <3>4
  <2>9. CASE /\ ~(Redeemed(t) /\ t.status = "QUARANTINED_PROBATION")
             /\ Redeemed(t) /\ t.reputation_score >= 500
    <3> DEFINE v == Promote(t, "NEUTRAL")
    <3> DEFINE u == WithProgress(v, 100)
    <3>1. AfterClean(r, a) = u
      BY <1>10, <1>13, <2>4, <2>9
    <3>2. v \in DomainRecord /\ v.status = "NEUTRAL" /\ v.polling_backoff_factor = 1 /\ Keeps(v, t)
      BY <1>11, <2>1, PromoteFacts
    <3> HIDE DEF v
    <3>3. 100 \in 0..100
      OBVIOUS
    <3>4. u \in DomainRecord /\ u.status = "NEUTRAL" /\ u.polling_backoff_factor = 1 /\ Keeps(u, v)
      BY <3>2, <3>3, WithProgressFacts
    <3> HIDE DEF u
    <3>5. u.reputation_score = t.reputation_score /\ u.consecutive_deceptive_count = 0
      BY <1>4, <2>3, <3>2, <3>4 DEF Keeps
    <3>6. t.reputation_score > 400
      BY <2>7, <2>9
    <3>7. RecordInv(u)
      BY <3>4, <3>5, <3>6 DEF RecordInv
    <3> QED
      BY <3>1, <3>4, <3>7
  <2>10. CASE /\ ~(Redeemed(t) /\ t.status = "QUARANTINED_PROBATION")
              /\ ~(Redeemed(t) /\ t.reputation_score >= 500)
    <3>1. AfterClean(r, a) = t
      BY <1>10, <1>13, <2>4, <2>10
    <3>2. /\ r.status = "QUARANTINED_PROBATION" => r.polling_backoff_factor >= 2
          /\ r.status = "PROBATIONARY_RECOVERY" => Redeemed(r)
      BY DEF RecordInv
    <3>3. t.consecutive_deceptive_count = 0
      BY <1>4, <2>3 DEF Keeps
    <3>4. RecordInv(t)
      BY <1>3, <1>7, <2>1, <2>2, <2>5, <2>6, <2>10, <3>2, <3>3 DEF RecordInv
    <3> QED
      BY <3>1, <3>4, <2>5
  <2> QED
    BY <2>8, <2>9, <2>10
<1>14. CASE ~OnProbation(s)
  <2>1. r.status \in {"TRUSTED", "NEUTRAL", "SUSPICIOUS"}
    BY <1>3, <1>12, <1>14 DEF OnProbation, Statuses
  <2>2. r.status = "SUSPICIOUS" => r.reputation_score > 200 /\ r.reputation_score < 450
    BY DEF RecordInv
  <2>3. r.status \in {"TRUSTED", "NEUTRAL"} =>
          r.reputation_score > 400 /\ r.polling_backoff_factor = 1
    BY DEF RecordInv
  <2>4. CASE s.reputation_score >= 750 /\ s.consecutive_clean_count >= 3
    <3> DEFINE u == Promote(s, "TRUSTED")
    <3>1. AfterClean(r, a) = u
      BY <1>10, <1>14, <2>4
    <3>2. u \in DomainRecord /\ u.status = "TRUSTED" /\ u.polling_backoff_factor = 1 /\ Keeps(u, s)
      BY <1>2, <1>11, PromoteFacts
    <3> HIDE DEF u
    <3>3. s.reputation_score > 400
      BY <1>9, <2>4
    <3>4. RecordInv(u)
      BY <1>4, <3>2, <3>3 DEF RecordInv, Keeps
    <3>5. r.status # "SUSPICIOUS"
      BY <1>6, <1>8, <1>9, <2>2, <2>4
    <3> QED
      BY <3>1, <3>4, <3>5, <2>1
  <2>5. CASE ~(s.reputation_score >= 750 /\ s.consecutive_clean_count >= 3) /\ s.reputation_score >= 450
    <3> DEFINE u == Promote(s, "NEUTRAL")
    <3>1. AfterClean(r, a) = u
      BY <1>10, <1>14, <2>5
    <3>2. u \in DomainRecord /\ u.status = "NEUTRAL" /\ u.polling_backoff_factor = 1 /\ Keeps(u, s)
      BY <1>2, <1>11, PromoteFacts
    <3> HIDE DEF u
    <3>3. s.reputation_score > 400
      BY <1>9, <2>5
    <3>4. RecordInv(u)
      BY <1>4, <3>2, <3>3 DEF RecordInv, Keeps
    <3> QED
      BY <3>1, <3>2, <3>4
  <2>6. CASE ~(s.reputation_score >= 450)
    <3>1. s.reputation_score < 450
      BY <1>9, <2>6
    <3>2. AfterClean(r, a) = s
      <4>1. ~(s.reputation_score >= 750)
        BY <1>9, <3>1
      <4> QED
        BY <1>10, <1>14, <2>6, <4>1
    <3>3. s.status = "SUSPICIOUS" => s.reputation_score > 200
      BY <1>3, <1>5, <1>8, <1>9, <2>2
    <3>4. s.status \in {"TRUSTED", "NEUTRAL"} => s.reputation_score > 400
      BY <1>3, <1>5, <1>8, <1>9, <2>3
    <3>5. RecordInv(s)
      BY <1>2, <1>3, <1>4, <2>1, <2>3, <3>1, <3>3, <3>4 DEF RecordInv
    <3> QED
      BY <3>2, <3>5, <1>3, <2>1
  <2> QED
    BY <2>4, <2>5, <2>6
<1> QED
  BY <1>13, <1>14

LEMMA MiddlingPreserves ==
  ASSUME NEW r, RecordInv(r)
  PROVE  RecordInv(AfterMiddling(r)) /\ AfterMiddling(r).status = r.status
BY DEF RecordInv, AfterMiddling, DomainRecord, Redeemed, DistinctSubjects

-----------------------------------------------------------------------------
\* The update of a record is a record, whatever the relation between its fields.
LEMMA UpdateIsRecord ==
  ASSUME NEW r \in DomainRecord, NEW a \in Reports
  PROVE  update(r, a) \in DomainRecord
<1>1. CASE IsDeceptive(a)
  <2> DEFINE s == Slash(r, a)
  <2>1. s \in DomainRecord
    BY SlashFacts
  <2>2. s.consecutive_deceptive_count >= 1
    <3>1. r.consecutive_deceptive_count \in Nat
      BY DEF DomainRecord
    <3> QED
      BY <3>1, SlashFacts
  <2>3. update(r, a) \in {Relapse(s), Quarantine(s), Suspect(s), s}
    BY <1>1 DEF update, AfterDeceptive
  <2> HIDE DEF s
  <2> QED
    BY <2>1, <2>2, <2>3, RelapseFacts, QuarantineFacts, SuspectFacts
<1>2. CASE ~IsDeceptive(a) /\ IsClean(a)
  <2> DEFINE s == Credit(r, a)
  <2> DEFINE t == WithProgress(s, Progress(s))
  <2>1. s \in DomainRecord
    BY <1>2, CreditFacts
  <2>2. t \in DomainRecord
    BY <2>1, ProgressRange, WithProgressFacts
  <2>3. update(r, a) \in {Graduate(t), WithProgress(Promote(t, "NEUTRAL"), 100), t,
                          Promote(s, "TRUSTED"), Promote(s, "NEUTRAL"), s}
    BY <1>2 DEF update, AfterClean, Redemption
  <2> HIDE DEF s, t
  <2>4. "TRUSTED" \in Statuses /\ "NEUTRAL" \in Statuses /\ 100 \in 0..100
    BY DEF Statuses
  <2>5. Promote(t, "NEUTRAL") \in DomainRecord
    BY <2>2, <2>4, PromoteFacts
  <2>6. WithProgress(Promote(t, "NEUTRAL"), 100) \in DomainRecord
    BY <2>4, <2>5, WithProgressFacts
  <2> QED
    BY <2>1, <2>2, <2>3, <2>4, <2>6, GraduateFacts, PromoteFacts
<1>3. CASE ~IsDeceptive(a) /\ ~IsClean(a)
  <2>1. r.audits_count + 1 \in Nat
    BY DEF DomainRecord
  <2> QED
    BY <1>3, <2>1, FieldUpdate DEF update, AfterMiddling
<1> QED
  BY <1>1, <1>2, <1>3

\* Every update counts one audit.
LEMMA UpdateCounts ==
  ASSUME NEW r \in DomainRecord, NEW a \in Reports
  PROVE  update(r, a).audits_count = r.audits_count + 1
<1>1. ASSUME NEW u \in DomainRecord
      PROVE  /\ Relapse(u).audits_count = u.audits_count
             /\ Quarantine(u).audits_count = u.audits_count
             /\ Suspect(u).audits_count = u.audits_count
             /\ Graduate(u).audits_count = u.audits_count
             /\ \A st : Promote(u, st).audits_count = u.audits_count
             /\ \A p : WithProgress(u, p).audits_count = u.audits_count
  BY DEF DomainRecord, Relapse, Quarantine, Suspect, Graduate, Promote, WithProgress
<1>2. CASE IsDeceptive(a)
  <2> DEFINE s == Slash(r, a)
  <2>1. s \in DomainRecord
    BY SlashFacts
  <2>2. s.audits_count = r.audits_count + 1
    BY DEF Slash, DomainRecord
  <2>3. update(r, a) \in {Relapse(s), Quarantine(s), Suspect(s), s}
    BY <1>2 DEF update, AfterDeceptive
  <2> HIDE DEF s
  <2> QED
    BY <1>1, <2>1, <2>2, <2>3
<1>3. CASE ~IsDeceptive(a) /\ IsClean(a)
  <2> DEFINE s == Credit(r, a)
  <2> DEFINE t == WithProgress(s, Progress(s))
  <2> DEFINE v == Promote(t, "NEUTRAL")
  <2>1. s \in DomainRecord
    BY <1>3, CreditFacts
  <2>2. s.audits_count = r.audits_count + 1
    BY DEF Credit, DomainRecord
  <2>3. t \in DomainRecord
    BY <2>1, ProgressRange, WithProgressFacts
  <2>4. v \in DomainRecord
    BY <2>3, PromoteFacts DEF Statuses
  <2>5. update(r, a) \in {Graduate(t), WithProgress(v, 100), t,
                          Promote(s, "TRUSTED"), Promote(s, "NEUTRAL"), s}
    BY <1>3 DEF update, AfterClean, Redemption
  <2>6. t.audits_count = s.audits_count /\ v.audits_count = t.audits_count
    BY <1>1, <2>1, <2>3
  <2> HIDE DEF s, t, v
  <2> QED
    BY <1>1, <2>1, <2>2, <2>3, <2>4, <2>5, <2>6
<1>4. CASE ~IsDeceptive(a) /\ ~IsClean(a)
  BY <1>4 DEF update, AfterMiddling, DomainRecord
<1> QED
  BY <1>2, <1>3, <1>4

-----------------------------------------------------------------------------
\* The inductive invariant of a behaviour.
RepInv == RecordInv(rep)

\* What the instance says of a row is what the module says of it.
LEMMA SameForRow ==
  ASSUME NEW r, NEW a
  PROVE  /\ Rep!IsDeceptive(a) <=> IsDeceptive(a)
         /\ Rep!IsClean(a) <=> IsClean(a)
         /\ Rep!AfterDeceptive(r, a) = AfterDeceptive(r, a)
         /\ Rep!AfterClean(r, a) = AfterClean(r, a)
         /\ Rep!AfterMiddling(r) = AfterMiddling(r)
<1>1. (Rep!IsDeceptive(a) <=> IsDeceptive(a)) /\ (Rep!IsClean(a) <=> IsClean(a))
  BY DEF Rep!IsDeceptive, IsDeceptive, Rep!IsClean, IsClean
<1>2. \A u : Rep!Slash(u, a) = Slash(u, a)
  BY DEF Rep!Slash, Slash, Rep!Lower, Lower, Rep!Penalty, Penalty,
         Rep!RoundDiv, RoundDiv
<1>3. \A u : /\ Rep!Relapse(u) = Relapse(u)
             /\ Rep!Suspect(u) = Suspect(u)
             /\ Rep!Quarantine(u) = Quarantine(u)
             /\ Rep!MustQuarantine(u) <=> MustQuarantine(u)
  BY DEF Rep!Relapse, Relapse, Rep!Suspect, Suspect, Rep!Quarantine, Quarantine,
         Rep!MustQuarantine, MustQuarantine,
         Rep!compute_polling_backoff, compute_polling_backoff
<1>4. \A u : Rep!Credit(u, a) = Credit(u, a)
  BY DEF Rep!Credit, Credit, Rep!Raise, Raise, Rep!Gain, Gain,
         Rep!RoundDiv, RoundDiv
<1>5. \A u : /\ Rep!Redeemed(u) <=> Redeemed(u)
             /\ Rep!Progress(u) = Progress(u)
             /\ Rep!OnProbation(u) <=> OnProbation(u)
  BY DEF Rep!Redeemed, Redeemed, Rep!Progress, Progress, Rep!OnProbation,
         OnProbation, Rep!DistinctSubjects, DistinctSubjects
<1>6. \A u, x : /\ Rep!Graduate(u) = Graduate(u)
                /\ Rep!Promote(u, x) = Promote(u, x)
                /\ Rep!WithProgress(u, x) = WithProgress(u, x)
  BY DEF Rep!Graduate, Graduate, Rep!Promote, Promote, Rep!WithProgress, WithProgress
<1>7. \A u : Rep!Redemption(u) = Redemption(u)
  BY <1>5, <1>6 DEF Rep!Redemption, Redemption
<1>8. Rep!AfterDeceptive(r, a) = AfterDeceptive(r, a)
  BY <1>2, <1>3 DEF Rep!AfterDeceptive, AfterDeceptive
<1>9. Rep!AfterClean(r, a) = AfterClean(r, a)
  BY <1>4, <1>5, <1>6, <1>7 DEF Rep!AfterClean, AfterClean
<1>10. Rep!AfterMiddling(r) = AfterMiddling(r)
  BY DEF Rep!AfterMiddling, AfterMiddling
<1> QED
  BY <1>1, <1>8, <1>9, <1>10

LEMMA SameRow ==
  /\ Rep!DomainRecord = DomainRecord /\ Rep!NewRecord = NewRecord
  /\ \A r : Rep!Redeemed(r) <=> Redeemed(r)
BY DEF Rep!DomainRecord, DomainRecord, Rep!NewRecord, NewRecord, Rep!Redeemed, Redeemed,
       Rep!DistinctSubjects, DistinctSubjects, Rep!Statuses, Statuses, Rep!BackoffFactors, BackoffFactors

LEMMA RepInit == Rep!Init => RepInv
BY SameRow DEF Rep!Init, RepInv, RecordInv, NewRecord, DomainRecord, Statuses, BackoffFactors

LEMMA RepNext ==
  RepInv /\ [Rep!Next]_(Rep!vars) => RepInv' /\ (rep'.status = "TRUSTED" => rep.status \in {"TRUSTED", "NEUTRAL"} \/ rep' = rep)
<1> SUFFICES ASSUME RepInv, [Rep!Next]_(Rep!vars)
             PROVE  RepInv' /\ (rep'.status = "TRUSTED" =>
                                 rep.status \in {"TRUSTED", "NEUTRAL"} \/ rep' = rep)
  OBVIOUS
<1>1. CASE UNCHANGED Rep!vars
  BY <1>1 DEF RepInv, Rep!vars
<1>2. ASSUME NEW a \in Reports, Rep!DeceptiveAudit(a)
      PROVE  RepInv' /\ (rep'.status = "TRUSTED" => rep.status \in {"TRUSTED", "NEUTRAL"})
  BY <1>2, DeceptivePreserves, SameForRow DEF Rep!DeceptiveAudit, RepInv
<1>3. ASSUME NEW a \in Reports, Rep!CleanAudit(a)
      PROVE  RepInv' /\ (rep'.status = "TRUSTED" => rep.status \in {"TRUSTED", "NEUTRAL"})
  BY <1>3, CleanPreserves, SameForRow DEF Rep!CleanAudit, RepInv
<1>4. ASSUME NEW a \in Reports, Rep!MiddlingAudit(a)
      PROVE  RepInv' /\ (rep'.status = "TRUSTED" => rep.status \in {"TRUSTED", "NEUTRAL"})
  BY <1>4, MiddlingPreserves, SameForRow DEF Rep!MiddlingAudit, RepInv
<1> QED
  BY <1>1, <1>2, <1>3, <1>4 DEF Rep!Next

LEMMA RepInvariance == Rep!Spec => []RepInv
<1>1. Rep!Init => RepInv
  BY RepInit
<1>2. RepInv /\ [Rep!Next]_(Rep!vars) => RepInv'
  BY RepNext
<1> QED
  BY <1>1, <1>2, PTL DEF Rep!Spec

\* The row of table domainreputation keeps its ranges in every behaviour.
THEOREM DomainTypeCorrect == Rep!Spec => []Rep!TypeOK
<1>1. RepInv => Rep!TypeOK
  BY SameRow DEF RepInv, RecordInv, Rep!TypeOK
<1> QED
  BY <1>1, RepInvariance, PTL

\* Standing, score and polling factor of a domain agree in every behaviour.
THEOREM BandsHold == Rep!Spec => []Rep!BandsHeld
<1>1. RepInv => Rep!BandsHeld
  BY DEF RepInv, RecordInv, Rep!BandsHeld
<1> QED
  BY <1>1, RepInvariance, PTL

\* No behaviour misses the doctrine's milestone or stays in recovery without it.
THEOREM DoctrineHolds == Rep!Spec => []Rep!DoctrineHeld
<1>1. RepInv => Rep!DoctrineHeld
  BY SameRow DEF RepInv, RecordInv, Rep!DoctrineHeld
<1> QED
  BY <1>1, RepInvariance, PTL

\* No step lifts a domain to TRUSTED from anything but NEUTRAL.
THEOREM TrustIsEarned == Rep!Spec => Rep!TrustedFromNeutral
<1>1. RepInv /\ [Rep!Next]_(Rep!vars) => [rep'.status = "TRUSTED" => rep.status \in {"TRUSTED", "NEUTRAL"}]_(Rep!vars)
  BY RepNext DEF Rep!vars
<1> QED
  BY <1>1, RepInvariance, PTL DEF Rep!Spec, Rep!TrustedFromNeutral

-----------------------------------------------------------------------------
\* A row written column by column from two records is a record.
LEMMA WrittenIsRecord ==
  ASSUME row \in DomainRecord, NEW old \in DomainRecord, NEW new \in DomainRecord
  PROVE  Written(old, new) \in DomainRecord
<1> DEFINE col(f) == IF new[f] # old[f] THEN new[f] ELSE row[f]
<1> DEFINE fields == {"reputation_score", "audits_count", "consecutive_clean_count",
                      "consecutive_deceptive_count", "status", "polling_backoff_factor",
                      "distinct_clean_subjects", "redemption_progress_pct"}
<1>1. DOMAIN row = fields
  BY DEF DomainRecord
<1>2. Written(old, new) = [f \in fields |-> col(f)]
  BY <1>1 DEF Written
<1>3. /\ col("reputation_score") \in 0..1000
      /\ col("audits_count") \in Nat
      /\ col("consecutive_clean_count") \in Nat
      /\ col("consecutive_deceptive_count") \in Nat
      /\ col("status") \in Statuses
      /\ col("polling_backoff_factor") \in BackoffFactors
      /\ col("distinct_clean_subjects") \in SUBSET Subjects
      /\ col("redemption_progress_pct") \in 0..100
  BY DEF DomainRecord
<1> HIDE DEF col
<1> QED
  BY <1>2, <1>3 DEF DomainRecord

\* When the session holds the row itself, the columns it writes make up its record.
LEMMA WrittenIsNew ==
  ASSUME row \in DomainRecord, NEW new \in DomainRecord
  PROVE  Written(row, new) = new
<1>1. DOMAIN row = DOMAIN new
  BY DEF DomainRecord
<1>2. new = [f \in DOMAIN new |-> new[f]]
  BY DEF DomainRecord
<1> QED
  BY <1>1, <1>2 DEF Written

LEMMA IntervalRange ==
  ASSUME NEW r \in DomainRecord PROVE PollingInterval(r) \in Intervals
BY DEF PollingInterval, Intervals, DomainRecord

LEMMA NewRecordIsRecord == NewRecord \in DomainRecord
BY DEF NewRecord, DomainRecord, Statuses, BackoffFactors

-----------------------------------------------------------------------------
\* A session past its insert has a row to update; the row is never deleted.
RowThere == \A s \in Sessions : pc[s] \notin {"idle", "insert"} => row # NoRow

LEMMA TypeInit == Init => TypeOK /\ RowThere
<1>1. 900 \in Intervals
  BY DEF Intervals, BackoffFactors
<1>2. ASSUME Init PROVE TypeOK
  <2>1. row \in DomainRecord \union {NoRow} /\ interval \in Intervals /\ completed \in Nat
        /\ lost \in Nat /\ adrift \in BOOLEAN
    BY <1>1, <1>2 DEF Init
  <2>2. pc \in [Sessions -> Steps] /\ overtaken \in [Sessions -> BOOLEAN]
    BY <1>2 DEF Init, Steps
  <2>3. held \in [Sessions -> DomainRecord]
    BY <1>2, NewRecordIsRecord DEF Init
  <2>4. heldInterval \in [Sessions -> Intervals] /\ missed \in [Sessions -> Nat]
    BY <1>1, <1>2 DEF Init
  <2> QED
    BY <2>1, <2>2, <2>3, <2>4 DEF TypeOK
<1>3. Init => RowThere
  BY DEF Init, RowThere
<1> QED
  BY <1>2, <1>3

LEMMA EndTyped ==
  ASSUME TypeOK, NEW s \in Sessions, End(s)
  PROVE  /\ pc' \in [Sessions -> Steps]
         /\ held' \in [Sessions -> DomainRecord]
         /\ heldInterval' \in [Sessions -> Intervals]
         /\ missed' \in [Sessions -> Nat]
         /\ overtaken' \in [Sessions -> BOOLEAN]
<1>1. 900 \in Intervals
  BY DEF Intervals, BackoffFactors
<1> QED
  BY <1>1, NewRecordIsRecord DEF End, Goto, TypeOK, Steps

LEMMA OvertakeTyped ==
  ASSUME TypeOK, NEW s \in Sessions, Overtake(s) PROVE overtaken' \in [Sessions -> BOOLEAN]
BY DEF Overtake, TypeOK

LEMMA TypeNext == TypeOK /\ RowThere /\ [Next]_vars => TypeOK' /\ RowThere'
<1> SUFFICES ASSUME TypeOK, RowThere, [Next]_vars PROVE TypeOK' /\ RowThere'
  OBVIOUS
<1> USE DEF TypeOK, RowThere, Goto, Steps
<1>1. ASSUME NEW s \in Sessions, Look(s) PROVE TypeOK' /\ RowThere'
  BY <1>1 DEF Look
<1>2. ASSUME NEW s \in Sessions, Insert(s) PROVE TypeOK' /\ RowThere'
  <2>1. CASE row = NoRow
    BY <1>2, <2>1, NewRecordIsRecord, SessionsAssumption DEF Insert
  <2>2. CASE row # NoRow
    <3>1. End(s) /\ row' = row /\ interval' = interval /\ completed' = completed
          /\ lost' = lost /\ adrift' = adrift
      BY <1>2, <2>2 DEF Insert
    <3> QED
      BY <2>2, <3>1, EndTyped DEF End
  <2> QED
    BY <2>1, <2>2
<1>3. ASSUME NEW s \in Sessions, NEW a \in Reports, Commit(s, a) PROVE TypeOK' /\ RowThere'
  <2> DEFINE new == update(held[s], a)
  <2>1. row \in DomainRecord /\ held[s] \in DomainRecord
    BY <1>3 DEF Commit
  <2>2. new \in DomainRecord
    BY <2>1, UpdateIsRecord
  <2>3. Written(held[s], new) \in DomainRecord
    BY <2>1, <2>2, WrittenIsRecord
  <2>4. row' = Written(held[s], new) /\ held' = [held EXCEPT ![s] = new]
    BY <1>3 DEF Commit
  <2>5. overtaken' \in [Sessions -> BOOLEAN]
    BY <1>3, OvertakeTyped DEF Commit
  <2> HIDE DEF new
  <2>6. missed' \in [Sessions -> Nat] /\ completed' \in Nat /\ lost' \in Nat
    BY <1>3 DEF Commit
  <2>7. TypeOK'
    BY <1>3, <2>2, <2>3, <2>4, <2>5, <2>6 DEF Commit, polling
  <2>8. RowThere'
    BY <1>3, <2>3, <2>4, SessionsAssumption
  <2> QED
    BY <2>7, <2>8
<1>4. ASSUME NEW s \in Sessions, Reload(s) PROVE TypeOK' /\ RowThere'
  BY <1>4 DEF Reload, polling
<1>5. ASSUME NEW s \in Sessions, Sync(s) PROVE TypeOK' /\ RowThere'
  BY <1>5, IntervalRange, OvertakeTyped DEF Sync, record
<1>6. ASSUME NEW s \in Sessions, Leave(s) PROVE TypeOK' /\ RowThere'
  <2>1. adrift' \in BOOLEAN
    BY <1>6 DEF Leave
  <2>2. End(s) /\ row' = row /\ interval' = interval /\ completed' = completed /\ lost' = lost
    BY <1>6 DEF Leave
  <2>3. TypeOK'
    BY <2>1, <2>2, EndTyped
  <2>4. RowThere'
    BY <2>2 DEF End
  <2> QED
    BY <2>3, <2>4
<1>7. CASE UNCHANGED vars
  BY <1>7 DEF vars, record, polling
<1> QED
  BY <1>1, <1>2, <1>3, <1>4, <1>5, <1>6, <1>7 DEF Next

\* However the sessions interleave, every column stays in its range.
THEOREM TypeCorrect == Spec => []TypeOK
<1> QED
  BY TypeInit, TypeNext, PTL DEF Spec

-----------------------------------------------------------------------------
(* Sessions at the same time.                                              *)

\* What a session holds of the row is the row, unless others have committed since it
\* read it; then it is behind by no more audits than they committed.
HeldInv ==
    /\ AuditsCounted
    /\ \A s \in Sessions : pc[s] \in {"ready", "sync"} =>
           /\ missed[s] = 0 => held[s] = row
           /\ held[s].audits_count <= completed
           /\ completed <= held[s].audits_count + lost + missed[s]

\* A session nobody has overtaken since it looked holds the interval, and the row when it
\* is about to write the interval.
PollInv ==
    /\ RateFollows
    /\ row = NoRow => interval = 900
    /\ \A s \in Sessions : ~overtaken[s] =>
           /\ pc[s] # "idle" => heldInterval[s] = interval
           /\ pc[s] = "sync" => held[s] = row

SInv == TypeOK /\ RowThere /\ HeldInv

\* What a commit makes of the row and of its count.
LEMMA CommitRow ==
  ASSUME SInv, NEW s \in Sessions, NEW a \in Reports, Commit(s, a)
  PROVE  /\ row \in DomainRecord /\ row' \in DomainRecord
         /\ row # NoRow /\ row' # NoRow
         /\ row'.audits_count = held[s].audits_count + 1
         /\ missed[s] = 0 => row' = update(row, a)
<1> USE DEF SInv, TypeOK, RowThere, HeldInv
<1> DEFINE new == update(held[s], a)
<1>1. row \in DomainRecord /\ held[s] \in DomainRecord
  BY DEF Commit
<1>2. new \in DomainRecord /\ new.audits_count = held[s].audits_count + 1
  BY <1>1, UpdateIsRecord, UpdateCounts
<1>3. row' = Written(held[s], new)
  BY DEF Commit
<1>4. missed[s] = 0 => held[s] = row
  BY DEF Commit
<1> HIDE DEF new
<1>5. row' \in DomainRecord
  BY <1>1, <1>2, <1>3, WrittenIsRecord
<1>6. row'.audits_count = new.audits_count
  <2>1. "audits_count" \in DOMAIN row
    BY <1>1 DEF DomainRecord
  <2>2. new.audits_count # held[s].audits_count
    BY <1>1, <1>2 DEF DomainRecord
  <2> QED
    BY <1>3, <2>1, <2>2 DEF Written
<1>7. missed[s] = 0 => row' = new
  BY <1>1, <1>2, <1>3, <1>4, WrittenIsNew
<1> QED
  BY <1>1, <1>2, <1>4, <1>5, <1>6, <1>7, SessionsAssumption DEF new

LEMMA HeldInit == Init => SInv
<1>1. Init => HeldInv
  BY DEF Init, HeldInv, AuditsCounted, Count
<1> QED
  BY <1>1, TypeInit DEF SInv

LEMMA HeldNext == SInv /\ [Next]_vars => SInv'
<1> SUFFICES ASSUME SInv, [Next]_vars PROVE HeldInv'
  BY TypeNext DEF SInv
<1> USE DEF SInv, TypeOK, RowThere, HeldInv, AuditsCounted, Count, Goto, Steps
<1>0. row # NoRow => row.audits_count \in Nat
  BY DEF DomainRecord
<1>a. \A t \in Sessions : held[t].audits_count \in Nat
  BY DEF DomainRecord
<1>1. ASSUME NEW s \in Sessions, Look(s) PROVE HeldInv'
  BY <1>0, <1>1 DEF Look
<1>2. ASSUME NEW s \in Sessions, Insert(s) PROVE HeldInv'
  <2>1. CASE row = NoRow
    <3>1. row' = NewRecord /\ completed' = completed /\ lost' = lost /\ row' # NoRow
      BY <1>2, <2>1, NewRecordIsRecord, SessionsAssumption DEF Insert
    <3>2. AuditsCounted'
      BY <2>1, <3>1 DEF NewRecord
    <3>3. \A t \in Sessions : pc'[t] \notin {"ready", "sync"}
      BY <1>2, <2>1 DEF Insert
    <3> QED
      BY <3>2, <3>3
  <2>2. CASE row # NoRow
    BY <1>2, <2>2 DEF Insert, End
  <2> QED
    BY <2>1, <2>2
<1>3. ASSUME NEW s \in Sessions, NEW a \in Reports, Commit(s, a) PROVE HeldInv'
  <2>1. row' # NoRow /\ row'.audits_count = held[s].audits_count + 1
    BY <1>3, CommitRow
  <2>2. /\ held[s].audits_count <= completed
        /\ completed <= held[s].audits_count + lost + missed[s]
        /\ completed' = completed + 1 /\ lost' = lost + missed[s]
    BY <1>3 DEF Commit
  <2>3. AuditsCounted'
    BY <1>a, <2>1, <2>2
  <2>4. ASSUME NEW t \in Sessions, pc'[t] \in {"ready", "sync"}
        PROVE  /\ missed'[t] = 0 => held'[t] = row'
               /\ held'[t].audits_count <= completed'
               /\ completed' <= held'[t].audits_count + lost' + missed'[t]
    <3>1. t # s /\ pc[t] = pc'[t] /\ held'[t] = held[t] /\ missed'[t] = missed[t] + 1
      BY <1>3, <2>4 DEF Commit
    <3> QED
      BY <1>a, <2>2, <2>4, <3>1
  <2> QED
    BY <2>3, <2>4
<1>4. ASSUME NEW s \in Sessions, Reload(s) PROVE HeldInv'
  BY <1>0, <1>4 DEF Reload
<1>5. ASSUME NEW s \in Sessions, Sync(s) PROVE HeldInv'
  BY <1>5 DEF Sync, record
<1>6. ASSUME NEW s \in Sessions, Leave(s) PROVE HeldInv'
  BY <1>6 DEF Leave, End
<1>7. CASE UNCHANGED vars
  BY <1>7 DEF vars, record, polling
<1> QED
  BY <1>1, <1>2, <1>3, <1>4, <1>5, <1>6, <1>7 DEF Next

LEMMA HeldInvariant == Spec => []SInv
<1>1. SInv /\ [Next]_vars => SInv'
  BY HeldNext
<1> QED
  BY <1>1, HeldInit, PTL DEF Spec

\* However cycles interleave, fail and end, no audit is counted twice, and those missing
\* from the count are those that a commit wrote over.
THEOREM CountBounded == Spec => []AuditsCounted
<1>1. SInv => AuditsCounted
  BY DEF SInv, HeldInv
<1> QED
  BY <1>1, HeldInvariant, PTL

LEMMA PollInit == Init => PollInv
BY DEF Init, PollInv, RateFollows

LEMMA PollNext == ASSUME SInv, PollInv, [Next]_vars PROVE PollInv'
<1> USE DEF SInv, TypeOK, RowThere, PollInv, RateFollows, Goto, Steps
<1>1. ASSUME NEW s \in Sessions, Look(s) PROVE PollInv'
  BY <1>1 DEF Look
<1>2. ASSUME NEW s \in Sessions, Insert(s) PROVE PollInv'
  <2>1. CASE row = NoRow
    <3>1. row' = NewRecord /\ interval' = interval /\ heldInterval' = heldInterval
          /\ overtaken' = overtaken /\ row' # NoRow /\ held' = held
      BY <1>2, <2>1, NewRecordIsRecord, SessionsAssumption DEF Insert
    <3>2. interval = PollingInterval(NewRecord)
      BY <2>1 DEF PollingInterval, NewRecord
    <3>3. \A t \in Sessions : pc'[t] # "sync" /\ (pc'[t] = "idle" <=> pc[t] = "idle")
      BY <1>2, <2>1 DEF Insert
    <3> QED
      BY <3>1, <3>2, <3>3
  <2>2. CASE row # NoRow
    BY <1>2, <2>2 DEF Insert, End
  <2> QED
    BY <2>1, <2>2
<1>3. ASSUME NEW s \in Sessions, NEW a \in Reports, Commit(s, a) PROVE PollInv'
  <2>1. pc'[s] = "reload" /\ interval' = interval /\ heldInterval' = heldInterval
    BY <1>3 DEF Commit, polling
  <2>2. row' # NoRow
    BY <1>3, CommitRow
  <2>a. Overtake(s) /\ pc' = [pc EXCEPT ![s] = "reload"]
    BY <1>3 DEF Commit
  <2>b. \A t \in Sessions : t # s => (overtaken'[t] <=> pc[t] # "idle")
    BY <2>a DEF Overtake
  <2>3. \A t \in Sessions : t # s => pc'[t] = pc[t] /\ (overtaken'[t] <=> pc[t] # "idle")
    BY <2>a, <2>b
  <2>4. (overtaken'[s] <=> overtaken[s]) /\ pc[s] # "idle"
    BY <1>3 DEF Commit, Overtake
  <2>5. ASSUME NEW t \in Sessions, ~overtaken'[t]
        PROVE  /\ pc'[t] # "idle" => heldInterval'[t] = interval'
               /\ pc'[t] = "sync" => held'[t] = row'
    BY <2>1, <2>3, <2>4, <2>5
  <2> QED
    BY <2>1, <2>2, <2>5
<1>4. ASSUME NEW s \in Sessions, Reload(s) PROVE PollInv'
  BY <1>4 DEF Reload, polling
<1>5. ASSUME NEW s \in Sessions, Sync(s) PROVE PollInv'
  <2> DEFINE new == PollingInterval(held[s])
  <2>1. /\ interval' = IF new # heldInterval[s] THEN new ELSE interval
        /\ heldInterval' = [heldInterval EXCEPT ![s] = new]
        /\ adrift' = overtaken[s] /\ pc[s] = "sync"
        /\ row' = row /\ held' = held
        /\ pc' = [pc EXCEPT ![s] = "ready"]
    BY <1>5 DEF Sync, record
  <2> HIDE DEF new
  <2>2. \A t \in Sessions : t # s => (overtaken'[t] <=> pc[t] # "idle")
    BY <1>5 DEF Sync, Overtake
  <2>3. overtaken'[s] <=> overtaken[s]
    BY <1>5 DEF Sync, Overtake
  <2>4. ~overtaken[s] => interval' = new /\ held[s] = row
    BY <2>1
  <2>5. row # NoRow
    BY <2>1
  <2>6. RateFollows'
    BY <2>1, <2>4 DEF new
  <2>7. ASSUME NEW t \in Sessions, ~overtaken'[t]
        PROVE  /\ pc'[t] # "idle" => heldInterval'[t] = interval'
               /\ pc'[t] = "sync" => held'[t] = row'
    BY <2>1, <2>2, <2>3, <2>4, <2>7
  <2> QED
    BY <2>1, <2>5, <2>6, <2>7
<1>6. ASSUME NEW s \in Sessions, Leave(s) PROVE PollInv'
  <2>1. adrift' = IF pc[s] \in {"reload", "sync"} THEN TRUE ELSE adrift
    BY <1>6 DEF Leave
  <2>2. End(s) /\ row' = row /\ interval' = interval
    BY <1>6 DEF Leave
  <2>3. \A t \in Sessions : t # s => pc'[t] = pc[t] /\ overtaken'[t] = overtaken[t]
                                     /\ held'[t] = held[t] /\ heldInterval'[t] = heldInterval[t]
    BY <2>2 DEF End
  <2>4. pc'[s] = "idle"
    BY <2>2 DEF End
  <2>5. RateFollows'
    BY <2>1, <2>2, <2>3, <2>4
  <2>6. ASSUME NEW t \in Sessions, ~overtaken'[t]
        PROVE  /\ pc'[t] # "idle" => heldInterval'[t] = interval'
               /\ pc'[t] = "sync" => held'[t] = row'
    BY <2>2, <2>3, <2>4, <2>6
  <2> QED
    BY <2>2, <2>5, <2>6
<1>7. CASE UNCHANGED vars
  BY <1>7 DEF vars, record, polling
<1> QED
  BY <1>1, <1>2, <1>3, <1>4, <1>5, <1>6, <1>7 DEF Next

\* However cycles interleave, fail and end, the subscription is polled at the row's factor
\* but in the windows named by RateFollows.
THEOREM RateAlwaysFollows == Spec => []RateFollows
<1>1. SInv /\ PollInv /\ [Next]_vars => PollInv'
  BY PollNext
<1>2. PollInv => RateFollows
  BY DEF PollInv
<1> QED
  BY <1>1, <1>2, PollInit, HeldInvariant, PTL DEF Spec

\* The instance's update is this module's.
LEMMA SameUpdate ==
  ASSUME NEW r, NEW a
  PROVE  /\ Domain!IsDeceptive(a) <=> IsDeceptive(a)
         /\ Domain!IsClean(a) <=> IsClean(a)
         /\ Domain!AfterDeceptive(r, a) = AfterDeceptive(r, a)
         /\ Domain!AfterClean(r, a) = AfterClean(r, a)
         /\ Domain!AfterMiddling(r) = AfterMiddling(r)
<1>1. (Domain!IsDeceptive(a) <=> IsDeceptive(a)) /\ (Domain!IsClean(a) <=> IsClean(a))
  BY DEF Domain!IsDeceptive, IsDeceptive, Domain!IsClean, IsClean
<1>2. \A u : Domain!Slash(u, a) = Slash(u, a)
  BY DEF Domain!Slash, Slash, Domain!Lower, Lower, Domain!Penalty, Penalty,
         Domain!RoundDiv, RoundDiv
<1>3. \A u : /\ Domain!Relapse(u) = Relapse(u)
             /\ Domain!Suspect(u) = Suspect(u)
             /\ Domain!Quarantine(u) = Quarantine(u)
             /\ Domain!MustQuarantine(u) <=> MustQuarantine(u)
  BY DEF Domain!Relapse, Relapse, Domain!Suspect, Suspect, Domain!Quarantine, Quarantine,
         Domain!MustQuarantine, MustQuarantine,
         Domain!compute_polling_backoff, compute_polling_backoff
<1>4. \A u : Domain!Credit(u, a) = Credit(u, a)
  BY DEF Domain!Credit, Credit, Domain!Raise, Raise, Domain!Gain, Gain,
         Domain!RoundDiv, RoundDiv
<1>5. \A u : /\ Domain!Redeemed(u) <=> Redeemed(u)
             /\ Domain!Progress(u) = Progress(u)
             /\ Domain!OnProbation(u) <=> OnProbation(u)
  BY DEF Domain!Redeemed, Redeemed, Domain!Progress, Progress, Domain!OnProbation,
         OnProbation, Domain!DistinctSubjects, DistinctSubjects
<1>6. \A u, x : /\ Domain!Graduate(u) = Graduate(u)
                /\ Domain!Promote(u, x) = Promote(u, x)
                /\ Domain!WithProgress(u, x) = WithProgress(u, x)
  BY DEF Domain!Graduate, Graduate, Domain!Promote, Promote, Domain!WithProgress, WithProgress
<1>7. \A u : Domain!Redemption(u) = Redemption(u)
  BY <1>5, <1>6 DEF Domain!Redemption, Redemption
<1>8. Domain!AfterDeceptive(r, a) = AfterDeceptive(r, a)
  BY <1>2, <1>3 DEF Domain!AfterDeceptive, AfterDeceptive
<1>9. Domain!AfterClean(r, a) = AfterClean(r, a)
  BY <1>4, <1>5, <1>6, <1>7 DEF Domain!AfterClean, AfterClean
<1>10. Domain!AfterMiddling(r) = AfterMiddling(r)
  BY DEF Domain!AfterMiddling, AfterMiddling
<1> QED
  BY <1>1, <1>8, <1>9, <1>10

\* A commit that writes over nobody's is an audit of DomainReputation, and every step that
\* is no commit leaves its record alone.
LEMMA StepRefines ==
  ASSUME SInv, [Next]_vars, lost' = lost
  PROVE  [Domain!Next]_(Domain!vars)
<1> USE DEF SInv, TypeOK, RowThere, HeldInv, Goto, Steps
<1>1. ASSUME NEW s \in Sessions, NEW a \in Reports, Commit(s, a) PROVE Domain!Next
  <2> DEFINE new == update(row, a)
  <2>1. missed[s] = 0
    BY <1>1 DEF Commit
  <2>2. row \in DomainRecord /\ row # NoRow /\ row' # NoRow /\ row' = new
    BY <1>1, <2>1, CommitRow
  <2>3. row.audits_count < MaxAudits
    <3>1. row.audits_count \in Nat
      BY <2>2 DEF DomainRecord
    <3> QED
      BY <1>1, <2>2, <3>1, SessionsAssumption DEF Commit, AuditsCounted, Count
  <2>4. \/ IsDeceptive(a) /\ new = AfterDeceptive(row, a)
        \/ IsClean(a) /\ new = AfterClean(row, a)
        \/ ~IsDeceptive(a) /\ ~IsClean(a) /\ new = AfterMiddling(row)
    BY DEF update, IsClean
  <2> HIDE DEF new
  <2> QED
    BY <2>2, <2>3, <2>4, SameUpdate
       DEF Domain!Next, Domain!DeceptiveAudit, Domain!CleanAudit, Domain!MiddlingAudit
<1>2. ASSUME NEW s \in Sessions, Look(s) \/ Insert(s) \/ Reload(s) \/ Sync(s) \/ Leave(s)
      PROVE  UNCHANGED Domain!vars
  <2>1. row' = row \/ (row = NoRow /\ row' = NewRecord)
    BY <1>2 DEF Look, Insert, Reload, Sync, Leave, record
  <2> QED
    BY <2>1, SessionsAssumption, NewRecordIsRecord
       DEF Domain!vars, NewRecord, Domain!NewRecord
<1>3. CASE UNCHANGED vars
  BY <1>3 DEF vars, record, Domain!vars
<1> QED
  BY <1>1, <1>2, <1>3 DEF Next

\* Sessions that interleave take the steps of the domain specification, but for a commit
\* that writes over another's.
THEOREM SessionsImplementDomain == Spec => ImplementsDomain
<1>1. Init => Domain!Init
  BY DEF Init, Domain!Init, Domain!NewRecord, NewRecord
<1>2. SInv /\ [Next]_vars => [lost' = lost => [Domain!Next]_(Domain!vars)]_vars
  BY StepRefines
<1> QED
  BY <1>1, <1>2, HeldInvariant, PTL DEF Spec, ImplementsDomain

-----------------------------------------------------------------------------
(* What DomainReputation promises, of the row the sessions share.            *)

RowInv == lost = 0 /\ row # NoRow => RecordInv(row)

LEMMA UpdatePreserves ==
  ASSUME NEW r, RecordInv(r), NEW a \in Reports
  PROVE  RecordInv(update(r, a))
<1>1. CASE IsDeceptive(a)
  BY <1>1, DeceptivePreserves DEF update
<1>2. CASE IsClean(a)
  BY <1>2, CleanPreserves DEF update, IsClean
<1>3. CASE ~IsDeceptive(a) /\ ~IsClean(a)
  BY <1>3, MiddlingPreserves DEF update, IsClean
<1> QED
  BY <1>1, <1>2, <1>3

LEMMA RowInvNext ==
  ASSUME SInv, RowInv, [Next]_vars
  PROVE  RowInv'
<1> USE DEF SInv, TypeOK, RowInv
<1>1. ASSUME NEW s \in Sessions, NEW a \in Reports, Commit(s, a) PROVE RowInv'
  <2> SUFFICES ASSUME lost' = 0 PROVE RecordInv(row')
    OBVIOUS
  <2>1. lost = 0 /\ missed[s] = 0
    BY <1>1 DEF Commit
  <2>2. row # NoRow /\ row' = update(row, a)
    BY <1>1, <2>1, CommitRow
  <2>3. RecordInv(update(row, a))
    BY <2>1, <2>2, UpdatePreserves
  <2> QED
    BY <2>2, <2>3
<1>2. ASSUME NEW s \in Sessions, Look(s) \/ Insert(s) \/ Reload(s) \/ Sync(s) \/ Leave(s)
      PROVE  RowInv'
  <2>1. (row' = row \/ row' = NewRecord) /\ lost' = lost
    BY <1>2 DEF Look, Insert, Reload, Sync, Leave, record
  <2>2. RecordInv(NewRecord)
    BY NewRecordIsRecord DEF RecordInv, NewRecord
  <2> QED
    BY <2>1, <2>2
<1>3. CASE UNCHANGED vars
  BY <1>3 DEF vars, record
<1> QED
  BY <1>1, <1>2, <1>3 DEF Next

LEMMA RowInvariant == Spec => []RowInv
<1>1. Init => RowInv
  BY DEF Init, RowInv
<1>2. SInv /\ RowInv /\ [Next]_vars => RowInv'
  BY RowInvNext
<1> QED
  BY <1>1, <1>2, HeldInvariant, PTL DEF Spec

LEMMA NewRecordInv == RecordInv(NewRecord)
BY NewRecordIsRecord DEF RecordInv, NewRecord

\* Until a commit writes over another's, standing, score and polling of the stored row
\* agree, however the sessions interleave.
THEOREM SessionsKeepBands == Spec => []BandsHeld
<1>1. RowInv => BandsHeld
  BY NewRecordInv DEF RowInv, RecordInv, BandsHeld, Domain!BandsHeld, NewRecord, Domain!NewRecord
<1> QED
  BY <1>1, RowInvariant, PTL

\* Until a commit writes over another's, the stored row neither misses nor outlives the
\* milestone.
THEOREM SessionsKeepDoctrine == Spec => []DoctrineHeld
<1>1. RowInv => DoctrineHeld
  BY NewRecordInv, SameUpdate
     DEF RowInv, RecordInv, DoctrineHeld, Domain!DoctrineHeld, NewRecord, Domain!NewRecord,
         Redeemed, Domain!Redeemed, DistinctSubjects, Domain!DistinctSubjects
<1> QED
  BY <1>1, RowInvariant, PTL
=============================================================================
