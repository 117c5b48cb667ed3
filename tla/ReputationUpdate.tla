--------------------------- MODULE ReputationUpdate ---------------------------
(***************************************************************************)
(* The reputation record of one publisher domain and what one audit report *)
(* does to it: update_domain_reputation of credence/feeds/reputation.py.   *)
(*                                                                         *)
(* Scores are kept in tenths (the code rounds to one decimal), percentages *)
(* and confidences in hundredths.  A report is what the update reads of    *)
(* it: the suspicion score, the verdict band, the highest severity of its  *)
(* grounded violations, the confidence and the subject of the item.        *)
(***************************************************************************)
EXTENDS Integers, FiniteSets

CONSTANTS
    Subjects,       \* subject namespaces an item may be filed under
    NoSubject,      \* the caller passed no subject
    Reports         \* audit reports the pipeline can produce

Statuses == {"TRUSTED", "NEUTRAL", "SUSPICIOUS",
             "QUARANTINED_PROBATION", "PROBATIONARY_RECOVERY"}

Bands == {"CLEAN", "LOW_SUSPICION", "SUSPICIOUS", "DECEPTIVE",
          "SATIRE_PARODY", "CLOAKED_DISINFORMATION"}

Report == [suspicion_score: 0..100, classification: Bands, max_severity: 1..5,
           confidence_score: 0..100, subject_id: Subjects \union {NoSubject}]

ASSUME ReportsAssumption == Reports \subseteq Report
ASSUME SubjectsAssumption == IsFiniteSet(Subjects) /\ NoSubject \notin Subjects

BackoffFactors == {1, 2, 4, 8, 16, 32, 64}

DomainRecord ==
    [reputation_score: 0..1000,
     audits_count: Nat,
     consecutive_clean_count: Nat,
     consecutive_deceptive_count: Nat,
     status: Statuses,
     polling_backoff_factor: BackoffFactors,
     distinct_clean_subjects: SUBSET Subjects,
     redemption_progress_pct: 0..100]

\* The record get_or_create_domain_reputation inserts for an unseen domain.
NewRecord ==
    [reputation_score |-> 500,
     audits_count |-> 0,
     consecutive_clean_count |-> 0,
     consecutive_deceptive_count |-> 0,
     status |-> "NEUTRAL",
     polling_backoff_factor |-> 1,
     distinct_clean_subjects |-> {},
     redemption_progress_pct |-> 0]

-----------------------------------------------------------------------------
(* What a report says.                                                     *)

IsDeceptive(a) == a.suspicion_score >= 50 \/ a.max_severity >= 3

\* The deceptive branch is tested first.
IsClean(a) == /\ ~IsDeceptive(a)
              /\ a.suspicion_score <= 20
              /\ a.classification \in {"CLEAN", "SATIRE_PARODY"}

RoundDiv(n, d) == (2 * n + d) \div (2 * d)

\* 15 * severity / 2 * confidence, in tenths; a confidence of 0 counts as 1.
Penalty(a) ==
    RoundDiv(75 * a.max_severity
                * (IF a.confidence_score = 0 THEN 100 ELSE a.confidence_score), 100)

\* 5 * (1 - suspicion / 100), in tenths.
Gain(a) == RoundDiv(100 - a.suspicion_score, 2)

\* Scores stay between 0 and 100.0.
Lower(score, penalty) == IF score > penalty THEN score - penalty ELSE 0

Raise(score, gain) == IF score + gain < 1000 THEN score + gain ELSE 1000

compute_polling_backoff(deceptions) ==
    IF deceptions <= 0 THEN 1
    ELSE <<2, 4, 8, 16, 32, 64>>[IF deceptions < 6 THEN deceptions ELSE 6]

-----------------------------------------------------------------------------
(* A deceptive report.                                                     *)

\* Mutant of Slash: the run of clean audits survives a deception.
SlashKeepsStreak(r, a) ==
    [r EXCEPT !.audits_count = @ + 1,
              !.consecutive_deceptive_count = @ + 1,
              !.reputation_score = Lower(@, Penalty(a))]

Slash(r, a) ==
    [r EXCEPT !.audits_count = @ + 1,
              !.consecutive_clean_count = 0,
              !.consecutive_deceptive_count = @ + 1,
              !.reputation_score = Lower(@, Penalty(a))]

Suspect(r) == [r EXCEPT !.status = "SUSPICIOUS"]

Relapse(r) ==
    [r EXCEPT !.status = "QUARANTINED_PROBATION",
              !.consecutive_deceptive_count = 6,
              !.polling_backoff_factor = 64,
              !.redemption_progress_pct = 0,
              !.distinct_clean_subjects = {}]

\* Mutant of MustQuarantine: one deception too many is forgiven.
MustQuarantineLate(r) == r.reputation_score <= 200 \/ r.consecutive_deceptive_count > 3

MustQuarantine(r) == r.reputation_score <= 200 \/ r.consecutive_deceptive_count >= 3

Quarantine(r) ==
    [r EXCEPT !.status = "QUARANTINED_PROBATION",
              !.polling_backoff_factor = compute_polling_backoff(r.consecutive_deceptive_count),
              !.redemption_progress_pct = 0]

AfterDeceptive(r, a) ==
    LET s == Slash(r, a)
    IN  IF r.status = "PROBATIONARY_RECOVERY" THEN Relapse(s)
        ELSE IF MustQuarantine(s) THEN Quarantine(s)
        ELSE IF s.reputation_score <= 400 THEN Suspect(s)
        ELSE s

-----------------------------------------------------------------------------
(* A clean report.                                                         *)

Credit(r, a) ==
    [r EXCEPT !.audits_count = @ + 1,
              !.consecutive_deceptive_count = 0,
              !.consecutive_clean_count = @ + 1,
              !.reputation_score = Raise(@, Gain(a)),
              !.distinct_clean_subjects = @ \union ({a.subject_id} \ {NoSubject})]

DistinctSubjects(r) == \E s, t \in r.distinct_clean_subjects : s # t

\* The milestone of the BuzzFeed News Doctrine.
Redeemed(r) == r.consecutive_clean_count >= 5 /\ DistinctSubjects(r)

Progress(r) ==
    LET steps == IF r.consecutive_clean_count < 5 THEN r.consecutive_clean_count ELSE 5
    IN  16 * steps + (IF DistinctSubjects(r) THEN 20 ELSE 0)

OnProbation(r) == r.status \in {"QUARANTINED_PROBATION", "PROBATIONARY_RECOVERY"}

Graduate(r) ==
    [r EXCEPT !.status = "PROBATIONARY_RECOVERY",
              !.polling_backoff_factor = IF @ >= 4 THEN @ \div 4 ELSE 1]

Promote(r, standing) == [r EXCEPT !.status = standing, !.polling_backoff_factor = 1]

WithProgress(r, pct) == [r EXCEPT !.redemption_progress_pct = pct]

Redemption(r) ==
    LET s == WithProgress(r, Progress(r))
    IN  IF Redeemed(s) /\ s.status = "QUARANTINED_PROBATION" THEN Graduate(s)
        ELSE IF Redeemed(s) /\ s.reputation_score >= 500
        THEN WithProgress(Promote(s, "NEUTRAL"), 100)
        ELSE s

AfterClean(r, a) ==
    LET s == Credit(r, a)
    IN  IF OnProbation(s) THEN Redemption(s)
        ELSE IF s.reputation_score >= 750 /\ s.consecutive_clean_count >= 3
        THEN Promote(s, "TRUSTED")
        ELSE IF s.reputation_score >= 450 THEN Promote(s, "NEUTRAL")
        ELSE s

-----------------------------------------------------------------------------
\* A report that is neither deceptive nor clean only counts.
AfterMiddling(r) == [r EXCEPT !.audits_count = @ + 1]

update(r, a) ==
    IF IsDeceptive(a) THEN AfterDeceptive(r, a)
    ELSE IF IsClean(a) THEN AfterClean(r, a)
    ELSE AfterMiddling(r)

\* The interval a subscription of the domain gets, in seconds.
PollingInterval(r) == 900 * r.polling_backoff_factor
=============================================================================
