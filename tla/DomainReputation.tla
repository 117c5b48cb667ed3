--------------------------- MODULE DomainReputation ---------------------------
(***************************************************************************)
(* The life of one domain's reputation record when every update runs to    *)
(* its end before the next one starts: what update_domain_reputation       *)
(* promises.  ReputationSessions has the update's steps and the sessions   *)
(* that interleave them.                                                   *)
(***************************************************************************)
EXTENDS ReputationUpdate

CONSTANT MaxAudits      \* bound on the audits of a behaviour

VARIABLE rep            \* the row of table domainreputation

vars == rep

Init == rep = NewRecord

DeceptiveAudit(a) ==
    /\ rep.audits_count < MaxAudits
    /\ IsDeceptive(a)
    /\ rep' = AfterDeceptive(rep, a)

CleanAudit(a) ==
    /\ rep.audits_count < MaxAudits
    /\ IsClean(a)
    /\ rep' = AfterClean(rep, a)

MiddlingAudit(a) ==
    /\ rep.audits_count < MaxAudits
    /\ ~IsDeceptive(a) /\ ~IsClean(a)
    /\ rep' = AfterMiddling(rep)

Next == \E a \in Reports : DeceptiveAudit(a) \/ CleanAudit(a) \/ MiddlingAudit(a)

Spec == Init /\ [][Next]_vars

-----------------------------------------------------------------------------
\* The row keeps the ranges models.py declares for its columns; scores, progress
\* and the backoff factor are computed, never clamped on write.
TypeOK == rep \in DomainRecord

\* Standing, score and polling agree.  A domain the node treats as healthy is above the
\* suspicious band, without a streak of three deceptions, and is polled at the base rate,
\* although only the clean branch promotes; a suspicious one is between the quarantine
\* threshold and the neutral one; quarantine slows polling at least twofold.
BandsHeld ==
    /\ rep.status \in {"TRUSTED", "NEUTRAL"} =>
           /\ rep.reputation_score > 400 /\ rep.consecutive_deceptive_count < 3
           /\ rep.polling_backoff_factor = 1
    /\ rep.status = "SUSPICIOUS" =>
           /\ rep.reputation_score > 200 /\ rep.reputation_score < 450
           /\ rep.consecutive_deceptive_count < 3
    /\ rep.status = "QUARANTINED_PROBATION" => rep.polling_backoff_factor >= 2

\* The doctrine's milestone is never missed and never outlived: a quarantined
\* domain has not met it yet, one in recovery still meets it, with no deception since.
DoctrineHeld ==
    /\ rep.status = "QUARANTINED_PROBATION" => ~Redeemed(rep)
    /\ rep.status = "PROBATIONARY_RECOVERY" =>
           Redeemed(rep) /\ rep.consecutive_deceptive_count = 0

\* Trust is reached from NEUTRAL only: three clean audits never lift a quarantined,
\* recovering or suspicious domain straight to TRUSTED.
TrustedFromNeutral ==
    [][rep'.status = "TRUSTED" => rep.status \in {"TRUSTED", "NEUTRAL"}]_vars

-----------------------------------------------------------------------------
\* "Required k=5 consecutive clean audits ... to graduate" (CHANGELOG.md:314): a
\* domain leaves quarantine by graduating into probationary recovery only.
LeavesQuarantineByGraduation ==
    [][rep.status = "QUARANTINED_PROBATION" /\ rep'.status # "QUARANTINED_PROBATION"
           => rep'.status = "PROBATIONARY_RECOVERY"]_vars
=============================================================================
