------------------------- MODULE MCReputationSessions -------------------------
(***************************************************************************)
(* Instances of ReputationSessions for TLC.  A slash of 30.0 brings a new  *)
(* domain to the threshold of quarantine, three of 7.5 reach the streak;   *)
(* five clean audits graduate it, and the sixth lifts it to 50.0.          *)
(***************************************************************************)
EXTENDS ReputationSessions, TLC

MCSubjects == {"news", "finance"}

\* A report of full confidence.
AReport(suspicion, band, severity, subject) ==
    [suspicion_score |-> suspicion, classification |-> band,
     max_severity |-> severity, confidence_score |-> 100, subject_id |-> subject]

MCReports ==
    {AReport(64, "SUSPICIOUS", 4, "news"),
     AReport(60, "SUSPICIOUS", 1, "news"),
     AReport(0, "CLEAN", 1, "news"),
     AReport(0, "SATIRE_PARODY", 1, "finance")}

\* Sessions are alike.
Alike == Permutations(Sessions)
=============================================================================
