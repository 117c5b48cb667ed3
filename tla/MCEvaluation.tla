------------------------------ MODULE MCEvaluation ------------------------------
(***************************************************************************)
(* Evaluation for TLC: two catalogs of up to three rules, prompts of two,  *)
(* one of them with a second version and an RFC of its own.  They share a  *)
(* rule id, and a cluster id begins one of the other's.                    *)
(***************************************************************************)
EXTENDS Evaluation

Catalog(id, domain, version, linted, clusters) ==
    [id |-> id, domain |-> domain, version |-> version, linted |-> linted, clusters |-> clusters,
     severity |-> [r \in UNION {Range(c.rules) : c \in Range(clusters)} |->
                     IF r = "SPJ-4.1" THEN 2 ELSE 4]]

MCBook ==
    [spj |-> Catalog("spj_ethics", Ethics, "1.0.0", FALSE,
               << [id |-> "TRUTH", rules |-> <<"SPJ-1.1", "SPJ-1.6", "SPJ-4.1">>] >>),
     rfc1 |-> Catalog("spj_ethics", Ethics, "1.0.0", TRUE,
               << [id |-> "REPORT", rules |-> <<"SPJ-1.1">>] >>),
     dp |-> Catalog("deceptive_patterns", Deceptive, "1.0.0", FALSE,
               << [id |-> "TRUTH_OF_TERMS", rules |-> <<"DP-1.1", "SPJ-1.6">>] >>)]

MCFileOrder == <<"deceptive_patterns.yaml", "spj_ethics.yaml">>
MCShipped == [f \in {"deceptive_patterns.yaml", "spj_ethics.yaml"} |->
                IF f = "spj_ethics.yaml" THEN "spj" ELSE "dp"]
MCPrefixes == {<<"TRUTH", "TRUTH_OF_TERMS">>}
MCFounding == [i \in {"RFC-001"} |-> "rfc1"]
MCPages == { [cues |-> {}, text |-> {"claim"}, satire |-> FALSE, words |-> 40, named |-> FALSE],
             [cues |-> {"staff-byline", "editors-letter"}, text |-> {"byline"}, satire |-> FALSE, words |-> 40, named |-> FALSE],
             [cues |-> {"hidden-terms"}, text |-> {"claim", "recurring-charge"}, satire |-> TRUE, words |-> 400, named |-> TRUE] }
================================================================================
