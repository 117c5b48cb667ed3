------------------------------ MODULE MCConsensus ------------------------------
(***************************************************************************)
(* The modules of the mesh's judgement for TLC.  They share the records of *)
(* Expertise: one node's record grows to its full volume while nothing     *)
(* else happens; attestations are weighed, and peers judged, by records of *)
(* one evaluation.  Ballots and discoveries touch nothing of the others.   *)
(***************************************************************************)
EXTENDS Consensus, Merit, Ratification, Discovery

Finding(score, confidence, grounded, violated, satire) ==
    [score |-> score, confidence |-> confidence, grounded |-> grounded, violated |-> violated,
     satire |-> satire, verdict |-> IF satire THEN "SATIRE_PARODY" ELSE Band(score)]

MCFindings == { Finding(0, 100, 100, FALSE, FALSE), Finding(200, 100, 50, TRUE, FALSE),
                Finding(450, 90, 100, TRUE, FALSE), Finding(900, 100, 0, TRUE, FALSE),
                Finding(0, 100, 100, FALSE, TRUE) }
MCParentOf == [s \in {"apiculture.equipment"} |-> "apiculture"]
MCQuotes == {<<1, 1>>, <<0, 1>>}
MCReputation == [n \in Nodes |-> 5000]
MCCounts == {NotCounted}

Row(quality, days, evaluations, grounded, citations) ==
    [quality |-> quality, days |-> days, evaluations |-> evaluations, deviations |-> 0,
     grounded |-> grounded, citations |-> citations, sent |-> 0, answered |-> 0, latency |-> 0,
     silent |-> 0, hashes |-> TRUE, tokens |-> 0, galileo |-> 0, quorums |-> 0]
MCRows == { Row(5000, 0, 0, 0, 0), Row(5000, 7, 0, 0, 0), Row(7000, 30, 10, 4, 5), Row(7000, 30, 50, 4, 5),
            Row(7000, 30, 50, 9, 10), Row(8500, 30, 10, 9, 10), Row(8500, 30, 5000, 9, 10),
            Row(7500, 100, 5000, 99, 100), [Row(9000, 100, 50, 99, 100) EXCEPT !.hashes = FALSE],
            [Row(7000, 30, 10, 4, 5) EXCEPT !.sent = 10, !.answered = 10, !.silent = 26, !.tokens = 1000000],
            [Row(7000, 30, 10, 4, 5) EXCEPT !.sent = 10, !.answered = 9, !.galileo = 1, !.quorums = 10] }
MCKeyOrder == [n \in Nodes |-> CASE n = "alone" -> 2 [] n = "other" -> 1 [] OTHER -> 3]
MCLogShare == [d \in {0, 7, 30, 100} |-> CASE d = 0 -> 0 [] d = 7 -> 4610 [] d = 30 -> 7613 [] OTHER -> 10000]
MCDecay == [h \in {0, 26} |-> IF h = 0 THEN 10000 ELSE 5000]
MCManifests == { [signed |-> s, root |-> r, expires |-> 1, nodes |-> <<"s", "p">>] :
                   s \in BOOLEAN, r \in {"root", "cartel"} }
MCStaticSeeds == <<"t", "p">>

-----------------------------------------------------------------------------
Unseen == [n \in Nodes |-> NoRow]
Small == \A n \in Nodes, s \in Subjects : metrics[n][s] # NoRecord =>
            n # "other" /\ s = "apiculture" /\ metrics[n][s].evaluations = 1
              /\ metrics[n][s].slashes <= 1 /\ today = 0
Lone == metrics["liar"]["apiculture"] = NoRecord
Unslashed == \A n \in Nodes : \A s \in Subjects : metrics[n][s] # NoRecord => metrics[n][s].slashes = 0

rest == <<approvals, round>>
MCInit == Init /\ peers = Unseen /\ RatificationInit /\ DiscoveryInit

\* Attestations, rows and records do not read each other's steps, so every combination within
\* the bounds is reached with the records first.
MCNext ==
    \/ /\ attested = <<>> /\ peers = Unseen /\ RatificationInit /\ DiscoveryInit
       /\ \/ Lone /\ (Evaluate("alone", "apiculture") \/ Slash("alone", "apiculture"))
          \/ Lone /\ metrics["alone"]["apiculture"] # NoRecord /\ Later
          \/ Small /\ Unslashed /\ Evaluate("liar", "apiculture")
       /\ UNCHANGED <<attested, peers, rest>>
    \/ /\ Small /\ Unslashed /\ peers = Unseen /\ RatificationInit /\ DiscoveryInit
       /\ \E n \in Nodes : Attest(n)
       /\ UNCHANGED <<peers, rest>>
    \/ /\ Small /\ Lone /\ attested = <<>> /\ RatificationInit /\ DiscoveryInit
       /\ \E n \in Nodes : Observe(n)
       /\ UNCHANGED <<attested, rest>>
    \/ /\ Init /\ peers = Unseen /\ DiscoveryInit
       /\ RatificationNext
       /\ UNCHANGED <<vars, peers, round>>
    \/ /\ Init /\ peers = Unseen /\ RatificationInit /\ DiscoveryInit
       /\ DiscoverPeers
       /\ UNCHANGED <<vars, peers, approvals>>

MCSpec == MCInit /\ [][MCNext]_<<vars, peers, rest>>
================================================================================
