----------------------------- MODULE MCAuditStore -----------------------------
(***************************************************************************)
(* AuditStore with what reads it, Exports, Views and Reports, for TLC.     *)
(***************************************************************************)
EXTENDS Reports

Verdict(score, rules) == [score |-> score, rules |-> rules, density |-> 10 * Cardinality(rules)]
Clean == Verdict(0, {})
Deceptive == Verdict(60, {"DP-1.1"})

MCKinds == [t \in Tasks |-> CASE t = "caller" -> {"audit", "forced", "submit", "text"}
                              [] t = "boot" -> {"seed", "pack"}
                              [] OTHER -> {"sweep"}]
MCShows == [u \in Urls |-> IF u = "p" THEN {"x", "y"} ELSE {"x"}]
MCAnswers == [c \in Contents |-> IF c = "y" THEN {} ELSE {Deceptive}]
MCSite == [u \in Urls \cup {Inline} |-> IF u = Inline THEN Unlisted ELSE "site"]
MCBlank == {Clean}
MCDetected == Verdict(20, {"SPJ-4.1"})
MCPack == << [url |-> "p", content |-> "x", verdict |-> Deceptive] >>
MCSubmissions == { [url |-> "p", content |-> "x", verdict |-> Deceptive, method |-> "offline"] }
================================================================================
