------------------------------ MODULE Evaluation ------------------------------
(***************************************************************************)
(* An evaluation of a page (credence/pipeline/evaluator.py) while the      *)
(* registry of standards changes under it.  The catalogs' hashes and the   *)
(* prompts are taken first; the rules behind the findings are looked up as *)
(* the answers arrive, and between the two the evaluation awaits the       *)
(* budget, the satire prompt, the swarm of specialists and the recording   *)
(* of tokens.  What the node stored last is kept; nothing but a new        *)
(* evaluation changes it, so it stands for every stored audit.             *)
(***************************************************************************)
EXTENDS Standards, Scoring

CONSTANTS
    Pages,          \* [cues, text, satire, words, named] of the pages that may be evaluated
    Quotes,         \* words the model may cite
    Cited,          \* rule ids it may cite, of the part or not
    Given,          \* severities it may give; 0 stands for none
    Confidences,    \* confidences it may give, in hundredths
    Beginnings,     \* pairs of cluster ids of which the first begins the second
    MaxFindings,    \* bound on the findings of a swarm
    Defamatory,     \* those that name a felony or a libel
    Ceiling,        \* HEURISTIC_MAX_CONFIDENCE_CEILING in hundredths: 25
    MaxAudits

ASSUME EvaluationAssumption ==
    /\ Pages \subseteq [cues : SUBSET STRING, text : SUBSET STRING, satire : BOOLEAN,
                        words : Nat, named : BOOLEAN]
    /\ Given \subseteq Int /\ Confidences \subseteq 0..100 /\ Ceiling \in Nat /\ MaxFindings \in Nat /\ MaxAudits \in Nat

VARIABLES
    ev,             \* the evaluation in progress, or Idle
    audit,          \* the audit stored last, or NoAudit
    audited
evaluationVars == <<ev, audit, audited>>
vars == <<standardsVars, evaluationVars>>

Idle == [at |-> "idle"]
NoAudit == [method |-> None]

Init ==
    /\ StandardsInit
    /\ ev = Idle
    /\ audit = NoAudit
    /\ audited = 0

-----------------------------------------------------------------------------
\* get_rule as the detectors and the parser use it: the rule that is now in the registry.
RuleIn(reg, r) ==
    IF r \in DOMAIN reg.byId
    THEN [from |-> reg.byId[r][1], severity |-> Book[reg.byId[r][1]].severity[r]]
    ELSE [from |-> None, severity |-> 3]

Heuristic(reg, page) ==
    LET ids == DOMAIN reg.byId
        cited == {d.rule : d \in Detectors(ids)}
    IN  HeuristicFindings(page, ids, None, [r \in cited |-> RuleIn(reg, r)])

\* A part is prompted and scored under the domain of a catalog that has its cluster, or one
\* whose id begins its id, when the swarm is sent: of the first loaded, here of any of them.
DomainsOf(reg, part) ==
    LET id == Book[part.content].clusters[part.cluster].id
        owners == {k \in Range(reg.catalogs) :
                     \E c \in Range(Book[k].clusters) : c.id = id \/ <<c.id, id>> \in Beginnings}
    IN  IF owners = {} THEN {"GENERAL"} ELSE {Book[k].domain : k \in owners}

\* parse_cluster_response: the severity is the model's, or the rule's where it gives none; the
\* confidence is the model's, of which nothing may be left.
Parsed(reg, domain, f) ==
    LET rule == RuleIn(reg, f.rule)
        given == IF f.severity = 0 THEN rule.severity ELSE f.severity
    IN  [rule |-> f.rule, domain |-> domain, confidence |-> f.confidence, quote |-> f.quote,
         from |-> IF rule.from = None THEN "fixed" ELSE rule.from,
         severity |-> IF given < 1 THEN 1 ELSE IF given > 5 THEN 5 ELSE given]

\* A finding that cites what is cited already under the same rule is dropped.
SameCitation(v, w) == v.rule = w.rule /\ v.quote = w.quote
Merged(found, new) ==
    LET kept == {n \in DOMAIN new : /\ \A x \in DOMAIN found : ~SameCitation(found[x], new[n])
                                    /\ \A m \in 1..(n - 1) : ~SameCitation(new[m], new[n])}
    IN  [x \in DOMAIN found \cup {[answer |-> n] : n \in kept} |->
           IF x \in DOMAIN found THEN found[x] ELSE new[x.answer]]

Report(method, e, vs, satire) ==
    LET a == Assessment(vs, e.page, satire, Defamatory)
    IN  [method |-> method, pinned |-> e.pinned, parts |-> e.parts, page |-> e.page,
         violations |-> vs, satire |-> a.satire, score |-> a.score, verdict |-> a.verdict,
         density |-> a.density, ratios |-> a.ratios,
         confidence |-> IF method = "offline" /\ a.confidence > Ceiling THEN Ceiling
                                                                       ELSE a.confidence]

Storing(report) == [at |-> "store", report |-> report]

\* Mutant of Offline: what the model found is kept.
OfflineKeeps(e, reg) == Storing(Report("offline", e, e.found, e.satire))

\* The offline audit: the detectors alone, whatever the model has said before it failed.
Offline(e, reg) == Storing(Report("offline", e, Heuristic(reg, e.page), e.page.satire))

-----------------------------------------------------------------------------
\* Hashes and parts are taken of one registry.  Without a key nothing is awaited until the
\* report is stored; a file that does not load ends the evaluation.
Begin(page) ==
    /\ ev = Idle /\ audited < MaxAudits
    /\ registry' = Lazy.registry
    /\ LET catalogs == Lazy.registry.catalogs
           begun == [at |-> "budget", page |-> page, pinned |-> catalogs,
                     parts |-> GranularClusters(catalogs), found |-> Nothing, domains |-> Nothing,
                     satire |-> FALSE]
       IN  IF ~Lazy.ok THEN ev' = Idle
           ELSE \/ ev' = begun
                \/ ev' = Offline(begun, Lazy.registry)
    /\ UNCHANGED <<disk, proposals, votes, edits, audit, audited>>

\* The budget's answer: the detectors run, and the satire prompt is sent if it is granted.
BudgetAnswers ==
    /\ ev.at = "budget"
    /\ registry' = Lazy.registry
    /\ \/ Lazy.ok /\ ev' = Override(ev, [at |-> "satire", found |-> Heuristic(Lazy.registry, ev.page)])
       \/ Lazy.ok /\ ev' = Offline(ev, Lazy.registry)
       \/ ~Lazy.ok /\ ev' = Idle
    /\ UNCHANGED <<disk, proposals, votes, edits, audit, audited>>

\* An exception after the detectors: they run again, on the registry as it is by now.
Fallback ==
    /\ ev.at \in {"satire", "swarm"}
    /\ registry' = Lazy.registry
    /\ ev' = IF Lazy.registry.catalogs = Nothing /\ ~Lazy.ok THEN Idle
                                                             ELSE Offline(ev, Lazy.registry)
    /\ UNCHANGED <<disk, proposals, votes, edits, audit, audited>>

\* The satire auditor answers; what cannot be parsed is no satire.
SatireAnswers ==
    /\ ev.at = "satire" /\ Lazy.ok
    /\ registry' = Lazy.registry
    /\ \E verdict \in BOOLEAN :
       \E domains \in [ev.parts -> UNION {DomainsOf(Lazy.registry, p) : p \in ev.parts}] :
         /\ \A p \in ev.parts : domains[p] \in DomainsOf(Lazy.registry, p)
         /\ ev' = Override(ev, [at |-> "swarm", satire |-> verdict \/ ev.page.satire,
                                domains |-> domains])
    /\ UNCHANGED <<disk, proposals, votes, edits, audit, audited>>

Answers == [part : ev.parts, rule : Cited, quote : Quotes, severity : Given, confidence : Confidences]

\* The specialists have answered: a call that fails or cannot be parsed finds nothing, one
\* with a value of the wrong type is a Fallback.  A rule cited need not be one of the part.
SwarmAnswers ==
    /\ ev.at = "swarm" /\ Lazy.ok
    /\ registry' = Lazy.registry
    /\ \E m \in 0..MaxFindings : \E in \in [1..m -> Answers] :
         LET new == [n \in 1..m |-> Parsed(Lazy.registry, ev.domains[in[n].part], in[n])]
         IN  ev' = Storing(Report("llm", ev, Merged(ev.found, new), ev.satire))
    /\ UNCHANGED <<disk, proposals, votes, edits, audit, audited>>

\* The rows are committed.
Store ==
    /\ ev.at = "store"
    /\ audit' = ev.report
    /\ audited' = audited + 1
    /\ ev' = Idle
    /\ UNCHANGED standardsVars

\* The commit fails, or the task is cancelled, and the evaluation is gone.
Lose ==
    /\ ev # Idle
    /\ ev' = Idle
    /\ UNCHANGED <<standardsVars, audit, audited>>

\* A stop loses the evaluation and both registries; the stored audit stays.
Reboot ==
    /\ Restart
    /\ ev' = Idle
    /\ UNCHANGED <<audit, audited>>

Next ==
    \/ StandardsNext /\ UNCHANGED evaluationVars
    \/ \E page \in Pages : Begin(page)
    \/ BudgetAnswers \/ SatireAnswers \/ SwarmAnswers \/ Fallback
    \/ Store \/ Lose \/ Reboot

Spec == Init /\ [][Next]_vars

-----------------------------------------------------------------------------
AskedBy(p) == {<<p.content, r>> : r \in p.rules}

(***************************************************************************)
(* Staleness is exact, whatever was edited, reloaded or restarted since:   *)
(* a rule in force that was not in exactly one prompt of the stored audit  *)
(* is among the deltas, and an audit that is not stale has been asked all  *)
(* rules in force (taxonomy_loader.py:190-217, evaluator.py:77-80).        *)
(***************************************************************************)
StaleExact ==
    LET now == Lazy.registry.catalogs
        force == UNION {{<<k, r>> : r \in Rules[k]} : k \in Range(now)}
    IN  audit # NoAudit =>
          /\ \A x \in force :
               \/ x \in Deltas(now, audit.pinned)
               \/ Cardinality({p \in audit.parts : x \in AskedBy(p)}) = 1
          /\ IsStale(now, audit.pinned) \/ UNION {AskedBy(p) : p \in audit.parts} = force

(***************************************************************************)
(* An audit that says it was made offline holds what the detectors find on *)
(* the page and nothing a model said before the swarm failed, and is not   *)
(* more certain than the ceiling (evaluator.py:164-179, 240-248).          *)
(***************************************************************************)
OfflineIsHeuristic ==
    (audit # NoAudit /\ audit.method = "offline") =>
      /\ audit.confidence <= Ceiling
      /\ audit.satire => audit.page.satire
      /\ \A v \in Range(audit.violations) :
           \E d \in Detectors({}) \cup Detectors({"DEC-1.4"}) :
             d.cue \in audit.page.cues /\ d.rule = v.rule /\ d.quote = v.quote

(***************************************************************************)
(* The verdict rests on what the page says: a band above CLEAN has at      *)
(* least one violation with a quotation found in the page and some         *)
(* confidence, satire has no suspicion and hides no grounded deceptive     *)
(* pattern, nothing else has its immunity, and no suspicion at all leaves  *)
(* only what the model has no confidence in (evaluator.py:180-237,         *)
(* scoring.py:47-107, subagents.py:341).                                   *)
(***************************************************************************)
VerdictIsGrounded ==
    audit # NoAudit =>
      LET grounded == {v \in Range(audit.violations) : v.quote \in audit.page.text}
          trusted == {v \in grounded : v.confidence > 0}
      IN  /\ audit.verdict \in {"LOW_SUSPICION", "SUSPICIOUS", "DECEPTIVE"} => trusted # {}
          /\ audit.satire <=> audit.verdict = "SATIRE_PARODY"
          /\ audit.satire => /\ audit.score = 0
                             /\ \A v \in grounded : v.domain # Deceptive
          /\ (audit.score = 0 /\ ~audit.satire) => trusted = {}

(***************************************************************************)
(* What the code does not keep.  The taxonomies an audit is stamped with   *)
(* are those of its rules (evaluator.py:77, "Cart-Before-Horse"): a finding*)
(* carries the URI of the registry at the time of the answer.              *)
(***************************************************************************)
UrisArePinned ==
    audit # NoAudit => \A v \in Range(audit.violations) :
                         v.from \in Range(audit.pinned) \cup {"fixed"}

(***************************************************************************)
(* A violation counts once: the detectors may cite one byline twice under  *)
(* one rule (ethics.py:42-62, 148-164), and both are scored.               *)
(***************************************************************************)
CountedOnce ==
    audit # NoAudit => \A m, n \in DOMAIN audit.violations :
        (audit.violations[m].rule = audit.violations[n].rule
           /\ audit.violations[m].quote = audit.violations[n].quote) => m = n
================================================================================
