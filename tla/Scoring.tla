-------------------------------- MODULE Scoring --------------------------------
(***************************************************************************)
(* From a page to a verdict.  First the offline detectors                  *)
(* (credence/pipeline/heuristics): tables of cues, each with the rule it   *)
(* is held against.  A page is [cues, text, satire, words, named]: the     *)
(* cues its title, text, byline or HTML contain, the quotations that can   *)
(* be found in it, whether it has cues of satire, its words and whether it *)
(* names an author.  A quotation is named after the detector that cites    *)
(* it; detectors that may cite the same words share a name.                *)
(*                                                                         *)
(* Then from violations to a verdict (credence/pipeline/scoring.py and the *)
(* end of evaluate_snapshot).  The violations of a page are a function     *)
(* from what found them, a detector or an answer of the model; their order *)
(* is left out.  Confidences are in hundredths, domain weights in tenths,  *)
(* so a raw suspicion is in thousandths.  The calibrated score,            *)
(* 100 (1 - exp(-raw / 12)), grows with the raw suspicion and rounds to    *)
(* one decimal; it stands here for the raw suspicion itself, and the       *)
(* bands begin where it rounds to more than 15, 40 and 70.                 *)
(***************************************************************************)
EXTENDS Integers, FiniteSets, FiniteSetsExt

Ethics == "JOURNALISTIC_ETHICS"
Fallacy == "LOGICAL_FALLACY"
Deceptive == "DECEPTIVE_PATTERN"

\* severity 0: the rule's own.  always: appended even if the registry lacks the rule.
Detector(cue, rule, domain, confidence, quote) ==
    [cue |-> cue, rule |-> rule, domain |-> domain, confidence |-> confidence,
     quote |-> quote, severity |-> 0, otherwise |-> 0, always |-> FALSE]

\* check_deceptive_heuristics.  An advertorial's rule is DEC-1.4, or DP-1.1 where no
\* catalog has it; its URI is written out.  A countdown is quoted as "deal expires" even
\* when the page only says "expires in".
DeceptiveDetectors(ids) ==
    LET camouflage == IF "DEC-1.4" \in ids THEN "DEC-1.4" ELSE "DP-1.1"
    IN  {  Detector("confirmshaming", "DP-2.1", Deceptive, 100, "opt-out"),
           Detector("countdown", "DP-2.2", Deceptive, 95, "deal-expires"),
           Detector("hidden-terms", "DP-1.1", Deceptive, 98, "recurring-charge"),
           [Detector("sponsored", camouflage, Deceptive, 100, "sponsored")
              EXCEPT !.severity = 5, !.always = TRUE],
           [Detector("promotion", camouflage, Deceptive, 95, "promotion")
              EXCEPT !.otherwise = 4, !.always = TRUE] }

\* check_fallacy_heuristics: a short cue is quoted as a longer sentence.
FallacyDetectors ==
    {  Detector("insult", "FALLACY-1.1", Fallacy, 95, "insult"),
       Detector("dilemma", "FALLACY-2.2", Fallacy, 95, "dilemma"),
       Detector("post-hoc", "FALLACY-3.1", Fallacy, 95, "post-hoc"),
       Detector("relative-risk", "FALLACY-3.2", Fallacy, 95, "relative-risk"),
       Detector("bandwagon", "FALLACY-5.2", Fallacy, 95, "bandwagon") }

\* check_spj_heuristics.  A generic byline is a staff or a sponsored one, and may be cited
\* once more under a letter of a candidate.
EthicsDetectors ==
    {  Detector("staff-byline", "SPJ-4.1", Ethics, 92, "byline"),
       Detector("sponsored-byline", "SPJ-3.2", Ethics, 92, "byline"),
       Detector("contact", "SPJ-3.2", Ethics, 95, "contact"),
       Detector("blotter", "SPJ-1.3", Ethics, 88, "blotter"),
       Detector("candidate", "SPJ-3.1", Ethics, 94, "candidate"),
       Detector("editors-letter", "SPJ-4.1", Ethics, 92, "byline"),
       Detector("press-release", "SPJ-1.1", Ethics, 88, "press-release"),
       Detector("civic-defence", "SPJ-3.1", Ethics, 88, "civic-defence"),
       Detector("miracle-cure", "SPJ-1.1", Ethics, 98, "miracle-cure"),
       Detector("formulaic-summary", "SPJ-1.1", Ethics, 92, "formulaic-summary"),
       Detector("headline-disparity", "SPJ-1.2", Ethics, 98, "headline-disparity"),
       Detector("cloaked-libel", "SPJ-1.6", Ethics, 99, "cloaked-libel"),
       Detector("disguised-pitch", "SPJ-3.2", Ethics, 98, "disguised-pitch") }

Detectors(ids) == DeceptiveDetectors(ids) \cup FallacyDetectors \cup EthicsDetectors

(***************************************************************************)
(* heuristic_evaluate_content: the findings on a page.  ids are the rules  *)
(* of the registry, rule[id] what it answers for a detector's rule: a      *)
(* record [from, severity] whose "from" is None for no such rule.  A       *)
(* finding's "from" says which content its URI belongs to.                 *)
(***************************************************************************)
HeuristicFindings(page, ids, None, rule) ==
    LET fires(d) == d.cue \in page.cues /\ (d.always \/ rule[d.rule].from # None)
        finding(d) ==
          [rule |-> d.rule, domain |-> d.domain, confidence |-> d.confidence, quote |-> d.quote,
           from |-> IF d.always THEN "fixed" ELSE rule[d.rule].from,
           severity |-> IF d.severity > 0 THEN d.severity
                        ELSE IF rule[d.rule].from = None THEN d.otherwise
                        ELSE rule[d.rule].severity]
    IN  [d \in {x \in Detectors(ids) : fires(x)} |-> finding(d)]

-----------------------------------------------------------------------------
DomainWeight(domain) ==
    CASE domain = "JOURNALISTIC_ETHICS" -> 12
      [] domain = "LOGICAL_FALLACY" -> 10
      [] domain = "DECEPTIVE_PATTERN" -> 15
      [] domain = "DOMAIN_SPECIFIC" -> 12
      [] OTHER -> 10

\* validate_all_violations flags what validate_grounded_quote finds, case, white space and
\* quotation marks folded, in the title, byline or text, or in the HTML if it is long enough
\* or looks like a selector: a page's text is the quotations it would find.
IsGrounded(v, text) == v.quote \in text

Suspicion(v, text) ==
    IF IsGrounded(v, text) THEN v.severity * v.confidence * DomainWeight(v.domain) ELSE 0

SumOf(f, S) == MapThenSumSet(LAMBDA x : f[x], S)
RawSuspicion(vs, text) == SumOf([n \in DOMAIN vs |-> Suspicion(vs[n], text)], DOMAIN vs)

\* Violations for a thousand words, in hundredths, grounded or not; 50 words at least.
SuspicionDensity(count, words) == (count * 100000) \div (IF words > 50 THEN words ELSE 50)

CalibratedScore(raw, satire, cloaked) == IF satire /\ ~cloaked THEN 0 ELSE raw

ClassifyVerdict(score, satire, cloaked) ==
    IF cloaked THEN "CLOAKED_DISINFORMATION"
    ELSE IF satire THEN "SATIRE_PARODY"
    ELSE IF score <= 1957 THEN "CLEAN"
    ELSE IF score <= 6140 THEN "LOW_SUSPICION"
    ELSE IF score <= 14467 THEN "SUSPICIOUS"
    ELSE "DECEPTIVE"

\* The mean over the grounded violations, 1 without any.
AggregateConfidence(vs, text) ==
    LET grounded == {n \in DOMAIN vs : IsGrounded(vs[n], text)}
    IN  IF grounded = {} THEN 100
        ELSE SumOf([n \in DOMAIN vs |-> vs[n].confidence], grounded) \div Cardinality(grounded)

SingleSource == {"SPJ-1.1", "SPJ-1.3"}
ConflictOfInterest == {"SPJ-3.1", "SPJ-3.2"}
Advertorial == {"DEC-1.1", "DEC-1.2", "DEC-1.3", "DEC-1.4", "SPJ-3.3", "SPJ-4.1", "AST-1.1", "AST-1.2"}

\* compute_sourcing_ratios, grounded or not; no content is typed a police blotter.
SourcingRatios(vs, named) ==
    [byline |-> IF named THEN 100 ELSE 0,
     single |-> IF \E n \in DOMAIN vs : vs[n].rule \in SingleSource THEN 100 ELSE 0,
     coi |-> IF \E n \in DOMAIN vs : vs[n].rule \in ConflictOfInterest THEN 100 ELSE 0,
     asi |-> LET left == 100 - 15 * Cardinality({n \in DOMAIN vs : vs[n].rule \in Advertorial})
             IN  IF left > 0 THEN left ELSE 0]

(***************************************************************************)
(* Steps 2 and 3 of evaluate_snapshot: a violation of SPJ-1.6 whose words  *)
(* are defamatory, or on a page without cues of satire, is disinformation  *)
(* under a cloak; either it or a grounded deceptive pattern takes the      *)
(* immunity of satire away.  SPJ-1.6 need not be grounded for that.        *)
(***************************************************************************)
Cloaked(vs, page, defamatory) ==
    \E n \in DOMAIN vs : vs[n].rule = "SPJ-1.6" /\ (vs[n].quote \in defamatory \/ ~page.satire)

\* Mutant of SatireStands: a deceptive pattern leaves the immunity.
SatireUnlessCloaked(vs, page, satire, defamatory) == satire /\ ~Cloaked(vs, page, defamatory)

SatireStands(vs, page, satire, defamatory) ==
    /\ satire
    /\ ~Cloaked(vs, page, defamatory)
    /\ ~\E n \in DOMAIN vs : vs[n].domain = "DECEPTIVE_PATTERN" /\ IsGrounded(vs[n], page.text)

Assessment(vs, page, satire, defamatory) ==
    LET cloaked == Cloaked(vs, page, defamatory)
        stands == SatireStands(vs, page, satire, defamatory)
        score == CalibratedScore(RawSuspicion(vs, page.text), stands, cloaked)
    IN  [satire |-> stands, score |-> score, confidence |-> AggregateConfidence(vs, page.text),
         verdict |-> ClassifyVerdict(score, stands, cloaked),
         density |-> SuspicionDensity(Cardinality(DOMAIN vs), page.words), ratios |-> SourcingRatios(vs, page.named)]
================================================================================
