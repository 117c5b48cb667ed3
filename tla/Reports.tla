-------------------------------- MODULE Reports --------------------------------
(***************************************************************************)
(* How the audits a node holds are looked up: by its API                   *)
(* (server/api/audits.py), the badges of pages and publishers              *)
(* (api/widget.py, api/analytics.py), its tools and resources              *)
(* (mcp/query_tools.py, mcp/resources.py) and its command line             *)
(* (cli/commands/audit.py).  Each has a query of its own over the tables   *)
(* of AuditStore.  A lookup is the id of an audit, 0 for none.             *)
(***************************************************************************)
EXTENDS Views

Newest(ids) == IF ids = {} THEN 0 ELSE CHOOSE i \in ids : \A j \in ids : Placed(j) <= Placed(i)
Stored(ids) == IF ids = {} THEN 0 ELSE Min(ids)
Firsts(ids, limit) == SubSeq(ids, 1, Min({limit, Len(ids)}))
Held == Urls \cup {Inline}

\* _reconstitute_report_from_db, and the badge of an attestation, by url or by hash.
ReportOf(u) == Newest(OfUrl(u))
ReportOfContent(c) == Newest(Ids(c))

\* api_get_badge_data: VERIFIED up to 20, FLAGGED from 70.
WidgetBadge(u) ==
    IF OfUrl(u) = {} THEN "UNAUDITED"
    ELSE IF ScoreOf(ReportOf(u)) < 20 THEN "VERIFIED" ELSE IF ScoreOf(ReportOf(u)) < 70 THEN "ATTENTION" ELSE "FLAGGED"

\* The rows that are the first of their url.
OnePerUrl(rows) == At(rows, FirstPlaces([k \in DOMAIN rows |-> UrlOf(rows[k])]))

\* Mutant of Listing: the rows as they are stored.
ListingAsStored == OnePerUrl(order)

\* api_reports: newest first, one of each url, up to a limit.
Listing == OnePerUrl(Reverse(order))
Reported(limit) == Firsts(Listing, limit)

\* credence_get_audit and the resource of reports: the first snapshot of the url, and the first
\* audit of its content.
ToolReportOfContent(c) == Stored(Ids(c))
ToolReport(u) ==
    LET captured == {s \in DOMAIN snapshots : snapshots[s].url = u}
    IN  IF captured = {} THEN 0 ELSE ToolReportOfContent(snapshots[Min(captured)].content)

\* _execute_browse_audits: every audit, whatever has replaced it.
Newer(i, j) == Placed(i) > Placed(j)
Browse(category, limit) ==
    LET ranked == CASE category = "best" ->
                        SetToSortSeq({i \in DOMAIN audits : ScoreOf(i) <= 15},
                            LAMBDA i, j : ScoreOf(i) < ScoreOf(j) \/ (ScoreOf(i) = ScoreOf(j) /\ Newer(i, j)))
                    [] category = "worst" ->
                        SetToSortSeq({i \in DOMAIN audits : ScoreOf(i) >= 60},
                            LAMBDA i, j : ScoreOf(i) > ScoreOf(j) \/ (ScoreOf(i) = ScoreOf(j) /\ Newer(i, j)))
                    [] category = "satire" -> SetToSortSeq({i \in DOMAIN audits : IsSatire(i)}, Newer)
                    [] OTHER -> Reverse(order)
    IN  Firsts(ranked, limit)

\* cli_lookup: the hash of its report is that of the snapshot.
CliReport(u) ==
    LET i == Newest(OfUrl(u)) IN
    [id |-> i, score |-> ScoreOf(i), content |-> snapshots[audits[i].snap].content]

\* cli_export_report: a url without an audit is written as a clean report of full confidence.
CliExport(u) ==
    IF OfUrl(u) = {} THEN [id |-> 0, score |-> 0, content |-> "sha256:dummy"] ELSE CliReport(u)

\* api_get_publisher_badge: 85.0 and CLEAN unless the publisher is among the best hundred.
PublisherBadge(site) ==
    IF site \in Range(Firsts(Leaderboard(FALSE), 100))
    THEN [dci |-> RankedDci(site), status |-> DetermineTrustBand(RankedDci(site))]
    ELSE [dci |-> 85000, status |-> "CLEAN"]

-----------------------------------------------------------------------------
(***************************************************************************)
(* Staleness: whatever was audited again, dated back by a peer or made     *)
(* again by a sweep, the report of a url, the list of reports, the catalog *)
(* and the profile of its publisher show the same audit of it, and none a  *)
(* newer audit has replaced (audits.py:92, 187-193, germinate.py:345,      *)
(* weather.py:187-195).                                                    *)
(***************************************************************************)
LatestEverywhere ==
    \A u \in Held : OfUrl(u) # {} =>
        /\ {i \in Range(Listing) : UrlOf(i) = u} = {ReportOf(u)}
        /\ u \notin Fixtures => \E shown \in Catalog : shown.url = u /\ shown.id = ReportOf(u)
        /\ Site[u] # Unlisted => LatestByUrl(Site[u]) \cap OfUrl(u) = {ReportOf(u)}

\* Not so: tools and API answer alike for a page (query_tools.py:115, audits.py:88-97).
ToolsAnswerAlike == \A u \in Held : OfUrl(u) # {} => ToolReport(u) = ReportOf(u)

\* Not so: a report by hash never changes, as its cache headers say (audits.py:233).
ReportsImmutable == [][\A c \in Contents : Ids(c) # {} =>
    ReportOfContent(c)' = ReportOfContent(c) /\ ScoreOf(ReportOfContent(c))' = ScoreOf(ReportOfContent(c))]_vars

\* Not so: what is shown among the best is the report of its page (query_tools.py:30).
BestIsCurrent == \A i \in Range(Browse("best", 10)) : ReportOf(UrlOf(i)) = i

\* Not so: the report of the command line has the hash its audit is signed with (audit.py:168).
ReportNamesContent == \A u \in Held : OfUrl(u) # {} => CliReport(u).content = audits[ReportOf(u)].content

\* Not so: a page is exported as clean when an audit found it so (audit.py:212).
ExportIsGrounded == \A u \in Urls : CliExport(u).score = 0 => \E i \in OfUrl(u) : ScoreOf(i) = 0

\* Not so: a publisher has a badge of its audits (analytics.py:119).
PublisherBadgeEarned == \A s \in Sites : PublisherBadge(s).status = "CLEAN" => s \in Audited

\* Not so: every text that was audited is in the list: all have one url (eval_tools.py:71).
TextsAreListed ==
    \A i \in DOMAIN audits : UrlOf(i) = Inline => \E j \in Range(Listing) : audits[j].content = audits[i].content
================================================================================
