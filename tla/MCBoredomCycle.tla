---------------------------- MODULE MCBoredomCycle ----------------------------
(***************************************************************************)
(* The boredom cycle and the subscriptions it lives on, for TLC: the queue *)
(* of five places of two domains, three of them of sentinel feeds, with a  *)
(* burst small enough for the window of three bursts to leave items out;   *)
(* the table of subscriptions under a boot and another call; the feeds a   *)
(* node looks at before it subscribes; the expansion of roots; and the     *)
(* captures of pages.  The five share no state, and each moves while the   *)
(* others are as they began.                                               *)
(***************************************************************************)
EXTENDS BoredomCycle, Subscriptions, FeedQuality, Roots, Capture

MCSentinels == 1..3
MCTierOf == [i \in 1..5 |-> IF i = 1 THEN 1 ELSE IF i = 5 THEN 3 ELSE 2]
MCDomainOf == [i \in 1..5 |-> IF i \in {1, 5} THEN "wire" ELSE "blog"]
MCDaemon == <<1, 60>>
MCSettings == {<<1, 60>>, <<3, 60>>, <<2, 100>>}

\* The name of one site is part of another's.
Target(site) == [url |-> <<site, "feed">>, site |-> site]
MCTargets == {Target("news"), Target("blog"), Target("wire")}
MCPresets == {<<"fakenews", "rss">>}
MCFeeds == MCPresets \union {g.url : g \in MCTargets}
MCNaming == [s \in {"news", "blog", "wire"} |->
                 {Target(s).url} \union (IF s = "news" THEN MCPresets ELSE {})]
MCEnvTargets == <<Target("news"), Target("blog")>>

Report(score, violations, grounded) ==
    [score |-> score, violations |-> violations, grounded |-> grounded]
MCReports == {Report(0, 0, 0), Report(150, 1, 1), Report(150, 1, 0), Report(500, 4, 4), Report(950, 6, 3)}
MCAges == {Undated, 0, 168, 200}
Link(type, href, feed) == [alternate |-> TRUE, type |-> type, href |-> href, feed |-> feed]
MCRss == Link({"rss", "xml"}, "news", TRUE)
MCLinks == { <<>>, <<MCRss, MCRss, Link({"atom", "xml"}, "comments", TRUE)>>,
             <<Link({"json"}, "oembed", FALSE), MCRss>>,
             <<[MCRss EXCEPT !.alternate = FALSE], Link({}, "style", FALSE)>> }
MCPages == [answer: {"feed", "html", "error"}, links: MCLinks,
            paths: {{}, {"/rss"}, {"/feed.xml", "/feed"}}]

\* Two sites that are cited twice, one with its feed elsewhere; documents with an entry twice,
\* with one that has a guid only, of each format, and one that is refused.
File(id, parent, keywords, types, subs) ==
    [readable |-> TRUE, id |-> id, parent |-> parent, keywords |-> keywords, types |-> types, subs |-> subs]
Branch(id, keywords, types) == [id |-> id, keywords |-> keywords, types |-> types]
MCCatalogs ==
    << File("apiculture", "", <<"bee", "bee suit">>, <<"Product">>, <<Branch("apiculture.equipment", <<"bee suit", "veil">>, <<"Inherit">>)>>),
       File("journalism.news", "", <<"report">>, <<"Report">>, <<>>),
       [readable |-> FALSE],
       File("journalism.news.municipal", "journalism.news", <<"council">>, <<>>,
            <<Branch("journalism.news.municipal.development", <<"rezoning">>, <<>>)>>) >>
MCInherit == <<"Inherit">>
Says(counts) == [counts |-> counts, types |-> {}]
MCTextOf == [site \in {"bees", "wire", "mail", "shop"} |->
               IF site = "bees" THEN Says([k \in {"bee", "veil"} |-> 1]) ELSE Says(<<>>)]
Past(site, url, score, links) == [site |-> site, url |-> url, score |-> score, links |-> links]
MCSoil == << Past("home", "h1", 0, <<"bees", "bees", "home", "shop", "wire">>),
             Past("home", "h2", 200, <<"mail", "wire">>),
             Past("rag", "r1", 900, <<"mail", "shop">>) >>
MCServed == [site \in {"bees", "wire", "mail", "shop"} |->
               CASE site = "bees" -> <<"bees/rss">> [] site = "wire" -> <<"cdn/wire", "cdn/other">> [] OTHER -> <<>>]
MCFeedSite == [f \in {"bees/rss", "cdn/wire"} |-> IF f = "bees/rss" THEN "bees" ELSE "cdn"]
Linked(link) == [linked |-> TRUE, link |-> link, guid |-> "none", date |-> "rfc822"]
FeedDoc(root, raw) == [start |-> "angle", root |-> root, channel |-> root = "rss", entry |-> FALSE,
                          valid |-> TRUE, doctype |-> FALSE, raw |-> raw]
Ok(document) == [status |-> 200, document |-> document, validators |-> "v1"]
Hyperlink(rel, href) == [rel |-> rel, href |-> href]
MCAnswers == [f \in {"bees/rss", "cdn/wire"} |->
    IF f = "bees/rss"
    THEN { Ok(FeedDoc("rss", <<Linked("u1"), Linked("u2"), Linked("guid-only")>>)), Ok(FeedDoc("rss", <<Linked("u1"), Linked("u1")>>)),
           Ok([FeedDoc("rss", <<>>) EXCEPT !.doctype = TRUE]) }
    ELSE { Ok(FeedDoc("feed", <<[links |-> <<Hyperlink("self", "x"), Hyperlink("alternate", "u2")>>, date |-> "iso"]>>)),
           Ok([FeedDoc("none", <<[url |-> "none", id |-> "u3", date |-> "rfc822"]>>) EXCEPT !.start = "brace"]) }]
MCWanted == {<<2, 1>>, <<1>>}

\* Three pages of the same text, one of them with a badge and a correction, and one of another.
Word(w, g) == [word |-> w, gap |-> g]
Element(tag, text) == [tag |-> tag, text |-> text, article |-> TRUE, ignored |-> FALSE, badge |-> FALSE, long |-> FALSE, satire |-> FALSE, notices |-> {}, links |-> {}]
Prose == Element("p", <<Word("one", "nbsp"), Word("two", "breaks")>>)
Aside == [Element("div", <<Word("three", "none")>>) EXCEPT !.article = FALSE, !.links = {"wire"}]
Badge == [Element("credence-badge", <<Word("score","blank")>>) EXCEPT !.satire = TRUE]
Correction == [Element("aside", <<Word("was","breaks")>>) EXCEPT !.article = FALSE, !.notices = {<<"was", "wrong">>, <<"it", "was", "wrong">>}]
Hidden == [Element("div", <<Word("more","break")>>) EXCEPT !.ignored = TRUE, !.long = TRUE]
MCDocuments == { <<Prose, Aside>>, <<Prose, Badge, Correction>>, <<Aside, Hidden>> }

-----------------------------------------------------------------------------
MCInit == Init /\ SubscriptionsInit /\ QualityInit /\ RootsInit /\ CaptureInit
AtRest == Init /\ restricted = {}
NoRoots == RootsInit
NoCapture == CaptureInit /\ ~bucket

MCNext ==
    \/ SubscriptionsInit /\ QualityInit /\ NoRoots /\ NoCapture /\ Next
       /\ UNCHANGED <<subsVars, qualityVars, rootVars, captureVars>>
    \/ AtRest /\ QualityInit /\ NoRoots /\ NoCapture /\ SubscriptionsNext
       /\ UNCHANGED <<vars, qualityVars, rootVars, captureVars>>
    \/ AtRest /\ SubscriptionsInit /\ NoRoots /\ NoCapture /\ QualityNext
       /\ UNCHANGED <<vars, subsVars, rootVars, captureVars>>
    \/ AtRest /\ SubscriptionsInit /\ QualityInit /\ NoCapture /\ RootsNext
       /\ UNCHANGED <<vars, subsVars, qualityVars, captureVars>>
    \/ AtRest /\ SubscriptionsInit /\ QualityInit /\ NoRoots /\ CaptureNext
       /\ UNCHANGED <<vars, subsVars, qualityVars, rootVars>>

MCSpec == MCInit /\ [][MCNext]_<<vars, subsVars, qualityVars, rootVars, captureVars>>
                 /\ WF_vars(Cycle(Daemon)) /\ CaptureFairness
=============================================================================
