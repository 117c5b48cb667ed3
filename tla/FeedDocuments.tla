----------------------------- MODULE FeedDocuments -----------------------------
(***************************************************************************)
(* What a feed's document says (credence/feeds/parser.py): which of the    *)
(* three formats it is read as, and the entries that have the address of a *)
(* page.  A raw entry has the links its format writes: [link, guid] of     *)
(* RSS, NoElement where the element is missing; a sequence of [rel, href]  *)
(* of Atom; [url, id] of JSON.                                             *)
(***************************************************************************)
EXTENDS Integers, Sequences, SequencesExt

CONSTANTS
    Articles,       \* the http addresses among all that links may say
    NoElement       \* a missing element, or one without text

\* The first element there is decides, even when it says nothing or no address.
RssUrl(raw) == IF raw.linked THEN raw.link ELSE raw.guid

\* The first alternate, which is what a link without rel is, or else the first there is.
AtomUrl(raw) ==
    LET usable == {n \in DOMAIN raw.links : raw.links[n].href \in Articles}
        alternate == {n \in usable : raw.links[n].rel = "alternate"}
        first(s) == raw.links[CHOOSE n \in s : \A m \in s : n <= m].href
    IN  IF alternate # {} THEN first(alternate) ELSE IF usable # {} THEN first(usable) ELSE NoElement

JsonUrl(raw) == IF raw.url # NoElement THEN raw.url ELSE raw.id

EntryUrl(format, raw) ==
    CASE format = "json" -> JsonUrl(raw) [] format = "atom" -> AtomUrl(raw) [] OTHER -> RssUrl(raw)

\* RSS and Atom take dates of any kind, JSON those of ISO 8601 only.
Dated(format, raw) ==
    raw.date \in (IF format = "json" THEN {"iso"} ELSE {"rfc822", "iso", "day", "epoch"})

\* parse_feed_content: a brace is JSON; a DOCTYPE or what is no XML is an exception; then the
\* root's name, a channel or an entry in it.
Format(document) ==
    IF document.start = "brace" THEN "json"
    ELSE IF document.root = "rss" \/ document.channel THEN "rss"
    ELSE IF document.root = "feed" \/ document.entry THEN "atom"
    ELSE "rss"

Parses(document) == IF document.start = "brace" THEN document.valid
                    ELSE document.valid /\ ~document.doctype

\* parse_rss, parse_atom, parse_json_feed: what has no address is left out.
Entries(document) ==
    LET format == Format(document)
        all == [n \in DOMAIN document.raw |->
                  [url |-> EntryUrl(format, document.raw[n]), dated |-> Dated(format, document.raw[n])]]
    IN  SelectSeq(all, LAMBDA e : e.url \in Articles)

NotParsed == [parsed |-> FALSE]

\* fetch_and_parse_feed: 304 has no entries and keeps the validators; other errors raise.
FetchAndParse(answer, validators) ==
    IF answer.status = 304
    THEN [parsed |-> TRUE, modified |-> FALSE, entries |-> <<>>, validators |-> validators]
    ELSE IF answer.status = 200 /\ Parses(answer.document)
    THEN [parsed |-> TRUE, modified |-> TRUE, entries |-> Entries(answer.document),
          validators |-> answer.validators]
    ELSE NotParsed
================================================================================
