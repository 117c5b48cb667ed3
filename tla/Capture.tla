-------------------------------- MODULE Capture --------------------------------
(***************************************************************************)
(* How a page becomes a snapshot: capture_webpage_fastpath and             *)
(* capture_webpage of credence/ingestion/snapshot.py step by step between  *)
(* their awaits, what extractor.py and hasher.py make of a document, and   *)
(* the blobs the artifacts are put to (credence/storage): files, or with   *)
(* the S3 backend entries of a dictionary, as nothing gives it a client.   *)
(*                                                                         *)
(* A document is a sequence of elements; an element's text is a sequence   *)
(* of words, each with the gap behind it.  A blob's key is the hash of the *)
(* normalized text, which is that text itself here, and a kind; its        *)
(* content is the document.                                                *)
(***************************************************************************)
EXTENDS Integers, Sequences, SequencesExt, FiniteSets

CONSTANTS
    Visits,         \* captures that run at the same time
    Documents,      \* what a page may answer
    Substantive,    \* the words that make the fast path's answer enough: 50 in the code
    MaxBrowsers,    \* MAX_CONCURRENT_SNAPSHOTS
    MaxVisits,      \* bound on the captures begun
    MaxKills        \* bound on the restarts of the node

ASSUME CaptureAssumption ==
    /\ MaxBrowsers \in Nat \ {0} /\ Substantive \in Nat /\ MaxVisits \in Nat /\ MaxKills \in Nat

VARIABLES
    visits,         \* what each capture is at
    line,           \* those before _SNAPSHOT_SEMAPHORE, first come first served
    browsers,       \* those inside
    blobs,          \* the stored artifacts: key -> whose bytes are in it; none in an empty file
    bucket,         \* STORAGE_BACKEND is s3, with the name of a bucket
    opened, kills   \* history: captures begun, restarts

captureVars == <<visits, line, browsers, blobs, bucket, opened, kills>>

NotBegun == [step |-> "none"]

CaptureInit ==
    /\ visits = [v \in Visits |-> NotBegun]
    /\ line = <<>> /\ browsers = {} /\ blobs = <<>>
    /\ bucket \in BOOLEAN /\ opened = 0 /\ kills = 0

-----------------------------------------------------------------------------
(***************************************************************************)
(* extractor.py.  Score badges and elements that ask to be ignored are     *)
(* taken out; an ignored element that is no span and says much is          *)
(* camouflage.                                                             *)
(***************************************************************************)
Stripped(document) ==
    SelectSeq(document, LAMBDA e : e.tag # "credence-badge" /\ ~e.ignored /\ ~e.badge)

Camouflaged(document) ==
    \E e \in Range(document) : e.ignored /\ e.tag \notin {"credence-badge", "span"} /\ e.long

\* The notices of corrections, of the document as it came: of nested ones the inner.
EditorialNotices(document) ==
    LET found == UNION {e.notices : e \in Range(document)}
    IN  {n \in found : \A m \in found \ {n} : m \notin SubSeqs(n)}

DetectSatireCues(document) == \E e \in Range(document) : e.satire

WordsOf(document) == FlattenSeq([n \in DOMAIN document |-> document[n].text])

\* normalize_text: any run of blanks is one, more than two line breaks are two, and there
\* are none at the ends.
NormalizeText(text) ==
    [n \in DOMAIN text |-> [word |-> text[n].word,
        gap |-> IF n = Len(text) THEN "none"
                ELSE IF text[n].gap \in {"blank", "blanks", "nbsp"} THEN "blank"
                ELSE IF text[n].gap = "breaks" THEN "paragraph" ELSE text[n].gap]]

\* What trafilatura takes for the article, or all of the text where that is nothing.
CleanText(document) ==
    LET kept == Stripped(document)
        article == WordsOf(SelectSeq(kept, LAMBDA e : e.article))
    IN  IF article = <<>> THEN NormalizeText(WordsOf(kept)) ELSE article

WordCount(text) == Cardinality({n \in DOMAIN text : n = Len(text) \/ text[n].gap # "none"})

ExtractCleanContent(document) ==
    [text |-> CleanText(document), words |-> WordCount(CleanText(document)),
     satire |-> DetectSatireCues(document), notices |-> EditorialNotices(document),
     camouflaged |-> Camouflaged(document),
     links |-> UNION {e.links : e \in Range(Stripped(document))}]

ContentHash(document) == NormalizeText(CleanText(document))
CasKey(hash, kind) == <<hash, kind>>

-----------------------------------------------------------------------------
Becomes(v, r) == visits' = [visits EXCEPT ![v] = r]
At(v, step) == visits[v].step = step

Ended(v) == visits[v].step \in {"none", "done", "failed"}

\* validate_safe_url; what is no page of the web goes to the browser at once, and so does a
\* capture that forces it.
Visit(v) ==
    /\ Ended(v) /\ opened < MaxVisits
    /\ opened' = opened + 1
    /\ \E way \in {"unsafe", "web", "browser"} :
         /\ Becomes(v, [step |-> CASE way = "unsafe" -> "failed" [] way = "web" -> "fetch" [] OTHER -> "wait"])
         /\ line' = IF way = "browser" THEN Append(line, v) ELSE line
    /\ UNCHANGED <<browsers, blobs, kills, bucket>>

\* Both kinds of artifact are put one after the other, the screenshot where there is one.
ToPut(document, shot) ==
    [step |-> "put", document |-> document, hash |-> ContentHash(document),
     kinds |-> IF shot THEN <<"html", "png">> ELSE <<"html">>]

\* The fast path: any answer but a page of enough words is left to the browser.
Fetch(v) ==
    /\ At(v, "fetch")
    /\ \/ \E d \in Documents : /\ WordCount(CleanText(d)) >= Substantive
                               /\ Becomes(v, ToPut(d, FALSE))
                               /\ UNCHANGED line
       \/ Becomes(v, [step |-> "wait"]) /\ line' = Append(line, v)
    /\ UNCHANGED <<browsers, blobs, opened, kills, bucket>>

Enter(v) ==
    /\ At(v, "wait") /\ Head(line) = v /\ Cardinality(browsers) < MaxBrowsers
    /\ line' = Tail(line) /\ browsers' = browsers \union {v}
    /\ Becomes(v, [step |-> "load"])
    /\ UNCHANGED <<blobs, opened, kills, bucket>>

\* Mutant of Raises: the browser is left open.
RaisesInside(v) == Becomes(v, [step |-> "failed"]) /\ UNCHANGED browsers

\* An exception inside: the context managers close the browser and leave the semaphore.
Raises(v) == Becomes(v, [step |-> "failed"]) /\ browsers' = browsers \ {v}

\* The page is asked for twice at most; it renders, with a screenshot of the whole, of the
\* visible part, or none.
Render(v) ==
    /\ visits[v].step \in {"load", "reload"}
    /\ \/ \E d \in Documents, shot \in BOOLEAN :
            Becomes(v, ToPut(d, shot)) /\ browsers' = browsers \ {v}
       \/ At(v, "load") /\ Becomes(v, [step |-> "reload"]) /\ UNCHANGED browsers
       \/ Raises(v)
    /\ UNCHANGED <<line, blobs, opened, kills, bucket>>

-----------------------------------------------------------------------------
BlobKey(v) == CasKey(visits[v].hash, Head(visits[v].kinds))
Stored(key) == key \in DOMAIN blobs
Store(key, content) == blobs' = [k \in DOMAIN blobs \union {key} |-> IF k = key THEN content ELSE blobs[k]]

NextPut(v) ==
    IF Len(visits[v].kinds) = 1 THEN [visits[v] EXCEPT !.step = "done"]
    ELSE [visits[v] EXCEPT !.step = "put", !.kinds = Tail(@)]

\* put_blob writes what is not there: into the dictionary at once, a file in steps of a thread.
PutBlob(v) ==
    /\ At(v, "put")
    /\ \/ Stored(BlobKey(v)) /\ Becomes(v, NextPut(v)) /\ UNCHANGED blobs
       \/ /\ ~Stored(BlobKey(v)) /\ bucket
          /\ Store(BlobKey(v), <<visits[v].document>>) /\ Becomes(v, NextPut(v))
       \/ ~Stored(BlobKey(v)) /\ ~bucket /\ Becomes(v, [visits[v] EXCEPT !.step = "open"]) /\ UNCHANGED blobs
    /\ UNCHANGED <<line, browsers, opened, kills, bucket>>

\* write_bytes empties the file before it writes.
OpenBlob(v) ==
    /\ At(v, "open")
    /\ Store(BlobKey(v), <<>>)
    /\ Becomes(v, [visits[v] EXCEPT !.step = "write"])
    /\ UNCHANGED <<line, browsers, opened, kills, bucket>>

\* Two that have opened the file write over each other.
WriteBlob(v) ==
    /\ At(v, "write")
    /\ LET mine == visits[v].document IN
       \/ /\ \/ Store(BlobKey(v), <<mine>>)
             \/ /\ blobs[BlobKey(v)] \notin {<<>>, <<mine>>}
                /\ Store(BlobKey(v), blobs[BlobKey(v)] \o <<mine>>)
          /\ Becomes(v, NextPut(v))
       \/ Becomes(v, [step |-> "failed"]) /\ UNCHANGED blobs
    /\ UNCHANGED <<line, browsers, opened, kills, bucket>>

\* The dictionary is gone with the process.
Kill ==
    /\ kills < MaxKills /\ kills' = kills + 1
    /\ visits' = [v \in Visits |-> NotBegun]
    /\ line' = <<>> /\ browsers' = {}
    /\ blobs' = IF bucket THEN <<>> ELSE blobs
    /\ UNCHANGED <<opened, bucket>>

Capture(v) == Fetch(v) \/ Enter(v) \/ Render(v) \/ PutBlob(v) \/ OpenBlob(v) \/ WriteBlob(v)

CaptureNext == Kill \/ \E v \in Visits : Visit(v) \/ Capture(v)

\* Every await ends: requests, page loads and screenshots have timeouts, and the semaphore
\* is first come, first served.
CaptureFairness == \A v \in Visits : WF_captureVars(Capture(v))

-----------------------------------------------------------------------------
(***************************************************************************)
(* However captures fail, time out and wait for the one browser, each that *)
(* begins comes to an end, and one that ends well has put its artifacts    *)
(* under the hash of the text it extracted (snapshot.py:133-183).          *)
(***************************************************************************)
CapturesEnd ==
    \A v \in Visits :
        ~Ended(v) ~> \/ Ended(v) /\ ~At(v, "done")
                     \/ At(v, "done") /\ Stored(CasKey(visits[v].hash, "html"))

(***************************************************************************)
(* What the code does not keep.  "Write once if not present"               *)
(* (local.py:39): a stored document is emptied and replaced by one that    *)
(* saw no file before it was there.                                        *)
(***************************************************************************)
WrittenOnce ==
    [][\A k \in DOMAIN blobs \intersect DOMAIN blobs' :
           blobs[k] # <<>> => blobs'[k] = blobs[k]]_captureVars

\* A capture that is done may point to a file that is empty, and after a kill stays so.
DoneIsWhole ==
    \A v \in Visits : At(v, "done") =>
        Len(blobs[CasKey(visits[v].hash, "html")]) = 1

\* "Stores content-addressed blobs in S3-compatible object buckets" (s3.py:14): what is put
\* there is gone with the process.
ArtifactsLast == [][DOMAIN blobs \subseteq DOMAIN blobs']_captureVars

\* Two documents of one text share a key; what differs in the markup, as a cue of satire or a
\* notice, is of whichever was first.
StoredIsCaptured ==
    \A v \in Visits : At(v, "done") =>
        LET stored == blobs[CasKey(visits[v].hash, "html")]
        IN  Len(stored) = 1 => ExtractCleanContent(stored[1]) = ExtractCleanContent(visits[v].document)

\* "Strips score badges" (extractor.py:90): a badge that speaks of satire is a cue all the same.
BadgesAreNeutral ==
    \A v \in Visits : At(v, "done") =>
        LET d == visits[v].document
        IN  ExtractCleanContent(SelectSeq(d, LAMBDA e : e.tag # "credence-badge")) = ExtractCleanContent(d)
================================================================================
