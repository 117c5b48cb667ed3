-------------------------------- MODULE Exports --------------------------------
(***************************************************************************)
(* What a node tells others of its audits: the pack of attestations        *)
(* (packs.py) and the catalog of reports (germinate.py), the history of a  *)
(* url, its trajectory and the comparison of its evaluations               *)
(* (storage/revisions.py).  They read the tables of AuditStore and change  *)
(* nothing.  Scores are whole.                                             *)
(***************************************************************************)
EXTENDS AuditStore

CONSTANT Fixtures       \* urls that no catalog shows

Entry(i) ==
    [url |-> snapshots[audits[i].snap].url, content |-> audits[i].content,
     score |-> audits[i].verdict.score, rules |-> {row[1] : row \in audits[i].stored}, id |-> i]

\* Mutant of Exported: in the order of the table.
ExportedAsStored == [k \in DOMAIN order |-> Entry(order[k])]

\* export_attestation_pack: every audit, the newest first.
Exported == [k \in DOMAIN order |-> Entry(Reverse(order)[k])]

\* The places where a key occurs for the first time.
FirstPlaces(keys) == {k \in DOMAIN keys : \A l \in 1..(k - 1) : keys[l] # keys[k]}

\* What an empty node adopts of a pack, where a content that is known is passed over.
Adopted(pack) == {pack[k] : k \in FirstPlaces([k \in DOMAIN pack |-> pack[k].content])}

\* export_catalog_to_disk: the newest audit of each url, under one of four headings.
Heading(score) == IF score <= 15 THEN "best" ELSE IF score >= 60 THEN "worst" ELSE "recent"
Catalog ==
    LET rows == Exported
        newest == FirstPlaces([k \in DOMAIN rows |-> rows[k].url])
    IN  {[url |-> rows[k].url, id |-> rows[k].id, heading |-> Heading(rows[k].score)] :
            k \in {k \in newest : rows[k].url \notin Fixtures}}

-----------------------------------------------------------------------------
\* get_url_revision_history: by the time of the snapshot, then of the audit.  Every snapshot
\* has revision_index 1, so the sort of compute_audit_trajectory keeps that order.
Placed(i) == CHOOSE k \in DOMAIN order : order[k] = i
History(u) ==
    LET before(i, j) == \/ audits[i].snap < audits[j].snap
                        \/ audits[i].snap = audits[j].snap /\ Placed(i) < Placed(j)
    IN  [k \in 1..Cardinality(OfUrl(u)) |-> Entry(SetToSortSeq(OfUrl(u), before)[k])]

Trajectory(u) ==
    LET h == History(u)
        change == Last(h).score - h[1].score
    IN  [current |-> Last(h).score, change |-> change,
         status |-> IF change <= -5 THEN "IMPROVING" ELSE IF change >= 5 THEN "DEGRADING" ELSE "STABLE"]

\* get_model_comparison_matrix: each evaluation against the one before.
Comparison(u) ==
    LET h == History(u) IN
    [k \in 1..(Len(h) - 1) |-> [change |-> h[k + 1].score - h[k].score,
                                added |-> h[k + 1].rules \ h[k].rules, removed |-> h[k].rules \ h[k + 1].rules]]

-----------------------------------------------------------------------------
\* Ordering: a node that imports the pack of another has the latest verdict on each content,
\* though it takes the first attestation of a content and passes over all later ones.
PackCarriesNewest ==
    \A c \in Contents : Ids(c) # {} =>
        \E e \in Adopted(Exported) : e.content = c /\ \A j \in Ids(c) : Placed(j) <= Placed(e.id)

\* Not so: the pack imported elsewhere gives the catalog of the node it came from
\* (germinate.py:279, "instant Web UI parity").
CatalogTravels ==
    \A shown \in Catalog : \E e \in Adopted(Exported) : e.url = shown.url

\* Not so: the current score of a url is that of its latest audit, which its catalog shows.
CurrentIsLatest ==
    \A shown \in Catalog : Trajectory(shown.url).current = audits[shown.id].verdict.score
================================================================================
