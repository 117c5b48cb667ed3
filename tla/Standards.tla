------------------------------- MODULE Standards -------------------------------
(***************************************************************************)
(* The standards a node audits by: the registry of taxonomy catalogs       *)
(* (credence/taxonomy_loader.py), filled from YAML files when it is first  *)
(* asked and again by every request that calls load_all, and the registry  *)
(* of RFC proposals (credence/pipeline/rfc.py), which can put a catalog    *)
(* into the first one without a restart.  Both live in memory.             *)
(*                                                                         *)
(* A content is one text of a catalog; its SHA-256 is the content itself,  *)
(* and the composite hash of a registry the contents it has loaded.  A     *)
(* rule object is a content and a rule id.  An operator edits the files.   *)
(***************************************************************************)
EXTENDS Naturals, Sequences, FiniteSets, FiniteSetsExt, Functions

CONSTANTS
    FileOrder,      \* names of the files in the order they are read
    Book,           \* for each content [id, domain, version, linted, severity, clusters]
    Shipped,        \* the contents of the files of the distribution
    Founding,       \* the content of each RFC the registry begins with
    RfcIds,
    Verdicts,       \* what a vote may say
    MaxRules,       \* rules of a cluster that go into one prompt: 6
    MaxEdits,       \* bound on the edits of files
    MaxVotes        \* bound on the votes of a proposal

Absent == "absent"
Broken == "broken"  \* a file that does not parse or validate
None == "none"

Contents == DOMAIN Book
Cats == {Book[k].id : k \in Contents}
Rules == [k \in Contents |-> UNION {Range(c.rules) : c \in Range(Book[k].clusters)}]

\* populate_namespaced_uris: domain:cluster/rule@version.
Uri(k, r) == [domain |-> Book[k].domain, rule |-> r, version |-> Book[k].version,
              cluster |-> (CHOOSE c \in Range(Book[k].clusters) : r \in Range(c.rules)).id]
UrisOf == [k \in Contents |-> {Uri(k, r) : r \in Rules[k]}]
RuleObject == UNION {{k} \X Rules[k] : k \in Contents}
Uris == {Uri(x[1], x[2]) : x \in RuleObject}

(***************************************************************************)
(* Two catalogs may have a rule id or a URI in common, as neither the      *)
(* loader nor the linter looks for that; nor do they look for a rule id    *)
(* twice in one catalog, which is taken not to happen, as the parts of its *)
(* prompts are counted by rule ids.  The severity of a rule is validated   *)
(* when its file is read.                                                  *)
(***************************************************************************)
ASSUME StandardsAssumption ==
    /\ MaxRules \in Nat \ {0} /\ MaxEdits \in Nat /\ MaxVotes \in Nat
    /\ FileOrder \in Seq(STRING)
    /\ \A f \in DOMAIN Shipped : Shipped[f] \in Contents
    /\ DOMAIN Founding \subseteq RfcIds
    /\ \A i \in DOMAIN Founding : Founding[i] \in Contents
    /\ Absent \notin Contents /\ Broken \notin Contents /\ None \notin Contents
    /\ \A k \in Contents :
         /\ Book[k].clusters \in Seq([id : STRING, rules : Seq(STRING)])
         /\ \A c, d \in DOMAIN Book[k].clusters :
              \A i \in DOMAIN Book[k].clusters[c].rules, j \in DOMAIN Book[k].clusters[d].rules :
                Book[k].clusters[c].rules[i] = Book[k].clusters[d].rules[j] => c = d /\ i = j
         /\ \A r \in Rules[k] : Book[k].severity[r] \in 1..5

VARIABLES
    disk,       \* what each YAML file holds
    registry,   \* [catalogs, byUri, byId]
    proposals,  \* the content and the stage of each RFC
    votes,      \* the votes recorded for each RFC, in order of arrival
    edits
standardsVars == <<disk, registry, proposals, votes, edits>>

Files == Range(FileOrder)
Nothing == [x \in {} |-> None]
EmptyRegistry == [catalogs |-> Nothing, byUri |-> Nothing, byId |-> Nothing]
FoundingProposals == [i \in DOMAIN Founding |-> [content |-> Founding[i], stage |-> "RATIFIED"]]

StandardsInit ==
    /\ disk = [f \in Files |-> IF f \in DOMAIN Shipped THEN Shipped[f] ELSE Absent]
    /\ registry = EmptyRegistry
    /\ proposals = FoundingProposals
    /\ votes = Nothing
    /\ edits = 0

-----------------------------------------------------------------------------
Override(f, g) == [x \in DOMAIN f \cup DOMAIN g |-> IF x \in DOMAIN g THEN g[x] ELSE f[x]]

\* The last of the contents to be loaded that is one of S.
LastOf(ks, S) == ks[Max({n \in DOMAIN ks : ks[n] \in S})]

\* Of the contents ks, loaded one after another: the catalogs and the entries of both indexes.
CatalogsOf(ks) == [i \in {Book[k].id : k \in Range(ks)} |-> LastOf(ks, {k \in Contents : Book[k].id = i})]
UrisFrom(ks) == [u \in UNION {UrisOf[k] : k \in Range(ks)} |->
                   <<LastOf(ks, {k \in Contents : u \in UrisOf[k]}), u.rule>>]
IdsFrom(ks) == [r \in UNION {Rules[k] : k \in Range(ks)} |-> <<LastOf(ks, {k \in Contents : r \in Rules[k]}), r>>]

\* Mutant of Load: a rule that is indexed already is kept as it was.
LoadKeepsRules(reg, ks) ==
    [catalogs |-> Override(reg.catalogs, CatalogsOf(ks)),
     byUri |-> Override(UrisFrom(ks), reg.byUri),
     byId |-> Override(IdsFrom(ks), reg.byId)]

\* load_from_yaml, and hot_reload_into_taxonomy_registry once the content is linted:
\* rules the catalog no longer has stay in both indexes.
Load(reg, ks) ==
    [catalogs |-> Override(reg.catalogs, CatalogsOf(ks)),
     byUri |-> Override(reg.byUri, UrisFrom(ks)),
     byId |-> Override(reg.byId, IdsFrom(ks))]

\* load_all: a file that fails ends it with an exception; what came before it is loaded.
Readable == {n \in DOMAIN FileOrder : /\ disk[FileOrder[n]] \in Contents
                                      /\ \A m \in 1..n : disk[FileOrder[m]] # Broken}
LoadAll(reg) == [registry |-> Load(reg, [n \in Readable |-> disk[FileOrder[n]]]),
                 ok |-> \A f \in Files : disk[f] # Broken]

\* Every reader loads the files when it finds no catalog at all.
Lazy == IF registry.catalogs = Nothing THEN LoadAll(registry)
                                        ELSE [registry |-> registry, ok |-> TRUE]

GetRule(reg, r) == IF r \in DOMAIN reg.byId THEN reg.byId[r] ELSE None

-----------------------------------------------------------------------------
\* Each reads a snapshot of the catalogs: a function from catalog ids to contents, which
\* get_composite_catalog_hash hashes as a whole.
RootHash(catalogs) == catalogs

\* The p-th part of a cluster, of MaxRules rules or of what is left.
Part(k, c, p) ==
    LET rules == Book[k].clusters[c].rules
    IN  [content |-> k, cluster |-> c, part |-> p,
         rules |-> {rules[j] : j \in {i \in DOMAIN rules : (p - 1) * MaxRules < i /\ i <= p * MaxRules}}]

\* Mutant of Parts: the last, shorter part is lost.
FullParts(k, c) ==
    LET positions == DOMAIN Book[k].clusters[c].rules
    IN  {Part(k, c, p) : p \in {1} \cup {q \in positions : q * MaxRules \in positions}}

\* A cluster is cut at every MaxRules-th rule, and whole if it has no more than go into a prompt.
Parts(k, c) ==
    LET positions == DOMAIN Book[k].clusters[c].rules
    IN  {Part(k, c, p) : p \in {1} \cup {q \in positions : (q - 1) * MaxRules + 1 \in positions}}

\* get_granular_evaluation_clusters; the order of the catalogs is left out.
PartsOf == [k \in Contents |-> UNION {Parts(k, c) : c \in DOMAIN Book[k].clusters}]
GranularClusters(catalogs) == UNION {PartsOf[k] : k \in Range(catalogs)}

\* get_catalog_deltas: the rules of the catalogs that are new or have another hash.
Deltas(catalogs, previous) ==
    UNION {{<<catalogs[i], r>> : r \in Rules[catalogs[i]]} :
             i \in {j \in DOMAIN catalogs : j \notin DOMAIN previous \/ previous[j] # catalogs[j]}}

\* is_audit_stale: another root hash, or a catalog that is new or has another hash.
IsStale(catalogs, previous) ==
    \/ RootHash(catalogs) # RootHash(previous)
    \/ \E i \in DOMAIN catalogs : i \notin DOMAIN previous \/ previous[i] # catalogs[i]

-----------------------------------------------------------------------------
EditFile(f) ==
    /\ edits < MaxEdits
    /\ edits' = edits + 1
    /\ \E k \in Contents \cup {Absent, Broken} : disk' = [disk EXCEPT ![f] = k]
    /\ UNCHANGED <<registry, proposals, votes>>

\* A request that reads rules or catalogs; an exception of the loading ends it.
Read ==
    /\ registry' = Lazy.registry
    /\ UNCHANGED <<disk, proposals, votes, edits>>

\* A request for a report, a resource or a taxonomy, or the start of the relay.
Reload ==
    /\ registry' = LoadAll(registry).registry
    /\ UNCHANGED <<disk, proposals, votes, edits>>

\* register_proposal: what the linter accepts is proposed, whatever was there before.
Register(i) ==
    /\ \E k \in Contents :
         proposals' = IF Book[k].linted
                      THEN Override(proposals, [j \in {i} |-> [content |-> k, stage |-> "PROPOSED"]])
                      ELSE proposals
    /\ UNCHANGED <<disk, registry, votes, edits>>

VotesOn(i) == IF i \in DOMAIN votes THEN votes[i] ELSE <<>>

\* record_vote appends; nothing asks who has voted already.
Vote(i, verdict) ==
    /\ i \in DOMAIN proposals
    /\ Len(VotesOn(i)) < MaxVotes
    /\ votes' = Override(votes, [j \in {i} |->
                   Append(VotesOn(i), [content |-> proposals[i].content, vote |-> verdict])])
    /\ UNCHANGED <<disk, registry, proposals, edits>>

\* The stage is not asked for, and the files need not have been loaded yet.
HotReload(i) ==
    /\ i \in DOMAIN proposals
    /\ Book[proposals[i].content].linted
    /\ registry' = Load(registry, <<proposals[i].content>>)
    /\ UNCHANGED <<disk, proposals, votes, edits>>

\* Both registries are memory of one process.
Restart ==
    /\ registry' = EmptyRegistry
    /\ proposals' = FoundingProposals
    /\ votes' = Nothing
    /\ UNCHANGED <<disk, edits>>

StandardsNext ==
    \/ \E f \in Files : EditFile(f)
    \/ Read \/ Reload
    \/ \E i \in RfcIds : Register(i) \/ HotReload(i) \/ \E v \in Verdicts : Vote(i, v)

StandardsSpec == StandardsInit /\ [][StandardsNext \/ Restart]_standardsVars

-----------------------------------------------------------------------------
(***************************************************************************)
(* Whatever was loaded, reloaded or replaced, in whatever order, a rule of *)
(* a catalog in force is found by its URI and by its id as that catalog    *)
(* has it, never as an earlier version of it had; only another catalog     *)
(* with the same id or URI can come before it                              *)
(* (taxonomy_loader.py:112-122, rfc.py:478-486).                           *)
(***************************************************************************)
OwnOrOther(found, k) == found = k \/ Book[found].id # Book[k].id
IndexServesLoaded ==
    \A i \in DOMAIN registry.catalogs :
        LET k == registry.catalogs[i]
        IN  \A r \in Rules[k] :
              /\ r \in DOMAIN registry.byId
              /\ LET found == registry.byId[r][1]
                 IN  r \in Rules[found] /\ OwnOrOther(found, k)
              /\ Uri(k, r) \in DOMAIN registry.byUri
              /\ LET found == registry.byUri[Uri(k, r)][1]
                 IN  Uri(k, r) \in UrisOf[found] /\ OwnOrOther(found, k)

(***************************************************************************)
(* What the code does not keep: a rule id is unique                        *)
(* (taxonomy_loader.py:36), so that a rule in force is found by its id as  *)
(* its catalog has it, or at least as one in force has it.                 *)
(***************************************************************************)
RuleIdsAreUnique ==
    \A i \in DOMAIN registry.catalogs : \A r \in Rules[registry.catalogs[i]] :
        registry.byId[r] = <<registry.catalogs[i], r>>
RulesAreInForce ==
    \A i \in DOMAIN registry.catalogs : \A r \in Rules[registry.catalogs[i]] :
        registry.byId[r][1] \in Range(registry.catalogs)

(***************************************************************************)
(* What the documentation promises of a reloaded standard: it stays in     *)
(* force while the node runs (rfc.py:45, 468).  A request that calls       *)
(* load_all puts the file's content back.                                  *)
(***************************************************************************)
ReloadedStays ==
    [][Reload => \A i \in DOMAIN registry.catalogs :
          registry.catalogs[i] \notin Range(disk) => registry'.catalogs[i] = registry.catalogs[i]
      ]_standardsVars
================================================================================
