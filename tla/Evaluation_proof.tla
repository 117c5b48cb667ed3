---------------------------- MODULE Evaluation_proof ----------------------------
(***************************************************************************)
(* The pipeline of an evaluation for every page, catalog, answer of the    *)
(* model and value of the bounds.  First the registry: loading a batch of  *)
(* contents leaves every catalog in force indexed, since what comes after  *)
(* its content is of other catalogs.  Then the                             *)
(* sums of the scoring, by induction on the subsets of a finite set, which *)
(* takes the good subsets as a set and not as a predicate.  Then the       *)
(* detectors, the findings and the report made of them, and how the rules  *)
(* of a catalog are cut into prompts.  At last the quality of a feed,      *)
(* which is made of sums over its pages.                                   *)
(***************************************************************************)
EXTENDS Evaluation, FeedQuality, FiniteSetTheorems, SequenceTheorems, WellFoundedInduction, TLAPS

-----------------------------------------------------------------------------
\* Induction on the subsets of a finite set, for a set of the good ones.
LEMMA SubsetInduction ==
    ASSUME NEW S, IsFiniteSet(S), NEW Good, {} \in Good,
           \A T \in SUBSET S : T # {} /\ (\A x \in T : T \ {x} \in Good) => T \in Good
    PROVE  \A T \in SUBSET S : T \in Good
<1> DEFINE Bad == {T \in SUBSET S : T \notin Good}
           Order == StrictSubsetOrdering(S)
<1> SUFFICES ASSUME Bad # {} PROVE FALSE
  OBVIOUS
<1>1. IsWellFoundedOn(Order, SUBSET S)
  BY FS_StrictSubsetOrderingWellFounded, FS_FiniteSubsetsOfFinite
<1>2. PICK T \in Bad : \A U \in Bad : ~(<<U, T>> \in Order)
  <2> Bad \subseteq SUBSET S
    OBVIOUS
  <2> HIDE DEF Bad, Order
  <2> QED BY <1>1, WFMin
<1>3. ASSUME NEW x \in T PROVE T \ {x} \in Good
  <2>1. <<T \ {x}, T>> \in Order
    BY <1>3 DEF StrictSubsetOrdering
  <2> QED BY <1>2, <2>1
<1> QED BY <1>3

\* A finite set of numbers that is not empty has a greatest one.
LEMMA GreatestExists ==
    ASSUME NEW S \in SUBSET Int, IsFiniteSet(S), S # {}
    PROVE  \E m \in S : \A x \in S : m >= x
<1> DEFINE Good == {T \in SUBSET S : T # {} => \E m \in T : \A x \in T : m >= x}
<1>1. {} \in Good
  OBVIOUS
<1>2. ASSUME NEW T \in SUBSET S, T # {}, \A x \in T : T \ {x} \in Good PROVE T \in Good
  <2>1. PICK y \in T : TRUE
    BY <1>2
  <2>2. CASE T \ {y} = {}
    <3>1. T = {y}
      BY <2>1, <2>2
    <3> QED BY <3>1
  <2>3. CASE T \ {y} # {}
    <3>1. T \ {y} \in Good
      BY <1>2
    <3>2. PICK m \in T \ {y} : \A x \in T \ {y} : m >= x
      BY <2>3, <3>1
    <3>3. CASE m >= y
      BY <3>2, <3>3
    <3>4. CASE y >= m
      <4>1. \A x \in T : y >= x
        BY <3>2, <3>4
      <4> QED BY <4>1
    <3> QED BY <3>3, <3>4
  <2> QED BY <2>2, <2>3
<1> HIDE DEF Good
<1>3. S \in Good
  BY <1>1, <1>2, SubsetInduction
<1> QED BY <1>3 DEF Good

\* Max of the library is that greatest number.
LEMMA GreatestIsMax ==
    ASSUME NEW S \in SUBSET Int, IsFiniteSet(S), S # {}
    PROVE  Max(S) \in S /\ \A x \in S : Max(S) >= x
BY GreatestExists DEF Max

-----------------------------------------------------------------------------
\* Contents to be loaded, one after another.
Batch(ks) ==
    /\ DOMAIN ks \in SUBSET Nat /\ IsFiniteSet(DOMAIN ks)
    /\ \A n \in DOMAIN ks : ks[n] \in Contents

\* The last content of a batch that is in S, where there is one.
LEMMA LastIsLast ==
    ASSUME NEW ks, Batch(ks), NEW S, NEW n \in DOMAIN ks, ks[n] \in S
    PROVE  \E m \in DOMAIN ks : /\ LastOf(ks, S) = ks[m] /\ ks[m] \in S
                                /\ \A l \in DOMAIN ks : ks[l] \in S => m >= l
<1> DEFINE N == {l \in DOMAIN ks : ks[l] \in S}
<1>1. N \in SUBSET Int /\ N # {}
  BY DEF Batch
<1>2. IsFiniteSet(N)
  BY FS_Subset DEF Batch
<1>3. Max(N) \in N /\ \A x \in N : Max(N) >= x
  <2> HIDE DEF N
  <2> QED BY <1>1, <1>2, GreatestIsMax
<1>4. LastOf(ks, S) = ks[Max(N)]
  BY DEF LastOf
<1> QED BY <1>3, <1>4

\* One function put over another.
LEMMA OverrideIs ==
    ASSUME NEW f, NEW g
    PROVE  /\ DOMAIN Override(f, g) = DOMAIN f \cup DOMAIN g
           /\ \A x \in DOMAIN g : Override(f, g)[x] = g[x]
           /\ \A x \in DOMAIN f \ DOMAIN g : Override(f, g)[x] = f[x]
BY DEF Override

\* What is indexed is what the catalogs have: of each catalog all its rules, unless another
\* has the same, and of each index nothing else.
HasRule(e, k, r) == r \in Rules[e[1]] /\ OwnOrOther(e[1], k)
HasUri(e, k, u) == u \in UrisOf[e[1]] /\ OwnOrOther(e[1], k)
Indexed(reg) ==
    /\ \A i \in DOMAIN reg.catalogs : reg.catalogs[i] \in Contents /\ Book[reg.catalogs[i]].id = i
    /\ \A i \in DOMAIN reg.catalogs : \A r \in Rules[reg.catalogs[i]] :
         /\ r \in DOMAIN reg.byId /\ HasRule(reg.byId[r], reg.catalogs[i], r)
         /\ Uri(reg.catalogs[i], r) \in DOMAIN reg.byUri
         /\ HasUri(reg.byUri[Uri(reg.catalogs[i], r)], reg.catalogs[i], Uri(reg.catalogs[i], r))
    /\ \A r \in DOMAIN reg.byId : \E k \in Contents : r \in Rules[k] /\ reg.byId[r] = <<k, r>>

\* Loading a batch leaves every catalog in force indexed.
LEMMA LoadIndexes ==
    ASSUME NEW reg, Indexed(reg), NEW ks, Batch(ks)
    PROVE  Indexed(Load(reg, ks))
<1> DEFINE new == Load(reg, ks)
<1>1. /\ new.catalogs = Override(reg.catalogs, CatalogsOf(ks))
      /\ new.byUri = Override(reg.byUri, UrisFrom(ks))
      /\ new.byId = Override(reg.byId, IdsFrom(ks))
  BY DEF Load
<1> HIDE DEF new
<1>c. /\ DOMAIN new.catalogs = DOMAIN reg.catalogs \cup DOMAIN CatalogsOf(ks)
      /\ \A x \in DOMAIN CatalogsOf(ks) : new.catalogs[x] = CatalogsOf(ks)[x]
      /\ \A x \in DOMAIN reg.catalogs \ DOMAIN CatalogsOf(ks) : new.catalogs[x] = reg.catalogs[x]
  BY <1>1 DEF Override
<1>u. /\ DOMAIN new.byUri = DOMAIN reg.byUri \cup DOMAIN UrisFrom(ks)
      /\ \A x \in DOMAIN UrisFrom(ks) : new.byUri[x] = UrisFrom(ks)[x]
      /\ \A x \in DOMAIN reg.byUri \ DOMAIN UrisFrom(ks) : new.byUri[x] = reg.byUri[x]
  BY <1>1 DEF Override
<1>i. /\ DOMAIN new.byId = DOMAIN reg.byId \cup DOMAIN IdsFrom(ks)
      /\ \A x \in DOMAIN IdsFrom(ks) : new.byId[x] = IdsFrom(ks)[x]
      /\ \A x \in DOMAIN reg.byId \ DOMAIN IdsFrom(ks) : new.byId[x] = reg.byId[x]
  BY <1>1 DEF Override
<1>2. DOMAIN CatalogsOf(ks) = {Book[k].id : k \in Range(ks)}
  BY DEF CatalogsOf
<1>3. ASSUME NEW i \in DOMAIN CatalogsOf(ks)
      PROVE  \E m \in DOMAIN ks : /\ CatalogsOf(ks)[i] = ks[m] /\ Book[ks[m]].id = i
                                  /\ \A n \in DOMAIN ks : Book[ks[n]].id = i => m >= n
  <2> DEFINE S == {k \in Contents : Book[k].id = i}
  <2>1. CatalogsOf(ks)[i] = LastOf(ks, S)
    BY <1>3 DEF CatalogsOf
  <2>2. PICK n \in DOMAIN ks : Book[ks[n]].id = i
    BY <1>2, <1>3 DEF Range
  <2>3. \A l \in DOMAIN ks : ks[l] \in S <=> Book[ks[l]].id = i
    BY DEF Batch
  <2> HIDE DEF S
  <2> QED BY <2>1, <2>2, <2>3, LastIsLast
<1>4. ASSUME NEW n \in DOMAIN ks, NEW r \in Rules[ks[n]]
      PROVE  /\ r \in DOMAIN IdsFrom(ks)
             /\ \E m \in DOMAIN ks : /\ IdsFrom(ks)[r] = <<ks[m], r>> /\ r \in Rules[ks[m]]
                                     /\ \A l \in DOMAIN ks : r \in Rules[ks[l]] => m >= l
  <2> DEFINE S == {k \in Contents : r \in Rules[k]}
  <2>1. r \in DOMAIN IdsFrom(ks) /\ IdsFrom(ks)[r] = <<LastOf(ks, S), r>>
    BY <1>4 DEF IdsFrom, Range
  <2>2. \A l \in DOMAIN ks : ks[l] \in S <=> r \in Rules[ks[l]]
    BY DEF Batch
  <2> HIDE DEF S
  <2> QED BY <1>4, <2>1, <2>2, LastIsLast
<1>5. ASSUME NEW n \in DOMAIN ks, NEW r \in Rules[ks[n]]
      PROVE  /\ Uri(ks[n], r) \in DOMAIN UrisFrom(ks)
             /\ \E m \in DOMAIN ks : /\ UrisFrom(ks)[Uri(ks[n], r)] = <<ks[m], r>>
                                     /\ Uri(ks[n], r) \in UrisOf[ks[m]]
                                     /\ \A l \in DOMAIN ks : Uri(ks[n], r) \in UrisOf[ks[l]] => m >= l
  <2> DEFINE u == Uri(ks[n], r)
             S == {k \in Contents : u \in UrisOf[k]}
  <2> ks[n] \in Contents
    BY DEF Batch
  <2>5. u \in UrisOf[ks[n]]
    BY <1>5 DEF UrisOf
  <2>6. u.rule = r
    BY DEF Uri
  <2>1. u \in UrisOf[ks[n]] /\ u.rule = r
    BY <2>5, <2>6
  <2> HIDE DEF u
  <2>2. u \in DOMAIN UrisFrom(ks) /\ UrisFrom(ks)[u] = <<LastOf(ks, S), r>>
    BY <2>1 DEF UrisFrom, Range
  <2>3. \A l \in DOMAIN ks : ks[l] \in S <=> u \in UrisOf[ks[l]]
    BY DEF Batch
  <2> HIDE DEF S
  <2>4. \E m \in DOMAIN ks : /\ UrisFrom(ks)[u] = <<ks[m], r>> /\ u \in UrisOf[ks[m]]
                             /\ \A l \in DOMAIN ks : u \in UrisOf[ks[l]] => m >= l
    BY <2>1, <2>2, <2>3, LastIsLast
  <2> QED BY <2>2, <2>4 DEF u
<1>6. ASSUME NEW i \in DOMAIN new.catalogs
      PROVE  new.catalogs[i] \in Contents /\ Book[new.catalogs[i]].id = i
  <2>1. CASE i \in DOMAIN CatalogsOf(ks)
    <3>1. new.catalogs[i] = CatalogsOf(ks)[i]
      BY <1>c, <1>i, <2>1
    <3> QED BY <1>3, <2>1, <3>1 DEF Batch
  <2>2. CASE i \notin DOMAIN CatalogsOf(ks)
    <3>1. i \in DOMAIN reg.catalogs /\ new.catalogs[i] = reg.catalogs[i]
      BY <1>c, <1>6, <2>2
    <3> QED BY <3>1 DEF Indexed
  <2> QED BY <2>1, <2>2
<1>7. ASSUME NEW i \in DOMAIN new.catalogs, NEW r \in Rules[new.catalogs[i]]
      PROVE  /\ r \in DOMAIN new.byId /\ HasRule(new.byId[r], new.catalogs[i], r)
             /\ Uri(new.catalogs[i], r) \in DOMAIN new.byUri
             /\ HasUri(new.byUri[Uri(new.catalogs[i], r)], new.catalogs[i], Uri(new.catalogs[i], r))
  <2> PICK k : k = new.catalogs[i]
    OBVIOUS
  <2> PICK u : u = Uri(k, r)
    OBVIOUS
  <2>0. k \in Contents /\ Book[k].id = i /\ r \in Rules[k] /\ u \in UrisOf[k]
    BY <1>6, <1>7 DEF UrisOf
  <2>a. ASSUME r \in DOMAIN IdsFrom(ks) PROVE r \in DOMAIN new.byId /\ new.byId[r] = IdsFrom(ks)[r]
    BY <1>i, <2>a
  <2>b. ASSUME u \in DOMAIN UrisFrom(ks) PROVE u \in DOMAIN new.byUri /\ new.byUri[u] = UrisFrom(ks)[u]
    BY <1>u, <2>b
  <2>1. CASE i \in DOMAIN CatalogsOf(ks)
    <3>1. k = CatalogsOf(ks)[i]
      BY <1>c, <2>1
    <3>2. PICK m \in DOMAIN ks : /\ k = ks[m]
                                 /\ \A n \in DOMAIN ks : Book[ks[n]].id = i => m >= n
      BY <1>3, <2>1, <3>1
    <3>3. r \in DOMAIN IdsFrom(ks) /\ HasRule(IdsFrom(ks)[r], k, r)
      <4>1. PICK n \in DOMAIN ks : /\ IdsFrom(ks)[r] = <<ks[n], r>> /\ r \in Rules[ks[n]]
                                   /\ \A l \in DOMAIN ks : r \in Rules[ks[l]] => n >= l
        BY <1>4, <2>0, <3>2
      <4>2. Book[ks[n]].id = i => m = n
        BY <2>0, <3>2, <4>1 DEF Batch
      <4>3. OwnOrOther(ks[n], k)
        BY <2>0, <3>2, <4>2 DEF OwnOrOther
      <4> QED BY <1>4, <2>0, <3>2, <4>1, <4>3 DEF HasRule
    <3>4. u \in DOMAIN UrisFrom(ks) /\ HasUri(UrisFrom(ks)[u], k, u)
      <4>1. PICK n \in DOMAIN ks : /\ UrisFrom(ks)[u] = <<ks[n], r>> /\ u \in UrisOf[ks[n]]
                                   /\ \A l \in DOMAIN ks : u \in UrisOf[ks[l]] => n >= l
        BY <1>5, <2>0, <3>2
      <4>2. Book[ks[n]].id = i => m = n
        BY <2>0, <3>2, <4>1 DEF Batch
      <4>3. OwnOrOther(ks[n], k)
        BY <2>0, <3>2, <4>2 DEF OwnOrOther
      <4> QED BY <1>5, <2>0, <3>2, <4>1, <4>3 DEF HasUri
    <3> QED BY <2>a, <2>b, <3>3, <3>4
  <2>2. CASE i \notin DOMAIN CatalogsOf(ks)
    <3>1. i \in DOMAIN reg.catalogs /\ k = reg.catalogs[i]
      BY <1>c, <1>7, <2>2
    <3>2. \A n \in DOMAIN ks : Book[ks[n]].id # i
      BY <1>2, <2>2 DEF Range
    <3>3. r \in DOMAIN reg.byId /\ HasRule(reg.byId[r], k, r) /\ u \in DOMAIN reg.byUri /\ HasUri(reg.byUri[u], k, u)
      BY <2>0, <3>1 DEF Indexed
    <3>4. r \in DOMAIN new.byId /\ HasRule(new.byId[r], k, r)
      <4>1. CASE r \in DOMAIN IdsFrom(ks)
        <5>1. PICK n \in DOMAIN ks : r \in Rules[ks[n]]
          BY <4>1 DEF IdsFrom, Range
        <5>2. PICK m \in DOMAIN ks : IdsFrom(ks)[r] = <<ks[m], r>> /\ r \in Rules[ks[m]]
          BY <1>4, <5>1
        <5> QED BY <2>0, <2>a, <3>2, <4>1, <5>2 DEF HasRule, OwnOrOther
      <4>2. CASE r \notin DOMAIN IdsFrom(ks)
        BY <1>i, <3>3, <4>2
      <4> QED BY <4>1, <4>2
    <3>5. u \in DOMAIN new.byUri /\ HasUri(new.byUri[u], k, u)
      <4>1. CASE u \in DOMAIN UrisFrom(ks)
        <5>1. PICK n \in DOMAIN ks : u \in UrisOf[ks[n]]
          BY <4>1 DEF UrisFrom, Range
        <5>2. PICK q \in Rules[ks[n]] : u = Uri(ks[n], q)
          BY <5>1 DEF UrisOf, Batch
        <5>3. PICK m \in DOMAIN ks : UrisFrom(ks)[u] = <<ks[m], q>> /\ u \in UrisOf[ks[m]]
          BY <1>5, <5>2
        <5> QED BY <2>0, <2>b, <3>2, <4>1, <5>3 DEF HasUri, OwnOrOther
      <4>2. CASE u \notin DOMAIN UrisFrom(ks)
        BY <1>u, <3>3, <4>2
      <4> QED BY <4>1, <4>2
    <3> QED BY <3>4, <3>5
  <2> QED BY <2>1, <2>2
<1>8. ASSUME NEW r \in DOMAIN new.byId PROVE \E k \in Contents : r \in Rules[k] /\ new.byId[r] = <<k, r>>
  <2>1. CASE r \in DOMAIN IdsFrom(ks)
    <3>1. PICK n \in DOMAIN ks : r \in Rules[ks[n]]
      BY <2>1 DEF IdsFrom, Range
    <3>2. PICK m \in DOMAIN ks : IdsFrom(ks)[r] = <<ks[m], r>> /\ r \in Rules[ks[m]]
      BY <1>4, <3>1
    <3>3. new.byId[r] = IdsFrom(ks)[r]
      BY <1>c, <1>i, <2>1
    <3> QED BY <3>2, <3>3 DEF Batch
  <2>2. CASE r \notin DOMAIN IdsFrom(ks)
    <3>1. r \in DOMAIN reg.byId /\ new.byId[r] = reg.byId[r]
      BY <1>i, <1>8, <2>2
    <3> QED BY <3>1 DEF Indexed
  <2> QED BY <2>1, <2>2
<1>9. Indexed(new)
  BY <1>6, <1>7, <1>8 DEF Indexed
<1> QED BY <1>9 DEF new

\* So does loading the files, even where one of them fails.
LEMMA FilesIndex ==
    ASSUME NEW reg, Indexed(reg) PROVE Indexed(LoadAll(reg).registry)
<1> DEFINE ks == [n \in Readable |-> disk[FileOrder[n]]]
<1>1. Readable \subseteq 1..Len(FileOrder) /\ Len(FileOrder) \in Nat
  BY StandardsAssumption DEF Readable
<1>2. IsFiniteSet(Readable)
  <2>1. IsFiniteSet(1..Len(FileOrder))
    BY <1>1, FS_Interval, 1 \in Int
  <2> QED BY <1>1, <2>1, FS_Subset
<1>3. Batch(ks)
  <2>1. DOMAIN ks = Readable /\ \A n \in Readable : ks[n] = disk[FileOrder[n]] /\ ks[n] \in Contents
    BY DEF Readable
  <2> HIDE DEF ks
  <2> QED BY <1>1, <1>2, <2>1 DEF Batch
<1>4. LoadAll(reg).registry = Load(reg, ks)
  BY DEF LoadAll
<1> HIDE DEF ks
<1> QED BY <1>3, <1>4, LoadIndexes

\* So does a reader that loads them because there is nothing yet.
LEMMA LazyIndexes == ASSUME Indexed(registry) PROVE Indexed(Lazy.registry)
BY FilesIndex DEF Lazy

\* An empty registry has nothing to index.
LEMMA EmptyIndexed == Indexed(EmptyRegistry)
BY DEF Indexed, EmptyRegistry, Nothing

\* So does a hot reload of one content.
LEMMA OneIndexes ==
    ASSUME NEW k \in Contents, Indexed(registry) PROVE Indexed(Load(registry, <<k>>))
<1>1. PICK ks : ks = <<k>>
  OBVIOUS
<1>2. DOMAIN ks = 1..1 /\ ks[1] = k
  BY <1>1
<1>3. IsFiniteSet(1..1)
  BY FS_Interval, 1 \in Int
<1>4. Batch(ks)
  BY <1>2, <1>3 DEF Batch
<1> QED BY <1>1, <1>4, LoadIndexes

ProposalsOK == \A i \in DOMAIN proposals : proposals[i].content \in Contents
IndexInv == Indexed(registry) /\ ProposalsOK

\* The proposals a node begins with have a content.
LEMMA FoundingOK ==
    /\ DOMAIN FoundingProposals = DOMAIN Founding
    /\ \A i \in DOMAIN FoundingProposals : FoundingProposals[i].content \in Contents
BY StandardsAssumption DEF FoundingProposals

\* Every step of the registry keeps its indexes.
LEMMA StandardsKeepIndex ==
    ASSUME IndexInv, StandardsNext PROVE IndexInv'
<1>1. ASSUME NEW f, EditFile(f) PROVE IndexInv'
  BY <1>1 DEF IndexInv, ProposalsOK, EditFile
<1>2. CASE Read
  BY <1>2, LazyIndexes DEF IndexInv, ProposalsOK, Read
<1>3. CASE Reload
  BY <1>3, FilesIndex DEF IndexInv, ProposalsOK, Reload
<1>4. ASSUME NEW i, Register(i) PROVE IndexInv'
  <2>1. registry' = registry
    BY <1>4 DEF Register
  <2>2. PICK k \in Contents : proposals' = IF Book[k].linted
                      THEN Override(proposals, [j \in {i} |-> [content |-> k, stage |-> "PROPOSED"]])
                      ELSE proposals
    BY <1>4 DEF Register
  <2>3. ProposalsOK'
    BY <2>2 DEF IndexInv, ProposalsOK, Override
  <2> QED BY <2>1, <2>3 DEF IndexInv
<1>5. ASSUME NEW i, NEW v, Vote(i, v) PROVE IndexInv'
  BY <1>5 DEF IndexInv, ProposalsOK, Vote
<1>6. ASSUME NEW i, HotReload(i) PROVE IndexInv'
  <2>1. proposals[i].content \in Contents
    BY <1>6 DEF IndexInv, ProposalsOK, HotReload
  <2>2. registry' = Load(registry, <<proposals[i].content>>) /\ proposals' = proposals
    BY <1>6 DEF HotReload
  <2> QED BY <2>1, <2>2, OneIndexes DEF IndexInv, ProposalsOK
<1> QED BY <1>1, <1>2, <1>3, <1>4, <1>5, <1>6 DEF StandardsNext

\* So does every step of an evaluation.
LEMMA IndexKept == IndexInv /\ [Next]_vars => IndexInv'
<1> SUFFICES ASSUME IndexInv, [Next]_vars PROVE IndexInv'
  OBVIOUS
<1>1. CASE StandardsNext
  BY <1>1, StandardsKeepIndex
<1>2. ASSUME registry' = Lazy.registry, proposals' = proposals PROVE IndexInv'
  BY <1>2, LazyIndexes DEF IndexInv, ProposalsOK
<1>3. ASSUME NEW page, Begin(page) PROVE IndexInv'
  BY <1>2, <1>3 DEF Begin
<1>4. CASE BudgetAnswers
  BY <1>2, <1>4 DEF BudgetAnswers
<1>5. CASE SatireAnswers
  BY <1>2, <1>5 DEF SatireAnswers
<1>6. CASE SwarmAnswers
  BY <1>2, <1>6 DEF SwarmAnswers
<1>7. CASE Fallback
  BY <1>2, <1>7 DEF Fallback
<1>8. CASE UNCHANGED standardsVars
  BY <1>8 DEF standardsVars, IndexInv, ProposalsOK
<1>9. CASE Restart
  BY <1>9, EmptyIndexed, FoundingOK DEF Restart, IndexInv, ProposalsOK
<1>10. CASE Store
  BY <1>8, <1>10 DEF Store
<1>11. CASE Lose
  BY <1>8, <1>11 DEF Lose
<1>12. CASE Reboot
  BY <1>9, <1>12 DEF Reboot
<1>13. CASE UNCHANGED vars
  BY <1>8, <1>13 DEF vars
<1> QED
  BY <1>1, <1>3, <1>4, <1>5, <1>6, <1>7, <1>10, <1>11, <1>12, <1>13 DEF Next

\* The indexes are in order at the beginning.
LEMMA IndexBegins == Init => IndexInv
BY EmptyIndexed, FoundingOK DEF Init, StandardsInit, IndexInv, ProposalsOK

(***************************************************************************)
(* Whatever was loaded, reloaded or replaced, in whatever order and under  *)
(* whatever files that fail to load, every rule of a catalog in force is   *)
(* found by its URI and by its id as that catalog has it or as another     *)
(* catalog has it, never as an earlier content of its own had it.          *)
(***************************************************************************)
THEOREM IndexAlwaysServes == Spec => []IndexServesLoaded
<1>1. IndexInv => IndexServesLoaded
  BY DEF IndexInv, Indexed, IndexServesLoaded, HasRule, HasUri
<1> QED BY <1>1, IndexBegins, IndexKept, PTL DEF Spec

-----------------------------------------------------------------------------
Chosen(s) == CHOOSE x \in s : TRUE
Rec(w, S, g) == g = [s \in SUBSET S |-> IF s = {} THEN 0 ELSE w[Chosen(s)] + g[s \ {Chosen(s)}]]

\* What is chosen of a set that is not empty is in it.
LEMMA ChosenIn == ASSUME NEW s, s # {} PROVE Chosen(s) \in s
  BY DEF Chosen

\* Two recursive sums agree where both are defined.
LEMMA RecUnique ==
    ASSUME NEW w, NEW S, IsFiniteSet(S), NEW A, NEW B, S \subseteq A, S \subseteq B,
           NEW g, Rec(w, A, g), NEW h, Rec(w, B, h)
    PROVE  \A s \in SUBSET S : g[s] = h[s]
<1> DEFINE Good == {s \in SUBSET S : g[s] = h[s]}
<1>1. {} \in Good
  BY DEF Rec
<1>2. ASSUME NEW T \in SUBSET S, T # {}, \A x \in T : T \ {x} \in Good PROVE T \in Good
  <2>1. Chosen(T) \in T
    BY <1>2, ChosenIn
  <2>2. g[T \ {Chosen(T)}] = h[T \ {Chosen(T)}]
    BY <1>2, <2>1
  <2> QED BY <1>2, <2>2 DEF Rec
<1> HIDE DEF Good
<1>3. \A T \in SUBSET S : T \in Good
  BY <1>1, <1>2, SubsetInduction
<1> QED BY <1>3 DEF Good

\* A recursive sum over a set is the one over a part of it there.
LEMMA Agree ==
    ASSUME NEW w, NEW S, NEW T, T \subseteq S, IsFiniteSet(T),
           NEW g, Rec(w, S, g), NEW h, Rec(w, T, h)
    PROVE  g[T] = h[T]
<1>1. T \subseteq T /\ T \in SUBSET T
  OBVIOUS
<1>2. \A s \in SUBSET T : g[s] = h[s]
  BY <1>1, RecUnique, SMT
<1> QED BY <1>1, <1>2

\* There is a recursive sum over every finite set.
LEMMA RecExists ==
    ASSUME NEW w, NEW S, IsFiniteSet(S)
    PROVE  \E g : Rec(w, S, g)
<1> DEFINE Good == {T \in SUBSET S : \E g : Rec(w, T, g)}
<1>1. {} \in Good
  <2> DEFINE g == [s \in SUBSET {} |-> 0]
  <2>1. Rec(w, {}, g)
    BY DEF Rec
  <2> QED BY <2>1
<1>2. ASSUME NEW T \in SUBSET S, T # {}, \A x \in T : T \ {x} \in Good PROVE T \in Good
  <2>1. Chosen(T) \in T
    BY <1>2, ChosenIn
  <2> DEFINE G(U) == CHOOSE g : Rec(w, U, g)
  <2>2. ASSUME NEW U \in SUBSET T, U # T PROVE Rec(w, U, G(U))
    <3>1. PICK x \in T : U \subseteq T \ {x}
      BY <2>2
    <3>2. PICK h : Rec(w, T \ {x}, h)
      BY <1>2
    <3> DEFINE k == [s \in SUBSET U |-> h[s]]
    <3>3. Rec(w, U, k)
      <4>1. ASSUME NEW s \in SUBSET U PROVE k[s] = IF s = {} THEN 0 ELSE w[Chosen(s)] + k[s \ {Chosen(s)}]
        <5>1. s \in SUBSET (T \ {x}) /\ s \ {Chosen(s)} \in SUBSET U
          BY <3>1, <4>1
        <5> QED BY <3>2, <5>1 DEF Rec
      <4> QED BY <4>1 DEF Rec
    <3> HIDE DEF k
    <3> QED BY <3>3
  <2> DEFINE k == [s \in SUBSET T |-> IF s = T THEN w[Chosen(T)] + G(T \ {Chosen(T)})[T \ {Chosen(T)}]
                                      ELSE G(s)[s]]
  <2> HIDE DEF G
  <2>3. ASSUME NEW s \in SUBSET T PROVE k[s] = IF s = {} THEN 0 ELSE w[Chosen(s)] + k[s \ {Chosen(s)}]
    <3>1. CASE s = T
      BY <1>2, <2>1, <3>1
    <3>2. CASE s # T /\ s = {}
      BY <2>2, <3>2 DEF Rec
    <3>3. CASE s # T /\ s # {}
      <4>1. Chosen(s) \in s
        BY <3>3, ChosenIn
      <4> PICK r : r = s \ {Chosen(s)}
        OBVIOUS
      <4>2. r \in SUBSET T /\ r # T /\ r \subseteq s
        BY <3>3, <4>1
      <4>3. Rec(w, s, G(s)) /\ Rec(w, r, G(r))
        BY <2>2, <3>3, <4>2
      <4>4. IsFiniteSet(r)
        BY <4>2, FS_Subset
      <4>5. G(s)[r] = G(r)[r]
        <5> PICK a : a = G(s)
          OBVIOUS
        <5> PICK b : b = G(r)
          OBVIOUS
        <5>1. Rec(w, s, a) /\ Rec(w, r, b)
          BY <4>3
        <5>2. a[r] = b[r]
          BY <4>2, <4>4, <5>1, Agree, SMT
        <5> QED BY <5>2
      <4>6. G(s)[s] = w[Chosen(s)] + G(s)[r]
        BY <3>3, <4>3 DEF Rec
      <4> QED BY <3>3, <4>2, <4>5, <4>6
    <3> QED BY <3>1, <3>2, <3>3
  <2>4. Rec(w, T, k)
    BY <2>3 DEF Rec
  <2> HIDE DEF k
  <2> QED BY <2>4
<1> HIDE DEF Good
<1>3. S \in Good
  BY <1>1, <1>2, SubsetInduction
<1> QED BY <1>3 DEF Good

\* A sum is its recursive sum.
LEMMA SumIsRec == ASSUME NEW w, NEW S PROVE SumOf(w, S) = (CHOOSE g : Rec(w, S, g))[S]
  BY DEF SumOf, MapThenSumSet, MapThenFoldSet, Chosen, Rec

\* A sum is one of its terms and the sum of the rest.
LEMMA SumStep ==
    ASSUME NEW w, NEW S, IsFiniteSet(S)
    PROVE  /\ S = {} => SumOf(w, S) = 0
           /\ S # {} => /\ Chosen(S) \in S
                        /\ SumOf(w, S) = w[Chosen(S)] + SumOf(w, S \ {Chosen(S)})
<1> PICK T : T = S \ {Chosen(S)}
  OBVIOUS
<1> DEFINE g == CHOOSE g : Rec(w, S, g)
           h == CHOOSE h : Rec(w, T, h)
<1>1. IsFiniteSet(T)
  BY FS_Subset
<1>2. Rec(w, S, g) /\ Rec(w, T, h)
  BY <1>1, RecExists
<1>3. SumOf(w, S) = g[S] /\ SumOf(w, T) = h[T]
  BY SumIsRec
<1> HIDE DEF g, h
<1>4. g[T] = h[T]
  BY <1>1, <1>2, Agree, SMT
<1>5. CASE S = {}
  BY <1>2, <1>3, <1>5 DEF Rec
<1>6. CASE S # {}
  <2>1. g[S] = w[Chosen(S)] + g[S \ {Chosen(S)}]
    BY <1>2, <1>6 DEF Rec
  <2> QED BY <1>3, <1>4, <1>6, <2>1, ChosenIn
<1> QED BY <1>5, <1>6

\* A sum of natural numbers is natural, and nothing only if they all are.
LEMMA SumNat ==
    ASSUME NEW w, NEW S, IsFiniteSet(S), \A x \in S : w[x] \in Nat
    PROVE  /\ SumOf(w, S) \in Nat
           /\ SumOf(w, S) = 0 <=> \A x \in S : w[x] = 0
<1> DEFINE Good == {T \in SUBSET S : /\ SumOf(w, T) \in Nat
                                     /\ SumOf(w, T) = 0 <=> \A x \in T : w[x] = 0}
<1>1. {} \in Good
  <2>1. IsFiniteSet({})
    BY FS_EmptySet
  <2>2. SumOf(w, {}) = 0
    BY <2>1, SumStep
  <2> QED BY <2>2
<1>2. ASSUME NEW T \in SUBSET S, T # {}, \A x \in T : T \ {x} \in Good PROVE T \in Good
  <2>1. IsFiniteSet(T)
    BY FS_Subset
  <2> PICK c : c = Chosen(T)
    OBVIOUS
  <2>2. c \in T /\ SumOf(w, T) = w[c] + SumOf(w, T \ {c})
    BY <1>2, <2>1, SumStep
  <2>3. /\ SumOf(w, T \ {c}) \in Nat
        /\ SumOf(w, T \ {c}) = 0 <=> \A x \in T \ {c} : w[x] = 0
    BY <1>2, <2>2
  <2>4. w[c] \in Nat
    BY <2>2
  <2>5. SumOf(w, T) = 0 <=> w[c] = 0 /\ SumOf(w, T \ {c}) = 0
    <3> HIDE DEF Good
    <3> QED BY <2>2, <2>3, <2>4
  <2> QED BY <2>2, <2>3, <2>4, <2>5
<1> HIDE DEF Good
<1>3. \A T \in SUBSET S : T \in Good
  BY <1>1, <1>2, SubsetInduction
<1> QED BY <1>3 DEF Good

-----------------------------------------------------------------------------
\* Violations as the pipeline makes them: finitely many, each with a severity and a confidence,
\* of which a model may have none.
Findings(vs) ==
    /\ IsFiniteSet(DOMAIN vs)
    /\ \A x \in DOMAIN vs : vs[x].severity \in Nat \ {0} /\ vs[x].confidence \in Nat

\* What the verdict may rest on.
Trusted(v, text) == IsGrounded(v, text) /\ v.confidence > 0

\* A product of positive numbers is positive.
LEMMA Positive == ASSUME NEW a \in Nat \ {0}, NEW b \in Nat \ {0} PROVE a * b \in Nat \ {0}
  OBVIOUS

\* A violation weighs nothing exactly when it is not grounded or has no confidence.
LEMMA Weighs ==
    ASSUME NEW v, v.severity \in Nat \ {0}, v.confidence \in Nat, NEW text
    PROVE  /\ Suspicion(v, text) \in Nat
           /\ Suspicion(v, text) = 0 <=> ~Trusted(v, text)
<1> DEFINE m == v.severity * v.confidence
<1>1. m \in Nat /\ (m = 0 <=> v.confidence = 0)
  <2>1. CASE v.confidence = 0
    BY <2>1
  <2>2. CASE v.confidence # 0
    BY <2>2, Positive
  <2> QED BY <2>1, <2>2
<1>2. DomainWeight(v.domain) \in Nat \ {0}
  BY DEF DomainWeight
<1>3. m * DomainWeight(v.domain) \in Nat /\ (m * DomainWeight(v.domain) = 0 <=> m = 0)
  <2> HIDE DEF m
  <2>1. CASE m = 0
    BY <1>2, <2>1
  <2>2. CASE m # 0
    BY <1>1, <1>2, <2>2, Positive
  <2> QED BY <2>1, <2>2
<1>4. Suspicion(v, text) = IF IsGrounded(v, text) THEN m * DomainWeight(v.domain) ELSE 0
  BY DEF Suspicion
<1> HIDE DEF m
<1>5. CASE IsGrounded(v, text)
  BY <1>1, <1>3, <1>4, <1>5 DEF Trusted
<1>6. CASE ~IsGrounded(v, text)
  BY <1>4, <1>6 DEF Trusted
<1> QED BY <1>5, <1>6

\* The raw suspicion of a page is natural, and nothing exactly when nothing is to be trusted.
LEMMA RawIs ==
    ASSUME NEW vs, Findings(vs), NEW text
    PROVE  /\ RawSuspicion(vs, text) \in Nat
           /\ RawSuspicion(vs, text) = 0 <=> \A x \in DOMAIN vs : ~Trusted(vs[x], text)
<1> DEFINE S == DOMAIN vs
           w == [n \in S |-> Suspicion(vs[n], text)]
<1>1. \A x \in S : w[x] \in Nat /\ (w[x] = 0 <=> ~Trusted(vs[x], text))
  BY Weighs DEF Findings
<1>2. IsFiniteSet(S) /\ RawSuspicion(vs, text) = SumOf(w, S)
  BY DEF Findings, RawSuspicion
<1> HIDE DEF w, S
<1>3. SumOf(w, S) \in Nat /\ (SumOf(w, S) = 0 <=> \A x \in S : w[x] = 0)
  BY <1>1, <1>2, SumNat
<1>4. RawSuspicion(vs, text) = 0 <=> \A x \in S : ~Trusted(vs[x], text)
  BY <1>1, <1>2, <1>3
<1> QED BY <1>2, <1>3, <1>4 DEF S

\* The confidence of a report is natural.
LEMMA ConfidenceIs ==
    ASSUME NEW vs, Findings(vs), NEW text
    PROVE  AggregateConfidence(vs, text) \in Nat
<1> DEFINE S == {n \in DOMAIN vs : IsGrounded(vs[n], text)}
           w == [n \in DOMAIN vs |-> vs[n].confidence]
<1>1. AggregateConfidence(vs, text) = IF S = {} THEN 100 ELSE SumOf(w, S) \div Cardinality(S)
  BY DEF AggregateConfidence
<1>2. IsFiniteSet(S)
  <2>1. S \subseteq DOMAIN vs /\ IsFiniteSet(DOMAIN vs)
    BY DEF Findings
  <2> HIDE DEF S
  <2> QED BY <2>1, FS_Subset
<1>3. \A x \in S : w[x] \in Nat
  BY DEF Findings
<1> HIDE DEF S, w
<1>4. SumOf(w, S) \in Nat
  BY <1>2, <1>3, SumNat
<1>5. Cardinality(S) \in Nat /\ (Cardinality(S) = 0 <=> S = {})
  BY <1>2, FS_CardinalityType, FS_EmptySet
<1>6. CASE S = {}
  BY <1>1, <1>6
<1>7. CASE S # {}
  <2>1. Cardinality(S) \in Nat \ {0}
    BY <1>5, <1>7
  <2>2. SumOf(w, S) \div Cardinality(S) \in Nat
    BY <1>4, <2>1
  <2> QED BY <1>1, <1>7, <2>2
<1> QED BY <1>6, <1>7

-----------------------------------------------------------------------------
\* What VerdictIsGrounded says of a report.
GroundedReport(r) ==
    LET grounded == {v \in Range(r.violations) : v.quote \in r.page.text}
        trusted == {v \in grounded : v.confidence > 0}
    IN  /\ r.verdict \in {"LOW_SUSPICION", "SUSPICIOUS", "DECEPTIVE"} => trusted # {}
        /\ r.satire <=> r.verdict = "SATIRE_PARODY"
        /\ r.satire => /\ r.score = 0
                       /\ \A v \in grounded : v.domain # Deceptive
        /\ (r.score = 0 /\ ~r.satire) => trusted = {}

\* What the assessment says of satire, score and verdict.
LEMMA AssessmentIs ==
    ASSUME NEW method, NEW e, NEW vs, NEW satire
    PROVE  LET r == Report(method, e, vs, satire)
               stands == SatireStands(vs, e.page, satire, Defamatory)
               cloaked == Cloaked(vs, e.page, Defamatory)
           IN  /\ r.satire = stands
               /\ r.score = CalibratedScore(RawSuspicion(vs, e.page.text), stands, cloaked)
               /\ r.verdict = ClassifyVerdict(CalibratedScore(RawSuspicion(vs, e.page.text), stands, cloaked),
                                              stands, cloaked)
               /\ r.violations = vs /\ r.page = e.page
               /\ r.method = method /\ r.pinned = e.pinned /\ r.parts = e.parts
               /\ r.confidence = IF method = "offline" /\ AggregateConfidence(vs, e.page.text) > Ceiling
                                 THEN Ceiling ELSE AggregateConfidence(vs, e.page.text)
BY DEF Report, Assessment

\* Every report on such violations is grounded.
LEMMA ReportsGrounded ==
    ASSUME NEW method, NEW e, NEW vs, Findings(vs), NEW satire
    PROVE  GroundedReport(Report(method, e, vs, satire))
<1> DEFINE r == Report(method, e, vs, satire)
           stands == SatireStands(vs, e.page, satire, Defamatory)
           cloaked == Cloaked(vs, e.page, Defamatory)
           raw == RawSuspicion(vs, e.page.text)
           score == CalibratedScore(raw, stands, cloaked)
           grounded == {v \in Range(vs) : v.quote \in e.page.text}
           trusted == {v \in grounded : v.confidence > 0}
<1>1. /\ r.satire = stands /\ r.score = score /\ r.verdict = ClassifyVerdict(score, stands, cloaked)
      /\ r.violations = vs /\ r.page = e.page
  BY AssessmentIs
<1>2. raw \in Nat /\ (raw = 0 <=> trusted = {})
  BY RawIs DEF Range, IsGrounded, Trusted
<1>3. stands \in BOOLEAN /\ cloaked \in BOOLEAN
  BY DEF SatireStands, Cloaked
<1>4. stands => ~cloaked /\ \A v \in grounded : v.domain # Deceptive
  BY DEF SatireStands, Range, IsGrounded, Deceptive
<1> HIDE DEF r, stands, cloaked, raw, grounded, trusted
<1>5. score = IF stands /\ ~cloaked THEN 0 ELSE raw
  BY DEF CalibratedScore
<1> HIDE DEF score
<1>6. ClassifyVerdict(score, stands, cloaked) = "SATIRE_PARODY" <=> stands
  BY <1>3, <1>4 DEF ClassifyVerdict
<1>7. ClassifyVerdict(score, stands, cloaked) \in {"LOW_SUSPICION", "SUSPICIOUS", "DECEPTIVE"} => trusted # {}
  BY <1>2, <1>3, <1>4, <1>5 DEF ClassifyVerdict
<1>8. r.verdict \in {"LOW_SUSPICION", "SUSPICIOUS", "DECEPTIVE"} => trusted # {}
  BY <1>1, <1>7
<1>9. r.satire <=> r.verdict = "SATIRE_PARODY"
  BY <1>1, <1>6
<1>10. r.satire => r.score = 0 /\ \A v \in grounded : v.domain # Deceptive
  BY <1>1, <1>4, <1>5
<1>11. (r.score = 0 /\ ~r.satire) => trusted = {}
  BY <1>1, <1>2, <1>5
<1>12. GroundedReport(r)
  BY <1>1, <1>8, <1>9, <1>10, <1>11 DEF GroundedReport, grounded, trusted
<1> QED BY <1>12 DEF r

-----------------------------------------------------------------------------
\* Small enumerated sets are finite.
LEMMA Three == ASSUME NEW a, NEW b, NEW c PROVE IsFiniteSet({a, b, c})
<1>1. IsFiniteSet({a}) /\ IsFiniteSet({b}) /\ IsFiniteSet({c})
  BY FS_Singleton
<1>2. IsFiniteSet({a} \cup {b})
  BY <1>1, FS_Union
<1>3. IsFiniteSet(({a} \cup {b}) \cup {c})
  BY <1>1, <1>2, FS_Union
<1>4. {a, b, c} = ({a} \cup {b}) \cup {c}
  OBVIOUS
<1> QED BY <1>3, <1>4

\* Five elements.
LEMMA Five == ASSUME NEW a, NEW b, NEW c, NEW d, NEW e PROVE IsFiniteSet({a, b, c, d, e})
<1>1. IsFiniteSet({a, b, c}) /\ IsFiniteSet({d, e, e})
  BY Three
<1>2. IsFiniteSet({a, b, c} \cup {d, e, e})
  BY <1>1, FS_Union
<1>3. {a, b, c, d, e} = {a, b, c} \cup {d, e, e}
  OBVIOUS
<1> QED BY <1>2, <1>3

\* Thirteen elements.
LEMMA Thirteen ==
    ASSUME NEW a, NEW b, NEW c, NEW d, NEW e, NEW f, NEW g, NEW h, NEW i, NEW j, NEW k, NEW l, NEW m
    PROVE  IsFiniteSet({a, b, c, d, e, f, g, h, i, j, k, l, m})
<1>1. IsFiniteSet({a, b, c, d, e}) /\ IsFiniteSet({f, g, h, i, j}) /\ IsFiniteSet({k, l, m})
  BY Three, Five
<1>2. IsFiniteSet({a, b, c, d, e} \cup {f, g, h, i, j})
  BY <1>1, FS_Union
<1>3. IsFiniteSet(({a, b, c, d, e} \cup {f, g, h, i, j}) \cup {k, l, m})
  BY <1>1, <1>2, FS_Union
<1>4. {a, b, c, d, e, f, g, h, i, j, k, l, m} = ({a, b, c, d, e} \cup {f, g, h, i, j}) \cup {k, l, m}
  OBVIOUS
<1> QED BY <1>3, <1>4

\* There are finitely many detectors.
LEMMA DetectorsFinite == ASSUME NEW ids PROVE IsFiniteSet(Detectors(ids))
<1>1. IsFiniteSet(DeceptiveDetectors(ids))
  BY Five, ZenonT(60) DEF DeceptiveDetectors
<1>2. IsFiniteSet(FallacyDetectors)
  BY Five, ZenonT(60) DEF FallacyDetectors
<1>3. IsFiniteSet(EthicsDetectors)
  BY Thirteen, ZenonT(60) DEF EthicsDetectors
<1>4. IsFiniteSet(DeceptiveDetectors(ids) \cup FallacyDetectors)
  BY <1>1, <1>2, FS_Union
<1>5. IsFiniteSet((DeceptiveDetectors(ids) \cup FallacyDetectors) \cup EthicsDetectors)
  BY <1>3, <1>4, FS_Union
<1> QED BY <1>5 DEF Detectors

\* A detector's confidence is positive, and one that cites always has a severity of its own.
SoundDetector(d) ==
    /\ d.confidence \in Nat \ {0} /\ d.severity \in Nat /\ d.otherwise \in Nat
    /\ d.always \in BOOLEAN
    /\ d.always => d.severity # 0 \/ d.otherwise # 0

\* Every detector is sound.
LEMMA DetectorsSound == ASSUME NEW ids PROVE \A d \in Detectors(ids) : SoundDetector(d)
<1> DEFINE Plain(x) == \E a, b, c, e : \E f \in Nat \ {0} : x = Detector(a, b, c, f, e)
<1>1. \A d \in FallacyDetectors : Plain(d)
  BY DEF FallacyDetectors
<1>2. \A d \in EthicsDetectors : Plain(d)
  BY DEF EthicsDetectors
<1>3. \A d \in DeceptiveDetectors(ids) : Plain(d) \/ SoundDetector(d)
  <2> PICK camouflage : camouflage = IF "DEC-1.4" \in ids THEN "DEC-1.4" ELSE "DP-1.1"
    OBVIOUS
  <2> DEFINE sponsored == [Detector("sponsored", camouflage, Deceptive, 100, "sponsored")
                             EXCEPT !.severity = 5, !.always = TRUE]
             promotion == [Detector("promotion", camouflage, Deceptive, 95, "promotion")
                             EXCEPT !.otherwise = 4, !.always = TRUE]
  <2>1. DeceptiveDetectors(ids) =
          {Detector("confirmshaming", "DP-2.1", Deceptive, 100, "opt-out"),
           Detector("countdown", "DP-2.2", Deceptive, 95, "deal-expires"),
           Detector("hidden-terms", "DP-1.1", Deceptive, 98, "recurring-charge"), sponsored, promotion}
    BY Zenon DEF DeceptiveDetectors
  <2>2. SoundDetector(sponsored)
    BY DEF SoundDetector, Detector
  <2>3. SoundDetector(promotion)
    BY DEF SoundDetector, Detector
  <2> HIDE DEF sponsored, promotion
  <2> QED BY <2>1, <2>2, <2>3
<1>4. ASSUME NEW d, Plain(d) PROVE SoundDetector(d)
  BY <1>4 DEF SoundDetector, Detector
<1> HIDE DEF Plain
<1> QED BY <1>1, <1>2, <1>3, <1>4 DEF Detectors

\* Whatever the registry holds, the detectors are those of one table or the other.
LEMMA KnownDetectors == ASSUME NEW ids PROVE Detectors(ids) \subseteq Detectors({}) \cup Detectors({"DEC-1.4"})
<1>1. DeceptiveDetectors(ids) \subseteq DeceptiveDetectors({}) \cup DeceptiveDetectors({"DEC-1.4"})
  <2>1. CASE "DEC-1.4" \in ids
    BY <2>1, Zenon DEF DeceptiveDetectors
  <2>2. CASE "DEC-1.4" \notin ids
    BY <2>2, Zenon DEF DeceptiveDetectors
  <2> QED BY <2>1, <2>2
<1> QED BY <1>1 DEF Detectors

\* What the registry answers for a rule: its severity is one of the five.
LEMMA RuleInIs ==
    ASSUME NEW reg, Indexed(reg), NEW r
    PROVE  RuleIn(reg, r).severity \in 1..5
<1>1. CASE r \in DOMAIN reg.byId
  <2>1. PICK k \in Contents : r \in Rules[k] /\ reg.byId[r] = <<k, r>>
    BY <1>1 DEF Indexed
  <2>2. reg.byId[r][1] = k
    BY <2>1
  <2>3. Book[k].severity[r] \in 1..5
    BY <2>1, StandardsAssumption
  <2> QED BY <1>1, <2>2, <2>3 DEF RuleIn
<1>2. CASE r \notin DOMAIN reg.byId
  BY <1>2 DEF RuleIn
<1> QED BY <1>1, <1>2

\* What the detectors find on a page: findings of detectors whose cue it has.
LEMMA HeuristicIs ==
    ASSUME NEW reg, Indexed(reg), NEW page
    PROVE  /\ Findings(Heuristic(reg, page))
           /\ \A d \in DOMAIN Heuristic(reg, page) :
                /\ d \in Detectors({}) \cup Detectors({"DEC-1.4"}) /\ d.cue \in page.cues
                /\ Heuristic(reg, page)[d].rule = d.rule /\ Heuristic(reg, page)[d].quote = d.quote
<1> DEFINE ids == DOMAIN reg.byId
           vs == Heuristic(reg, page)
           cited == {d.rule : d \in Detectors(ids)}
           rule == [r \in cited |-> RuleIn(reg, r)]
           fires(d) == d.cue \in page.cues /\ (d.always \/ rule[d.rule].from # None)
           finding(d) ==
             [rule |-> d.rule, domain |-> d.domain, confidence |-> d.confidence, quote |-> d.quote,
              from |-> IF d.always THEN "fixed" ELSE rule[d.rule].from,
              severity |-> IF d.severity > 0 THEN d.severity
                           ELSE IF rule[d.rule].from = None THEN d.otherwise
                           ELSE rule[d.rule].severity]
           D == {x \in Detectors(ids) : fires(x)}
<1>1. vs = [d \in D |-> finding(d)]
  BY DEF Heuristic, HeuristicFindings
<1>2. \A d \in Detectors(ids) : rule[d.rule].severity \in Nat \ {0}
  BY RuleInIs
<1>3. \A d \in D : d \in Detectors(ids) /\ d.cue \in page.cues /\ (d.always \/ rule[d.rule].from # None)
  OBVIOUS
<1>4. IsFiniteSet(D)
  <2>1. D \subseteq Detectors(ids)
    OBVIOUS
  <2> HIDE DEF D, ids
  <2> QED BY <2>1, FS_Subset, DetectorsFinite
<1>5. \A d \in D : /\ vs[d].rule = d.rule /\ vs[d].quote = d.quote /\ vs[d].confidence = d.confidence
                   /\ vs[d].severity = IF d.severity > 0 THEN d.severity
                                       ELSE IF rule[d.rule].from = None THEN d.otherwise
                                       ELSE rule[d.rule].severity
  <2> HIDE DEF D, rule, vs
  <2> QED BY <1>1
<1>6. DOMAIN vs = D
  <2> HIDE DEF D, finding, vs
  <2> QED BY <1>1
<1> HIDE DEF vs, D, rule, ids
<1>7. \A d \in D : SoundDetector(d)
  BY <1>3, DetectorsSound
<1>8. \A d \in D : vs[d].severity \in Nat \ {0} /\ vs[d].confidence \in Nat
  <2> SUFFICES ASSUME NEW d \in D PROVE vs[d].severity \in Nat \ {0} /\ vs[d].confidence \in Nat
    OBVIOUS
  <2>1. /\ d.confidence \in Nat \ {0} /\ d.severity \in Nat /\ d.otherwise \in Nat
        /\ d.always => d.severity # 0 \/ d.otherwise # 0
    BY <1>7 DEF SoundDetector
  <2>2. rule[d.rule].severity \in Nat \ {0} /\ (d.always \/ rule[d.rule].from # None)
    BY <1>2, <1>3
  <2> QED BY <1>5, <2>1, <2>2
<1>9. Findings(vs)
  BY <1>4, <1>6, <1>8 DEF Findings
<1>10. \A d \in DOMAIN vs : /\ d \in Detectors({}) \cup Detectors({"DEC-1.4"}) /\ d.cue \in page.cues
                            /\ vs[d].rule = d.rule /\ vs[d].quote = d.quote
  BY <1>3, <1>5, <1>6, KnownDetectors
<1> QED BY <1>9, <1>10 DEF vs

\* An answer of a specialist, parsed: its severity is one of the five too.
LEMMA ParsedIs ==
    ASSUME NEW reg, Indexed(reg), NEW domain, NEW f, f.severity \in Given, f.confidence \in Confidences
    PROVE  Parsed(reg, domain, f).severity \in Nat \ {0} /\ Parsed(reg, domain, f).confidence \in Nat
<1> DEFINE s == RuleIn(reg, f.rule).severity
           given == IF f.severity = 0 THEN s ELSE f.severity
<1>1. s \in 1..5
  BY RuleInIs
<1>2. given \in Int
  <2>1. Given \subseteq Int
    BY EvaluationAssumption
  <2>2. f.severity \in Int
    BY <2>1
  <2> HIDE DEF s
  <2> QED BY <1>1, <2>2
<1>3. /\ Parsed(reg, domain, f).severity = IF given < 1 THEN 1 ELSE IF given > 5 THEN 5 ELSE given
      /\ Parsed(reg, domain, f).confidence = f.confidence
  BY DEF Parsed
<1>4. f.confidence \in Nat
  <2> HIDE DEF s, given
  <2>1. Confidences \subseteq 0..100
    BY EvaluationAssumption
  <2>2. f.confidence \in 0..100
    BY <2>1
  <2> QED BY <2>2
<1> HIDE DEF given
<1> QED BY <1>2, <1>3, <1>4

\* Findings merged with finitely many new ones.
LEMMA MergedIs ==
    ASSUME NEW found, Findings(found), NEW m \in Nat, NEW new, DOMAIN new = 1..m,
           \A n \in 1..m : new[n].severity \in Nat \ {0} /\ new[n].confidence \in Nat
    PROVE  Findings(Merged(found, new))
<1> DEFINE kept == {n \in DOMAIN new : /\ \A x \in DOMAIN found : ~SameCitation(found[x], new[n])
                                       /\ \A l \in 1..(n - 1) : ~SameCitation(new[l], new[n])}
           K == {[answer |-> n] : n \in kept}
           vs == Merged(found, new)
<1>1. vs = [x \in DOMAIN found \cup K |-> IF x \in DOMAIN found THEN found[x] ELSE new[x.answer]]
  BY DEF Merged
<1>2. kept \subseteq 1..m
  OBVIOUS
<1> HIDE DEF kept, vs
<1>3. IsFiniteSet(K)
  <2>1. IsFiniteSet(1..m)
    BY FS_Interval, 1 \in Int
  <2>2. IsFiniteSet(kept)
    BY <1>2, <2>1, FS_Subset
  <2> DEFINE f == [n \in kept |-> [answer |-> n]]
  <2>3. f \in Surjection(kept, K)
    BY DEF Surjection
  <2> HIDE DEF f, K
  <2> QED BY <2>2, <2>3, FS_Surjection
<1>4. IsFiniteSet(DOMAIN found \cup K)
  <2> HIDE DEF K
  <2> QED BY <1>3, FS_Union DEF Findings
<1>5. DOMAIN vs = DOMAIN found \cup K
  <2> HIDE DEF K
  <2> QED BY <1>1
<1>6. ASSUME NEW x \in DOMAIN vs PROVE vs[x].severity \in Nat \ {0} /\ vs[x].confidence \in Nat
  <2>1. CASE x \in DOMAIN found
    <3>1. vs[x] = found[x]
      BY <1>1, <2>1
    <3> QED BY <2>1, <3>1 DEF Findings
  <2>2. CASE x \notin DOMAIN found
    <3>1. PICK n \in 1..m : x = [answer |-> n]
      BY <1>2, <1>5, <1>6, <2>2
    <3>2. vs[x] = new[n]
      BY <1>1, <1>5, <1>6, <2>2, <3>1
    <3> QED BY <3>2
  <2> QED BY <2>1, <2>2
<1> QED BY <1>4, <1>5, <1>6 DEF Findings, vs

-----------------------------------------------------------------------------
\* What OfflineIsHeuristic says of a report.
OfflineReport(r) ==
    r.method = "offline" =>
      /\ r.confidence <= Ceiling
      /\ r.satire => r.page.satire
      /\ \A v \in Range(r.violations) :
           \E d \in Detectors({}) \cup Detectors({"DEC-1.4"}) :
             d.cue \in r.page.cues /\ d.rule = v.rule /\ d.quote = v.quote

\* Catalogs under their own ids.
Catalogued(catalogs) == \A i \in DOMAIN catalogs : catalogs[i] \in Contents /\ Book[catalogs[i]].id = i

\* A report names the catalogs it pinned and holds the parts they had.
ReportOK(r) ==
    /\ Catalogued(r.pinned) /\ r.parts = GranularClusters(r.pinned)
    /\ GroundedReport(r)
    /\ OfflineReport(r)

Asked(e) == Catalogued(e.pinned) /\ e.parts = GranularClusters(e.pinned)
Fields == {"at", "page", "pinned", "parts", "found", "domains", "satire"}

EvInv ==
    \/ ev = Idle
    \/ ev.at \in {"budget", "satire", "swarm"} /\ Fields \subseteq DOMAIN ev /\ Asked(ev) /\ Findings(ev.found)
    \/ ev.at = "store" /\ ReportOK(ev.report)

AuditInv == audit = NoAudit \/ ReportOK(audit)
EvaluationInv == IndexInv /\ EvInv /\ AuditInv

-----------------------------------------------------------------------------
\* An offline report on the detectors' findings.
LEMMA OfflineReportIs ==
    ASSUME NEW e, NEW reg, Indexed(reg), Asked(e)
    PROVE  ReportOK(Report("offline", e, Heuristic(reg, e.page), e.page.satire))
<1> DEFINE vs == Heuristic(reg, e.page)
           r == Report("offline", e, vs, e.page.satire)
<1>1. /\ r.satire = SatireStands(vs, e.page, e.page.satire, Defamatory)
      /\ r.violations = vs /\ r.page = e.page /\ r.pinned = e.pinned /\ r.parts = e.parts
      /\ r.confidence = IF AggregateConfidence(vs, e.page.text) > Ceiling
                        THEN Ceiling ELSE AggregateConfidence(vs, e.page.text)
  BY AssessmentIs
<1>2. Findings(vs) /\ \A d \in DOMAIN vs : /\ d \in Detectors({}) \cup Detectors({"DEC-1.4"})
                                           /\ d.cue \in e.page.cues
                                           /\ vs[d].rule = d.rule /\ vs[d].quote = d.quote
  BY HeuristicIs
<1>3. AggregateConfidence(vs, e.page.text) \in Nat
  BY <1>2, ConfidenceIs
<1>4. GroundedReport(r)
  BY <1>2, ReportsGrounded
<1> HIDE DEF vs, r
<1>5. r.confidence <= Ceiling
  BY <1>1, <1>3, EvaluationAssumption
<1>6. r.satire => r.page.satire
  BY <1>1 DEF SatireStands
<1>7. \A v \in Range(r.violations) :
        \E d \in Detectors({}) \cup Detectors({"DEC-1.4"}) :
          d.cue \in r.page.cues /\ d.rule = v.rule /\ d.quote = v.quote
  <2> SUFFICES ASSUME NEW v \in Range(vs)
               PROVE \E d \in Detectors({}) \cup Detectors({"DEC-1.4"}) :
                       d.cue \in e.page.cues /\ d.rule = v.rule /\ d.quote = v.quote
    BY <1>1
  <2>1. PICK d \in DOMAIN vs : v = vs[d]
    BY DEF Range
  <2> QED BY <1>2, <2>1
<1>8. OfflineReport(r)
  BY <1>5, <1>6, <1>7 DEF OfflineReport
<1>9. ReportOK(r)
  BY <1>1, <1>4, <1>8 DEF ReportOK, Asked
<1> QED BY <1>9 DEF r, vs

\* A report on what the model said.
LEMMA ModelReportIs ==
    ASSUME NEW e, Asked(e), NEW vs, Findings(vs), NEW satire
    PROVE  ReportOK(Report("llm", e, vs, satire))
<1> DEFINE r == Report("llm", e, vs, satire)
<1>1. r.method = "llm" /\ r.pinned = e.pinned /\ r.parts = e.parts
  BY AssessmentIs
<1>2. GroundedReport(r)
  BY ReportsGrounded
<1> HIDE DEF r
<1>3. ReportOK(r)
  BY <1>1, <1>2 DEF ReportOK, OfflineReport, Asked
<1> QED BY <1>3 DEF r

\* What is to be stored.
LEMMA StoringIs == ASSUME NEW r PROVE Storing(r).at = "store" /\ Storing(r).report = r
BY DEF Storing

\* An evaluation that falls back to the detectors has a report in order.
LEMMA OfflineOK ==
    ASSUME NEW e, NEW reg, Indexed(reg), Asked(e), ev' = Offline(e, reg) PROVE EvInv'
<1>1. PICK r : r = Report("offline", e, Heuristic(reg, e.page), e.page.satire)
  OBVIOUS
<1>2. ReportOK(r)
  BY <1>1, OfflineReportIs
<1>3. ev' = Storing(r)
  BY <1>1 DEF Offline
<1>4. ev'.at = "store" /\ ev'.report = r
  BY <1>3, StoringIs
<1>5. ReportOK(ev'.report)
  BY <1>2, <1>4
<1> QED BY <1>4, <1>5 DEF EvInv

\* Every step keeps the evaluation in progress in order.
LEMMA EvKept ==
    ASSUME IndexInv, EvInv, [Next]_vars PROVE EvInv'
<1>0. ev = Idle => ev.at = "idle"
  BY DEF Idle
<1>L. Indexed(Lazy.registry) /\ Catalogued(Lazy.registry.catalogs)
  BY LazyIndexes DEF IndexInv, Indexed, Catalogued
<1>1. CASE UNCHANGED ev
  BY <1>1 DEF EvInv, Asked
<1>2. CASE ev' = Idle
  BY <1>2 DEF EvInv
<1>3. ASSUME NEW page, Begin(page) PROVE EvInv'
  <2> DEFINE catalogs == Lazy.registry.catalogs
             begun == [at |-> "budget", page |-> page, pinned |-> catalogs,
                       parts |-> GranularClusters(catalogs), found |-> Nothing, domains |-> Nothing,
                       satire |-> FALSE]
  <2>1. ev' = Idle \/ ev' = begun \/ ev' = Offline(begun, Lazy.registry)
    BY <1>3 DEF Begin
  <2>2. /\ begun.at = "budget" /\ Fields \subseteq DOMAIN begun /\ begun.found = Nothing
        /\ Asked(begun)
    BY <1>L DEF Asked, Fields
  <2>3. Findings(Nothing)
    BY FS_EmptySet DEF Findings, Nothing
  <2> HIDE DEF begun
  <2>4. CASE ev' = begun
    <3>1. ev'.at = "budget" /\ Fields \subseteq DOMAIN ev' /\ Findings(ev'.found) /\ Asked(ev')
      BY <2>2, <2>3, <2>4
    <3> QED BY <3>1 DEF EvInv, Asked
  <2> QED BY <1>2, <1>L, <2>1, <2>2, <2>4, OfflineOK
<1>4. CASE BudgetAnswers
  <2>1. Fields \subseteq DOMAIN ev /\ Asked(ev)
    BY <1>0, <1>4 DEF EvInv, BudgetAnswers
  <2>2. CASE ev' = Override(ev, [at |-> "satire", found |-> Heuristic(Lazy.registry, ev.page)])
    <3> DEFINE g == [at |-> "satire", found |-> Heuristic(Lazy.registry, ev.page)]
    <3>1. DOMAIN g = {"at", "found"} /\ g.at = "satire" /\ g.found = Heuristic(Lazy.registry, ev.page)
      OBVIOUS
    <3>2. ev' = Override(ev, g)
      BY <2>2
    <3> HIDE DEF g
    <3>3. /\ DOMAIN ev \subseteq DOMAIN ev' /\ ev'.at = "satire" /\ ev'.found = Heuristic(Lazy.registry, ev.page)
          /\ ev'.pinned = ev.pinned /\ ev'.parts = ev.parts
      BY <2>1, <3>1, <3>2 DEF Override, Fields
    <3>4. Findings(ev'.found)
      BY <1>L, <3>3, HeuristicIs
    <3>5. Asked(ev')
      BY <2>1, <3>3 DEF Asked
    <3> QED BY <2>1, <3>3, <3>4, <3>5 DEF EvInv, Asked
  <2> QED BY <1>2, <1>4, <1>L, <2>1, <2>2, OfflineOK DEF BudgetAnswers
<1>5. CASE Fallback
  <2>1. Asked(ev)
    BY <1>0, <1>5 DEF EvInv, Fallback
  <2> QED BY <1>2, <1>5, <1>L, <2>1, OfflineOK DEF Fallback
<1>6. CASE SatireAnswers
  <2>1. Fields \subseteq DOMAIN ev /\ Asked(ev) /\ Findings(ev.found)
    BY <1>0, <1>6 DEF EvInv, SatireAnswers
  <2>2. PICK verdict, domains :
          ev' = Override(ev, [at |-> "swarm", satire |-> verdict \/ ev.page.satire, domains |-> domains])
    BY <1>6 DEF SatireAnswers
  <2> DEFINE g == [at |-> "swarm", satire |-> verdict \/ ev.page.satire, domains |-> domains]
  <2>3. DOMAIN g = {"at", "satire", "domains"} /\ g.at = "swarm"
    OBVIOUS
  <2>4. ev' = Override(ev, g)
    BY <2>2
  <2> HIDE DEF g
  <2>5. /\ DOMAIN ev \subseteq DOMAIN ev' /\ ev'.at = "swarm" /\ ev'.found = ev.found
        /\ ev'.pinned = ev.pinned /\ ev'.parts = ev.parts
    BY <2>1, <2>3, <2>4 DEF Override, Fields
  <2>6. Findings(ev'.found) /\ Asked(ev')
    BY <2>1, <2>5 DEF Asked
  <2> QED BY <2>1, <2>5, <2>6 DEF EvInv, Asked
<1>7. CASE SwarmAnswers
  <2>1. Asked(ev) /\ Findings(ev.found)
    BY <1>0, <1>7 DEF EvInv, SwarmAnswers
  <2>0. PICK m \in 0..MaxFindings : \E in \in [1..m -> Answers] :
          ev' = Storing(Report("llm", ev, Merged(ev.found,
                  [n \in 1..m |-> Parsed(Lazy.registry, ev.domains[in[n].part], in[n])]), ev.satire))
    BY <1>7 DEF SwarmAnswers
  <2>2. PICK in \in [1..m -> Answers] :
          ev' = Storing(Report("llm", ev, Merged(ev.found,
                  [n \in 1..m |-> Parsed(Lazy.registry, ev.domains[in[n].part], in[n])]), ev.satire))
    BY <2>0
  <2> DEFINE new == [n \in 1..m |-> Parsed(Lazy.registry, ev.domains[in[n].part], in[n])]
  <2>3. m \in Nat
    BY EvaluationAssumption
  <2>4. \A n \in 1..m : in[n].severity \in Given /\ in[n].confidence \in Confidences
    BY DEF Answers
  <2>5. \A n \in 1..m : new[n].severity \in Nat \ {0} /\ new[n].confidence \in Nat
    BY <1>L, <2>4, ParsedIs
  <2>6. DOMAIN new = 1..m
    OBVIOUS
  <2>7. ev' = Storing(Report("llm", ev, Merged(ev.found, new), ev.satire))
    BY <2>2
  <2> HIDE DEF new
  <2>8. Findings(Merged(ev.found, new))
    BY <2>1, <2>3, <2>5, <2>6, MergedIs
  <2>9. ReportOK(Report("llm", ev, Merged(ev.found, new), ev.satire))
    BY <2>1, <2>8, ModelReportIs
  <2>10. PICK r : r = Report("llm", ev, Merged(ev.found, new), ev.satire)
    OBVIOUS
  <2>11. ev'.at = "store" /\ ev'.report = r /\ ReportOK(r)
    BY <2>7, <2>9, <2>10, StoringIs
  <2> QED BY <2>11 DEF EvInv
<1>8. CASE Store
  BY <1>2, <1>8 DEF Store
<1>9. CASE Lose
  BY <1>2, <1>9 DEF Lose
<1>10. CASE Reboot
  BY <1>2, <1>10 DEF Reboot
<1>11. CASE StandardsNext /\ UNCHANGED evaluationVars
  BY <1>1, <1>11 DEF evaluationVars
<1>12. CASE UNCHANGED vars
  BY <1>1, <1>12 DEF vars, evaluationVars
<1> QED
  BY <1>3, <1>4, <1>5, <1>6, <1>7, <1>8, <1>9, <1>10, <1>11, <1>12 DEF Next

\* Every step keeps the stored audit in order.
LEMMA AuditKept ==
    ASSUME EvInv, AuditInv, [Next]_vars PROVE AuditInv'
<1>1. CASE UNCHANGED audit
  BY <1>1 DEF AuditInv
<1>2. CASE Store
  <2>1. ReportOK(ev.report)
    BY <1>2 DEF Store, EvInv, Idle
  <2> QED BY <1>2, <2>1 DEF Store, AuditInv
<1>3. ASSUME NEW page, Begin(page) PROVE UNCHANGED audit
  BY <1>3 DEF Begin
<1> QED
  BY <1>1, <1>2, <1>3 DEF Next, vars, evaluationVars, BudgetAnswers, SatireAnswers, SwarmAnswers,
                          Fallback, Lose, Reboot

\* The invariant of the pipeline is inductive.
LEMMA EvaluationKept == EvaluationInv /\ [Next]_vars => EvaluationInv'
BY IndexKept, EvKept, AuditKept DEF EvaluationInv

\* It holds at the beginning.
LEMMA EvaluationBegins == Init => EvaluationInv
BY IndexBegins DEF Init, EvaluationInv, EvInv, AuditInv

(***************************************************************************)
(* The invariant of the pipeline: the registry is indexed, an evaluation in *)
(* progress has finitely many findings with a positive severity and some or *)
(* no confidence, and holds                                                *)
(* the parts of the catalogs it pinned, and the report to be stored and the *)
(* audit stored last are in order.                                         *)
(***************************************************************************)
THEOREM EvaluationAlwaysInv == Spec => []EvaluationInv
BY EvaluationBegins, EvaluationKept, PTL DEF Spec

(***************************************************************************)
(* An audit that says it was made offline holds what the detectors find on *)
(* the page and nothing a model said before it failed, for whatever pages, *)
(* catalogs and answers of the model.                                      *)
(***************************************************************************)
THEOREM OfflineAlwaysHeuristic == Spec => []OfflineIsHeuristic
<1>1. EvaluationInv => OfflineIsHeuristic
  BY DEF EvaluationInv, AuditInv, ReportOK, OfflineReport, OfflineIsHeuristic
<1> QED BY <1>1, EvaluationAlwaysInv, PTL

(***************************************************************************)
(* A band above CLEAN rests on a quotation found in the page and some      *)
(* confidence in it, and satire has no suspicion and hides no grounded     *)
(* deceptive pattern: the sum of the weights is nothing only where every   *)
(* grounded finding has no confidence.                                     *)
(***************************************************************************)
THEOREM VerdictAlwaysGrounded == Spec => []VerdictIsGrounded
<1>1. EvaluationInv => VerdictIsGrounded
  BY DEF EvaluationInv, AuditInv, ReportOK, GroundedReport, VerdictIsGrounded
<1> QED BY <1>1, EvaluationAlwaysInv, PTL

-----------------------------------------------------------------------------
\* Products with one factor in common are ordered as the others are.
LEMMA Monotone == ASSUME NEW a \in Nat, NEW b \in Nat, NEW m \in Nat, a <= b PROVE a * m <= b * m
<1>1. (b - a) * m \in Nat
  <2>1. b - a \in Nat
    OBVIOUS
  <2> QED BY <2>1
<1>2. b * m = a * m + (b - a) * m
  OBVIOUS
<1>3. a * m \in Nat /\ b * m \in Nat
  OBVIOUS
<1> QED BY <1>1, <1>2, <1>3

\* A position is in one part of MaxRules: there is one, and no two.
InPart(i, p) == (p - 1) * MaxRules < i /\ i <= p * MaxRules

\* No position is in two parts.
LEMMA OnePart ==
    ASSUME NEW i \in Nat, NEW p \in Nat \ {0}, NEW q \in Nat \ {0}, InPart(i, p), InPart(i, q)
    PROVE  p = q
<1>0. MaxRules \in Nat
  BY StandardsAssumption
<1>1. ASSUME NEW a \in Nat \ {0}, NEW b \in Nat \ {0}, InPart(i, a), InPart(i, b) PROVE ~(a < b)
  <2> SUFFICES ASSUME a < b PROVE FALSE
    OBVIOUS
  <2>1. a \in Nat /\ b - 1 \in Nat /\ a <= b - 1
    OBVIOUS
  <2>2. a * MaxRules <= (b - 1) * MaxRules
    BY <1>0, <2>1, Monotone
  <2>3. a * MaxRules \in Nat /\ (b - 1) * MaxRules \in Nat
    BY <1>0, <2>1
  <2>4. (b - 1) * MaxRules < i /\ i <= a * MaxRules
    BY <1>1 DEF InPart
  <2> QED BY <2>2, <2>3, <2>4
<1>2. ~(p < q) /\ ~(q < p)
  BY <1>1
<1> QED BY <1>2

\* Every position is in a part that begins no later than it.
LEMMA SomePart ==
    ASSUME NEW i \in Nat \ {0}
    PROVE  \E p \in 1..i : InPart(i, p)
<1>0. MaxRules \in Nat \ {0}
  BY StandardsAssumption
<1> DEFINE S == {q \in 1..i : (q - 1) * MaxRules < i}
<1>1. 1 \in S
  <2>1. (1 - 1) * MaxRules = 0
    BY <1>0
  <2> QED BY <2>1
<1>2. PICK p \in S : \A q \in S : p >= q
  <2>1. IsFiniteSet(1..i)
    BY FS_Interval, 1 \in Int
  <2>2. IsFiniteSet(S)
    <3>1. S \subseteq 1..i
      OBVIOUS
    <3> HIDE DEF S
    <3> QED BY <2>1, <3>1, FS_Subset
  <2>3. S \subseteq 1..i /\ 1..i \subseteq Int
    OBVIOUS
  <2> HIDE DEF S
  <2>4. S \in SUBSET Int /\ S # {}
    BY <1>1, <2>3
  <2> QED BY <2>2, <2>4, GreatestExists
<1>3. p \in 1..i /\ (p - 1) * MaxRules < i
  OBVIOUS
<1>4. i <= p * MaxRules
  <2> SUFFICES ASSUME ~(i <= p * MaxRules) PROVE FALSE
    OBVIOUS
  <2>0. p \in Nat /\ p * MaxRules \in Nat
    BY <1>0, <1>3
  <2>1. p * MaxRules < i
    BY <2>0
  <2>2. p * 1 <= p * MaxRules
    <3>1. 1 * p <= MaxRules * p
      BY <1>0, <2>0, Monotone
    <3> QED BY <1>0, <2>0, <3>1
  <2>3. p + 1 \in 1..i
    BY <2>0, <2>1, <2>2
  <2>4. ((p + 1) - 1) * MaxRules < i
    <3>1. (p + 1) - 1 = p
      BY <2>0
    <3> QED BY <2>1, <3>1
  <2>5. p + 1 \in S
    BY <2>3, <2>4
  <2> QED BY <1>2, <2>0, <2>5
<1> QED BY <1>3, <1>4 DEF InPart

\* Where the rules of a catalog are, and that no rule is in two places.
At(k, c, i, r) == /\ c \in DOMAIN Book[k].clusters /\ i \in DOMAIN Book[k].clusters[c].rules
                  /\ Book[k].clusters[c].rules[i] = r

\* The elements of a sequence.
LEMMA ElementOf == ASSUME NEW R, NEW s \in Seq(R) PROVE \A n \in DOMAIN s : s[n] \in R
  OBVIOUS

\* The positions of a cluster's rules begin at 1, and a catalog's rules are what is at them.
LEMMA RulesAre ==
    ASSUME NEW k \in Contents
    PROVE  /\ \A c \in DOMAIN Book[k].clusters :
                DOMAIN Book[k].clusters[c].rules \subseteq Nat \ {0}
           /\ \A c \in DOMAIN Book[k].clusters : \A i \in DOMAIN Book[k].clusters[c].rules :
                1..i \subseteq DOMAIN Book[k].clusters[c].rules
           /\ \A r : r \in Rules[k] <=> \E c, i : At(k, c, i, r)
<1>1. Book[k].clusters \in Seq([id : STRING, rules : Seq(STRING)])
  BY StandardsAssumption
<1> PICK cs : cs = Book[k].clusters
  OBVIOUS
<1>2. \A c \in DOMAIN cs : cs[c].rules \in Seq(STRING)
  <2>1. \A c \in DOMAIN cs : cs[c] \in [id : STRING, rules : Seq(STRING)]
    BY <1>1, ElementOf
  <2> QED BY <2>1
<1>3. \A c \in DOMAIN cs : /\ DOMAIN cs[c].rules \subseteq Nat \ {0}
                           /\ \A i \in DOMAIN cs[c].rules : 1..i \subseteq DOMAIN cs[c].rules
  BY <1>2
<1>4. \A r : r \in Rules[k] <=> \E c \in DOMAIN cs : \E i \in DOMAIN cs[c].rules : cs[c].rules[i] = r
  BY DEF Rules, Range
<1> QED BY <1>3, <1>4 DEF At

\* No rule is in two places.
LEMMA OnePlace ==
    ASSUME NEW k \in Contents, NEW c, NEW i, NEW d, NEW j, NEW r, At(k, c, i, r), At(k, d, j, r)
    PROVE  c = d /\ i = j
<1>1. \A c1, d1 \in DOMAIN Book[k].clusters :
        \A i1 \in DOMAIN Book[k].clusters[c1].rules, j1 \in DOMAIN Book[k].clusters[d1].rules :
          Book[k].clusters[c1].rules[i1] = Book[k].clusters[d1].rules[j1] => c1 = d1 /\ i1 = j1
  BY StandardsAssumption
<1> QED BY <1>1 DEF At

\* What a part of a content asks.
LEMMA PartIs ==
    ASSUME NEW k, NEW c, NEW p
    PROVE  /\ Part(k, c, p).content = k
           /\ \A r : r \in Part(k, c, p).rules <=>
                \E i \in DOMAIN Book[k].clusters[c].rules :
                  InPart(i, p) /\ Book[k].clusters[c].rules[i] = r
BY DEF Part, InPart

\* The parts of a content hold its rules, each in exactly one.
LEMMA PartsCover ==
    ASSUME NEW k \in Contents
    PROVE  /\ \A q \in PartsOf[k] : q.content = k /\ q.rules \subseteq Rules[k]
           /\ \A r \in Rules[k] : \E p \in PartsOf[k] :
                r \in p.rules /\ \A q \in PartsOf[k] : r \in q.rules => q = p
<1>1. \A q : q \in PartsOf[k] <=>
        \E c \in DOMAIN Book[k].clusters :
          \E p \in {1} \cup {n \in DOMAIN Book[k].clusters[c].rules :
                               (n - 1) * MaxRules + 1 \in DOMAIN Book[k].clusters[c].rules} :
            q = Part(k, c, p)
  BY DEF PartsOf, Parts
<1>2. \A q \in PartsOf[k] : \E c \in DOMAIN Book[k].clusters : \E p \in Nat \ {0} : q = Part(k, c, p)
  BY <1>1, RulesAre
<1>3. ASSUME NEW q \in PartsOf[k] PROVE q.content = k /\ q.rules \subseteq Rules[k]
  <2>1. PICK c \in DOMAIN Book[k].clusters, p \in Nat \ {0} : q = Part(k, c, p)
    BY <1>2
  <2>2. ASSUME NEW r \in q.rules PROVE r \in Rules[k]
    <3>1. PICK i \in DOMAIN Book[k].clusters[c].rules : Book[k].clusters[c].rules[i] = r
      BY <2>1, <2>2, PartIs
    <3>2. At(k, c, i, r)
      BY <3>1 DEF At
    <3> QED BY <3>2, RulesAre
  <2> QED BY <2>1, <2>2, PartIs
<1>4. ASSUME NEW r \in Rules[k]
      PROVE  \E p \in PartsOf[k] : r \in p.rules /\ \A q \in PartsOf[k] : r \in q.rules => q = p
  <2>1. PICK c, i : At(k, c, i, r)
    BY RulesAre
  <2>2. /\ c \in DOMAIN Book[k].clusters /\ i \in DOMAIN Book[k].clusters[c].rules
        /\ Book[k].clusters[c].rules[i] = r
    BY <2>1 DEF At
  <2>3. i \in Nat \ {0} /\ 1..i \subseteq DOMAIN Book[k].clusters[c].rules
    BY <2>2, RulesAre
  <2>4. PICK p \in 1..i : InPart(i, p)
    BY <2>3, SomePart
  <2>5. (p - 1) * MaxRules + 1 \in 1..i
    <3>1. MaxRules \in Nat /\ p - 1 \in Nat
      BY <2>3, StandardsAssumption
    <3>2. (p - 1) * MaxRules \in Nat
      BY <3>1
    <3> QED BY <2>3, <2>4, <3>2 DEF InPart
  <2>6. Part(k, c, p) \in PartsOf[k]
    <3>1. p \in DOMAIN Book[k].clusters[c].rules /\ (p - 1) * MaxRules + 1 \in DOMAIN Book[k].clusters[c].rules
      BY <2>3, <2>5
    <3> QED BY <1>1, <2>2, <3>1
  <2>7. r \in Part(k, c, p).rules
    BY <2>2, <2>4, PartIs
  <2>8. ASSUME NEW q \in PartsOf[k], r \in q.rules PROVE q = Part(k, c, p)
    <3>1. PICK d \in DOMAIN Book[k].clusters, n \in Nat \ {0} : q = Part(k, d, n)
      BY <1>2
    <3>2. PICK j \in DOMAIN Book[k].clusters[d].rules : InPart(j, n) /\ Book[k].clusters[d].rules[j] = r
      BY <2>8, <3>1, PartIs
    <3>3. At(k, d, j, r)
      BY <3>2 DEF At
    <3>4. d = c /\ j = i
      BY <2>1, <3>3, OnePlace
    <3>5. p \in Nat \ {0} /\ i \in Nat
      BY <2>3
    <3>6. n = p
      BY <2>4, <3>2, <3>4, <3>5, OnePart
    <3> QED BY <3>1, <3>4, <3>6
  <2> QED BY <2>6, <2>7, <2>8
<1> QED BY <1>3, <1>4

\* A part asks a rule of its own content.
LEMMA AskedByIs == ASSUME NEW p, NEW k, NEW r PROVE <<k, r>> \in AskedBy(p) <=> p.content = k /\ r \in p.rules
BY DEF AskedBy

\* The parts of an audit ask each rule of its catalogs in exactly one prompt, and no other.
LEMMA PromptsCover ==
    ASSUME NEW pinned, Catalogued(pinned)
    PROVE  /\ \A i \in DOMAIN pinned : \A r \in Rules[pinned[i]] :
                Cardinality({p \in GranularClusters(pinned) : <<pinned[i], r>> \in AskedBy(p)}) = 1
           /\ \A x : x \in UNION {AskedBy(p) : p \in GranularClusters(pinned)} <=>
                \E k \in Range(pinned) : \E r \in Rules[k] : x = <<k, r>>
<1>1. \A p : p \in GranularClusters(pinned) <=> \E k \in Range(pinned) : p \in PartsOf[k]
  BY DEF GranularClusters
<1>2. \A k \in Range(pinned) : k \in Contents
  BY DEF Range, Catalogued
<1>3. ASSUME NEW k \in Range(pinned), NEW r \in Rules[k]
      PROVE  \E p \in GranularClusters(pinned) :
               \A q \in GranularClusters(pinned) : <<k, r>> \in AskedBy(q) <=> q = p
  <2>1. PICK p \in PartsOf[k] : r \in p.rules /\ \A q \in PartsOf[k] : r \in q.rules => q = p
    BY <1>2, PartsCover
  <2>2. p \in GranularClusters(pinned) /\ p.content = k
    BY <1>1, <1>2, PartsCover
  <2>3. <<k, r>> \in AskedBy(p)
    BY <2>1, <2>2, AskedByIs
  <2>4. ASSUME NEW q \in GranularClusters(pinned), <<k, r>> \in AskedBy(q) PROVE q = p
    <3>1. q.content = k /\ r \in q.rules
      BY <2>4, AskedByIs
    <3>2. PICK l \in Range(pinned) : q \in PartsOf[l]
      BY <1>1
    <3>3. q.content = l
      BY <1>2, <3>2, PartsCover
    <3> QED BY <2>1, <3>1, <3>2, <3>3
  <2> QED BY <2>2, <2>3, <2>4
<1>4. ASSUME NEW i \in DOMAIN pinned, NEW r \in Rules[pinned[i]]
      PROVE  Cardinality({p \in GranularClusters(pinned) : <<pinned[i], r>> \in AskedBy(p)}) = 1
  <2>0. pinned[i] \in Range(pinned)
    BY DEF Range
  <2>1. PICK p \in GranularClusters(pinned) :
               \A q \in GranularClusters(pinned) : <<pinned[i], r>> \in AskedBy(q) <=> q = p
    BY <1>3, <2>0
  <2>2. {q \in GranularClusters(pinned) : <<pinned[i], r>> \in AskedBy(q)} = {p}
    BY <2>1
  <2> QED BY <2>2, FS_Singleton
<1>5. ASSUME NEW x PROVE x \in UNION {AskedBy(p) : p \in GranularClusters(pinned)} <=>
                \E k \in Range(pinned) : \E r \in Rules[k] : x = <<k, r>>
  <2>1. ASSUME NEW p \in GranularClusters(pinned), x \in AskedBy(p)
        PROVE  \E k \in Range(pinned) : \E r \in Rules[k] : x = <<k, r>>
    <3>1. PICK r \in p.rules : x = <<p.content, r>>
      BY <2>1 DEF AskedBy
    <3>2. PICK k \in Range(pinned) : p \in PartsOf[k]
      BY <1>1
    <3>3. p.content = k /\ r \in Rules[k]
      BY <1>2, <3>2, PartsCover
    <3> QED BY <3>1, <3>3
  <2>2. ASSUME NEW k \in Range(pinned), NEW r \in Rules[k], x = <<k, r>>
        PROVE  \E p \in GranularClusters(pinned) : x \in AskedBy(p)
    BY <1>3, <2>2
  <2> QED BY <2>1, <2>2
<1> QED BY <1>4, <1>5

\* A report whose parts are those of its catalogs is stale exactly where it should be.
LEMMA ExactlyStale == ASSUME IndexInv, AuditInv PROVE StaleExact
<1> DEFINE now == Lazy.registry.catalogs
           force == UNION {{<<k, r>> : r \in Rules[k]} : k \in Range(now)}
<1> SUFFICES ASSUME audit # NoAudit
             PROVE  /\ \A x \in force :
                         \/ x \in Deltas(now, audit.pinned)
                         \/ Cardinality({p \in audit.parts : x \in AskedBy(p)}) = 1
                    /\ IsStale(now, audit.pinned) \/ UNION {AskedBy(p) : p \in audit.parts} = force
  BY DEF StaleExact
<1>1. Catalogued(audit.pinned) /\ audit.parts = GranularClusters(audit.pinned)
  BY DEF AuditInv, ReportOK
<1>2. \A x : x \in force <=> \E k \in Range(now) : \E r \in Rules[k] : x = <<k, r>>
  <2> HIDE DEF now
  <2> QED OBVIOUS
<1> HIDE DEF now, force
<1>3. ASSUME NEW x \in force
      PROVE  \/ x \in Deltas(now, audit.pinned)
             \/ Cardinality({p \in audit.parts : x \in AskedBy(p)}) = 1
  <2>1. PICK i \in DOMAIN now : \E r \in Rules[now[i]] : x = <<now[i], r>>
    BY <1>2 DEF Range
  <2>2. PICK r \in Rules[now[i]] : x = <<now[i], r>>
    BY <2>1
  <2>3. CASE i \notin DOMAIN audit.pinned \/ audit.pinned[i] # now[i]
    BY <2>2, <2>3 DEF Deltas
  <2>4. CASE i \in DOMAIN audit.pinned /\ audit.pinned[i] = now[i]
    <3>1. Cardinality({p \in GranularClusters(audit.pinned) : <<audit.pinned[i], r>> \in AskedBy(p)}) = 1
      BY <1>1, <2>2, <2>4, PromptsCover
    <3> QED BY <1>1, <2>2, <2>4, <3>1
  <2> QED BY <2>3, <2>4
<1>4. IsStale(now, audit.pinned) \/ UNION {AskedBy(p) : p \in audit.parts} = force
  <2> SUFFICES ASSUME now = audit.pinned PROVE UNION {AskedBy(p) : p \in audit.parts} = force
    BY DEF IsStale, RootHash
  <2>1. \A x : x \in UNION {AskedBy(p) : p \in audit.parts} <=> x \in force
    BY <1>1, <1>2, PromptsCover
  <2> QED BY <2>1
<1> QED BY <1>3, <1>4

(***************************************************************************)
(* Staleness is exact: a rule in force is among the deltas or was in exactly *)
(* one prompt of the stored audit, and an audit that is not stale was asked *)
(* all rules in force; for whatever MaxRules, sizes of clusters and catalogs. *)
(***************************************************************************)
THEOREM StalenessAlwaysExact == Spec => []StaleExact
<1>1. EvaluationInv => StaleExact
  BY ExactlyStale DEF EvaluationInv
<1> QED BY <1>1, EvaluationAlwaysInv, PTL

-----------------------------------------------------------------------------
\* A sum of smaller terms is smaller.
LEMMA SumAtMost ==
    ASSUME NEW w, NEW v, NEW S, IsFiniteSet(S), \A x \in S : w[x] \in Nat /\ v[x] \in Nat /\ w[x] <= v[x]
    PROVE  SumOf(w, S) <= SumOf(v, S)
<1> DEFINE Good == {T \in SUBSET S : SumOf(w, T) \in Nat /\ SumOf(v, T) \in Nat /\ SumOf(w, T) <= SumOf(v, T)}
<1>1. {} \in Good
  <2>1. IsFiniteSet({})
    BY FS_EmptySet
  <2>2. SumOf(w, {}) = 0 /\ SumOf(v, {}) = 0
    BY <2>1, SumStep
  <2> QED BY <2>2
<1>2. ASSUME NEW T \in SUBSET S, T # {}, \A x \in T : T \ {x} \in Good PROVE T \in Good
  <2>1. IsFiniteSet(T)
    BY FS_Subset
  <2> PICK c : c = Chosen(T)
    OBVIOUS
  <2>2. c \in T /\ SumOf(w, T) = w[c] + SumOf(w, T \ {c}) /\ SumOf(v, T) = v[c] + SumOf(v, T \ {c})
    BY <1>2, <2>1, SumStep
  <2>3. SumOf(w, T \ {c}) \in Nat /\ SumOf(v, T \ {c}) \in Nat /\ SumOf(w, T \ {c}) <= SumOf(v, T \ {c})
    BY <1>2, <2>2
  <2>4. w[c] \in Nat /\ v[c] \in Nat /\ w[c] <= v[c]
    BY <2>2
  <2> HIDE DEF Good
  <2>5. SumOf(w, T) \in Nat /\ SumOf(v, T) \in Nat /\ SumOf(w, T) <= SumOf(v, T)
    BY <2>2, <2>3, <2>4
  <2> QED BY <2>5 DEF Good
<1> HIDE DEF Good
<1>3. \A T \in SUBSET S : T \in Good
  BY <1>1, <1>2, SubsetInduction
<1> QED BY <1>3 DEF Good

\* A total of a sample is a sum.
LEMMA TotalIsSum ==
    ASSUME NEW field, NEW reports
    PROVE  Total(field, reports) = SumOf([k \in DOMAIN reports |-> reports[k][field]], DOMAIN reports)
BY DEF Total, SumOf

\* What a report amounts to.
LEMMA ReportFacts ==
    ASSUME NEW r \in Reports
    PROVE  /\ r["score"] \in Nat /\ r["violations"] \in Nat
           /\ r["grounded"] \in Nat /\ r["grounded"] <= r["violations"]
<1>1. r.score \in 0..1000 /\ r.violations \in Nat /\ r.grounded \in 0..r.violations
  BY FeedQualityAssumption
<1> PICK v, g : v = r.violations /\ g = r.grounded
  OBVIOUS
<1>2. g \in Nat /\ g <= v
  BY <1>1
<1>3. r.score \in Nat
  BY <1>1
<1> QED BY <1>1, <1>2, <1>3

\* What a sample amounts to.
LEMMA TotalFacts ==
    ASSUME NEW reports \in Seq(Reports)
    PROVE  /\ Total("score", reports) \in Nat /\ Total("violations", reports) \in Nat
           /\ Total("grounded", reports) \in Nat /\ Total("grounded", reports) <= Total("violations", reports)
<1> PICK D : D = DOMAIN reports
  OBVIOUS
<1>1. IsFiniteSet(D)
  <2>1. Len(reports) \in Nat /\ D = 1..Len(reports)
    OBVIOUS
  <2> QED BY <2>1, FS_Interval
<1>2. \A k \in D : reports[k] \in Reports
  OBVIOUS
<1>3. \A k \in D : /\ reports[k]["score"] \in Nat /\ reports[k]["violations"] \in Nat
                   /\ reports[k]["grounded"] \in Nat /\ reports[k]["grounded"] <= reports[k]["violations"]
  BY <1>2, ReportFacts
<1> PICK s : s = [k \in D |-> reports[k]["score"]]
  OBVIOUS
<1> PICK v : v = [k \in D |-> reports[k]["violations"]]
  OBVIOUS
<1> PICK g : g = [k \in D |-> reports[k]["grounded"]]
  OBVIOUS
<1>4. Total("score", reports) = SumOf(s, D) /\ Total("violations", reports) = SumOf(v, D)
      /\ Total("grounded", reports) = SumOf(g, D)
  BY TotalIsSum
<1>5. \A k \in D : s[k] \in Nat /\ v[k] \in Nat /\ g[k] \in Nat /\ g[k] <= v[k]
  BY <1>3
<1>6. SumOf(s, D) \in Nat /\ SumOf(v, D) \in Nat /\ SumOf(g, D) \in Nat
  BY <1>1, <1>5, SumNat
<1>7. SumOf(g, D) <= SumOf(v, D)
  BY <1>1, <1>5, SumAtMost
<1> QED BY <1>4, <1>6, <1>7

\* A sample of one clean article.
Clean == <<[score |-> 0, violations |-> 0, grounded |-> 0]>>

LEMMA CleanFacts == Total("score", Clean) = 0 /\ Total("violations", Clean) = 0 /\ Len(Clean) = 1
<1>1. Len(Clean) = 1 /\ DOMAIN Clean = {1} /\ Clean[1].score = 0 /\ Clean[1].violations = 0
  BY DEF Clean
<1>2. IsFiniteSet({1})
  BY FS_Singleton
<1> PICK s : s = [k \in {1} |-> Clean[k]["score"]]
  OBVIOUS
<1> PICK v : v = [k \in {1} |-> Clean[k]["violations"]]
  OBVIOUS
<1>3. Total("score", Clean) = SumOf(s, {1}) /\ Total("violations", Clean) = SumOf(v, {1})
  BY <1>1, TotalIsSum
<1>4. \A x \in {1} : s[x] = 0 /\ v[x] = 0 /\ s[x] \in Nat /\ v[x] \in Nat
  BY <1>1
<1>5. SumOf(s, {1}) = 0 /\ SumOf(v, {1}) = 0
  BY <1>2, <1>4, SumNat
<1> QED BY <1>1, <1>3, <1>5

\* Products, their order and quotients.
LEMMA Product == ASSUME NEW a \in Nat, NEW b \in Nat PROVE a * b \in Nat
OBVIOUS

LEMMA Ordering == ASSUME NEW a \in Nat, NEW b \in Nat, NEW c \in Nat, a <= b PROVE a * c <= b * c
<1>1. \E d \in Nat : b = a + d
  <2>1. b - a \in Nat /\ b = a + (b - a)
    OBVIOUS
  <2> QED BY <2>1
<1> PICK d \in Nat : b = a + d
  BY <1>1
<1>2. b * c = a * c + d * c
  OBVIOUS
<1>3. a * c \in Nat /\ d * c \in Nat /\ b * c \in Nat
  BY Product
<1> QED BY <1>2, <1>3

LEMMA Cancel == ASSUME NEW a \in Int, NEW b \in Int, NEW p \in Nat \ {0}, a * p <= b * p PROVE a <= b
<1> SUFFICES ASSUME a > b PROVE FALSE
  OBVIOUS
<1> PICK d : d = a - b - 1
  OBVIOUS
<1>1. d \in Nat /\ a = b + d + 1
  OBVIOUS
<1>2. a * p = b * p + d * p + p
  BY <1>1
<1>3. d * p \in Nat /\ b * p \in Int
  BY <1>1, Product
<1> QED BY <1>2, <1>3

LEMMA Quotient ==
    ASSUME NEW a \in Int, NEW d \in Nat, d # 0, NEW k, k = a \div d
    PROVE  k \in Int /\ k * d <= a
OBVIOUS

LEMMA AtLeastQuotient == ASSUME NEW a \in Int, NEW q \in Int, q * 1200 <= a PROVE q <= a \div 1200
OBVIOUS

\* A rounded quotient does not depend on a factor of both.
LEMMA ScoreQuotient ==
    ASSUME NEW p \in Nat \ {0}, NEW A \in Int, NEW x \in Int, 2 * A + 600 * p <= x * p,
           NEW k, k = (2 * A + 600 * p) \div (1200 * p)
    PROVE  k <= x \div 1200
<1> PICK d : d = 1200 * p
  OBVIOUS
<1> PICK z : z = 2 * A + 600 * p
  OBVIOUS
<1>1. d \in Nat /\ d # 0 /\ z \in Int /\ k = z \div d
  OBVIOUS
<1>2. k \in Int /\ k * d <= z
  BY <1>1, Quotient
<1> PICK c : c = k * 1200
  OBVIOUS
<1>3. c \in Int /\ c * p = k * d
  BY <1>2
<1>4. c * p <= x * p
  <2>1. c * p \in Int /\ x * p \in Int /\ z \in Int
    BY <1>1, <1>3
  <2> QED BY <1>2, <1>3, <2>1
<1>5. c <= x
  BY <1>3, <1>4, Cancel
<1> QED BY <1>2, <1>5, AtLeastQuotient

\* The score of n reports by their sums.
Weighed(n, S, g1, g2, e, f) ==
    Nearest(6 * (35 * (1000 * n - S) * g2 + 25 * 1000 * g1 * n + 20 * e * n * g2) + 20 * f * n * g2, 600 * n * g2)

\* The arithmetic of the score: of n reports with the given sums, against that of a clean one.
LEMMA ScoreArithmetic ==
    ASSUME NEW n \in Nat \ {0}, NEW S \in Nat, NEW g1 \in Nat, NEW g2 \in Nat \ {0}, g1 <= g2,
           NEW e \in Nat, NEW f \in Nat
    PROVE  Weighed(n, S, g1, g2, e, f) <= Weighed(1, 0, 1, 1, e, f)
<1> PICK p : p = n * g2
  OBVIOUS
<1> PICK q : q = S * g2
  OBVIOUS
<1> PICK h : h = g1 * n
  OBVIOUS
<1> PICK u : u = e * p
  OBVIOUS
<1> PICK v : v = f * p
  OBVIOUS
<1>1. p \in Nat \ {0} /\ q \in Nat /\ h \in Nat
  <2>1. p \in Nat /\ q \in Nat /\ h \in Nat
    BY Product
  <2>2. p # 0
    OBVIOUS
  <2> QED BY <2>1, <2>2
<1>2. u \in Nat /\ v \in Nat
  BY <1>1, Product
<1>3. h <= p
  <2>1. g1 * n <= g2 * n
    BY Ordering
  <2>2. g2 * n = n * g2
    OBVIOUS
  <2> QED BY <2>1, <2>2
<1> PICK A : A = 6 * (35 * (1000 * n - S) * g2 + 25 * 1000 * g1 * n + 20 * e * n * g2) + 20 * f * n * g2
  OBVIOUS
<1>4. A = 6 * (35000 * p - 35 * q + 25000 * h + 20 * u) + 20 * v
  <2>1. 35 * (1000 * n - S) * g2 = 35000 * p - 35 * q
    OBVIOUS
  <2>2. 25 * 1000 * g1 * n = 25000 * h
    OBVIOUS
  <2>3. 20 * e * n * g2 = 20 * u
    OBVIOUS
  <2>4. 20 * f * n * g2 = 20 * v
    OBVIOUS
  <2> QED BY <2>1, <2>2, <2>3, <2>4
<1> PICK x : x = 2 * (6 * (60000 + 20 * e) + 20 * f) + 600
  OBVIOUS
<1>5. x \in Nat /\ x * p = 2 * (6 * (60000 * p + 20 * u) + 20 * v) + 600 * p
  OBVIOUS
<1>6. A \in Int /\ 2 * A + 600 * p <= x * p
  BY <1>1, <1>2, <1>3, <1>4, <1>5
<1> PICK k : k = (2 * A + 600 * p) \div (1200 * p)
  OBVIOUS
<1>11. k <= x \div 1200
  BY <1>1, <1>5, <1>6, ScoreQuotient
<1>12. Nearest(A, 600 * n * g2) = k
  <2>1. 600 * n * g2 = 600 * p /\ 2 * (600 * n * g2) = 1200 * p
    BY <1>1
  <2> QED BY <2>1 DEF Nearest
<1>13. Nearest(6 * (35 * (1000 * 1 - 0) * 1 + 25 * 1000 * 1 * 1 + 20 * e * 1 * 1) + 20 * f * 1 * 1,
               600 * 1 * 1) = x \div 1200
  <2>1. 2 * (6 * (35 * (1000 * 1 - 0) * 1 + 25 * 1000 * 1 * 1 + 20 * e * 1 * 1) + 20 * f * 1 * 1) + 600 * 1 * 1 = x
    OBVIOUS
  <2>2. 2 * (600 * 1 * 1) = 1200
    OBVIOUS
  <2> QED BY <2>1, <2>2 DEF Nearest
<1> QED BY <1>11, <1>12, <1>13 DEF Weighed

\* No sample is scored higher than a clean one.
LEMMA CleanScoresMost ==
    ASSUME NEW reports \in Seq(Reports), reports # <<>>, NEW e \in Entropies, NEW a \in Ages
    PROVE  FeedScore(reports, e, a) <= FeedScore(Clean, e, a)
<1> PICK n : n = Len(reports)
  OBVIOUS
<1> PICK S : S = SuspicionSum(reports)
  OBVIOUS
<1> PICK g : g = Grounding(reports)
  OBVIOUS
<1> PICK f : f = Freshness(a)
  OBVIOUS
<1>1. n \in Nat \ {0} /\ n # 0
  OBVIOUS
<1>2. S \in Nat
  BY TotalFacts DEF SuspicionSum
<1>3. g[1] \in Nat /\ g[2] \in Nat \ {0} /\ g[1] <= g[2]
  BY TotalFacts DEF Grounding
<1>4. e \in Nat /\ f \in Nat
  <2>1. e \in 0..1000 /\ (a # Undated => a \in Nat)
    BY FeedQualityAssumption
  <2>2. f \in Nat
    BY <2>1 DEF Freshness, Clamped
  <2> QED BY <2>1, <2>2
<1>5. FeedScore(reports, e, a) = Weighed(n, S, g[1], g[2], e, f)
  BY <1>1 DEF FeedScore, Weighed
<1>6. FeedScore(Clean, e, a) = Weighed(1, 0, 1, 1, e, f)
  <2>1. SuspicionSum(Clean) = 0 /\ Grounding(Clean) = <<1, 1>> /\ Len(Clean) = 1
    BY CleanFacts DEF SuspicionSum, Grounding
  <2> PICK c : c = Grounding(Clean)
    OBVIOUS
  <2>2. c[1] = 1 /\ c[2] = 1
    BY <2>1
  <2> HIDE DEF Clean
  <2> QED BY <2>1, <2>2 DEF FeedScore, Weighed
<1> PICK g1 : g1 = g[1]
  OBVIOUS
<1> PICK g2 : g2 = g[2]
  OBVIOUS
<1>7. g1 \in Nat /\ g2 \in Nat \ {0} /\ g1 <= g2
  BY <1>3
<1>8. Weighed(n, S, g1, g2, e, f) <= Weighed(1, 0, 1, 1, e, f)
  BY <1>1, <1>2, <1>4, <1>7, ScoreArithmetic
<1> QED BY <1>5, <1>6, <1>8

\* A judgement is that of the sample.
QualityInv ==
    /\ sample \in Seq(Reports)
    /\ judged # NotJudged => \E e \in Entropies, a \in Ages : judged = Judged(sample, e, a)

\* Only a pre-flight and a discovery judge a sample, and they take it as it is.
LEMMA QualityInvariant == QualitySpec => []QualityInv
<1>1. QualityInit => QualityInv
  BY DEF QualityInit, QualityInv
<1>2. ASSUME QualityInv, [QualityNext]_qualityVars PROVE QualityInv'
  <2>1. CASE AuditArticle
    BY <1>2, <2>1 DEF AuditArticle, QualityInv
  <2>2. CASE Preflight
    BY <1>2, <2>2 DEF Preflight, QualityInv
  <2>3. CASE DiscoverFeeds
    BY <1>2, <2>3 DEF DiscoverFeeds, QualityInv
  <2>4. CASE UNCHANGED qualityVars
    BY <1>2, <2>4 DEF qualityVars, QualityInv
  <2> QED BY <1>2, <2>1, <2>2, <2>3, <2>4 DEF QualityNext
<1> QED BY <1>1, <1>2, PTL DEF QualitySpec

\* Whatever was found in the articles of a feed, it is scored no higher than a feed with the same
\* words and age whose articles are clean (health.py:146-213).
THEOREM CleanAlwaysBest == QualitySpec => []CleanIsBest
<1>1. QualityInv => CleanIsBest
  <2> SUFFICES ASSUME QualityInv, judged # NotJudged, sample # <<>>
               PROVE  judged.score <= FeedScore(Clean, judged.entropy, judged.age)
    BY DEF CleanIsBest, Clean
  <2>1. PICK e \in Entropies, a \in Ages : judged = Judged(sample, e, a)
    BY DEF QualityInv
  <2>2. judged.score = FeedScore(sample, e, a) /\ judged.entropy = e /\ judged.age = a
    BY <2>1 DEF Judged
  <2>3. FeedScore(sample, e, a) <= FeedScore(Clean, e, a)
    BY CleanScoresMost DEF QualityInv
  <2> QED BY <2>2, <2>3
<1> QED BY <1>1, QualityInvariant, PTL
================================================================================
