-------------------------- MODULE Subscriptions_proof --------------------------
(***************************************************************************)
(* What is proved of sentinel feeds: that their number keeps to the        *)
(* ceiling, and that their items keep to their half of a clean budget.     *)
(*                                                                         *)
(* SentinelsBounded holds for any number of calls and any ceiling.         *)
(* A call that is past the test of the ceiling, and will make a sentinel   *)
(* of a row that was none when it looked, is under way.  The invariant     *)
(* counts the active sentinels and the calls under way together: the test  *)
(* lets a call in while there are fewer sentinels than the ceiling, every  *)
(* write makes one sentinel at most and ends what was under way, and what  *)
(* the add tool makes is counted by added.                                 *)
(***************************************************************************)
EXTENDS BoredomCycle, Subscriptions, FiniteSetTheorems, SequenceTheorems, WellFoundedInduction, TLAPS

Past == {"site", "create", "commit"}
Steps == Past \cup {"admit"}

\* A call past the test that will make a sentinel of a row.
IsUnderWay(c) == c.step \in Past /\ c.enable /\ ~c.was
UnderWay == {t \in Tasks : IsUnderWay(calls[t])}

\* The shapes of a call.  A row that was looked for and not found was no sentinel.
Found == [step : Steps, at : Nat, enable : BOOLEAN, target : Targets, key : Nat,
          was : BOOLEAN, flagged : BOOLEAN]
CallOK(c) ==
    \/ c = Free
    \/ c \in [step : {"find"}, at : Nat, enable : BOOLEAN, target : Targets]
    \/ c \in Found /\ (c.key = NoKey => ~c.was)

RowOK(r) == r \in [url : {r.url}, sentinel : BOOLEAN, active : BOOLEAN, items : BOOLEAN]

RowsOK ==
    /\ feeds = [k \in Keys |-> feeds[k]]
    /\ \A k \in Keys : RowOK(feeds[k])
    /\ IsFiniteSet(Keys) /\ Keys \subseteq Nat \ {0}
CallsOK ==
    /\ calls = [t \in Tasks |-> calls[t]]
    /\ \A t \in Tasks : CallOK(calls[t])
SitesOK == \A s \in DOMAIN sites : sites[s] \in BOOLEAN

TableOK == RowsOK /\ CallsOK /\ SitesOK /\ added \in Nat

Counted ==
    Cardinality(ActiveSentinels) + Cardinality(UnderWay) <= Ceiling + added + Cardinality(Tasks) - 1

TableInv == TableOK /\ Counted

-----------------------------------------------------------------------------
LEMMA ActiveFinite == ASSUME RowsOK PROVE IsFiniteSet(ActiveSentinels)
<1>1. ActiveSentinels \in SUBSET Keys
  BY DEF ActiveSentinels
<1> QED BY <1>1, FS_Subset DEF RowsOK

LEMMA Counts ==
    /\ IsFiniteSet(Tasks) /\ IsFiniteSet(UnderWay)
    /\ Cardinality(Tasks) \in Nat /\ Cardinality(Tasks) > 0
    /\ Cardinality(UnderWay) \in Nat /\ Cardinality(UnderWay) <= Cardinality(Tasks)
<1>1. IsFiniteSet(Tasks) /\ Tasks # {}
  BY SubscriptionsAssumption
<1>2. UnderWay \in SUBSET Tasks
  BY DEF UnderWay
<1> QED BY <1>1, <1>2, FS_Subset, FS_CardinalityType, FS_EmptySet

\* A set of tasks that loses one, or gains one.
LEMMA Fewer ==
    ASSUME NEW S, IsFiniteSet(S), NEW T \in SUBSET S
    PROVE  /\ IsFiniteSet(T) /\ Cardinality(T) \in Nat /\ Cardinality(S) \in Nat
           /\ Cardinality(T) <= Cardinality(S)
           /\ \A x \in S : x \notin T => Cardinality(T) + 1 <= Cardinality(S)
<1>1. IsFiniteSet(T) /\ Cardinality(T) \in Nat /\ Cardinality(S) \in Nat
      /\ Cardinality(T) <= Cardinality(S)
  BY FS_Subset, FS_CardinalityType
<1>2. ASSUME NEW x \in S, x \notin T
      PROVE  Cardinality(T) + 1 <= Cardinality(S)
  <2>1. Cardinality(T \cup {x}) = Cardinality(T) + 1
    BY <1>1, <1>2, FS_AddElement
  <2>2. T \cup {x} \in SUBSET S
    BY <1>2
  <2> QED BY <2>1, <2>2, FS_Subset
<1> QED BY <1>1, <1>2

LEMMA OneMore ==
    ASSUME NEW S, IsFiniteSet(S), NEW x, NEW T \in SUBSET (S \cup {x})
    PROVE  IsFiniteSet(T) /\ Cardinality(T) \in Nat /\ Cardinality(T) <= Cardinality(S) + 1
<1>1. IsFiniteSet(S \cup {x}) /\ Cardinality(S \cup {x}) \in Nat /\ Cardinality(S) \in Nat
      /\ Cardinality(S \cup {x}) <= Cardinality(S) + 1
  BY FS_AddElement, FS_CardinalityType
<1> QED BY <1>1, FS_Subset, FS_CardinalityType

-----------------------------------------------------------------------------
(***************************************************************************)
(* What a step does to the two sets, in one of four ways: neither grows;   *)
(* a sentinel is made by a call that was under way and no longer is; the   *)
(* add tool makes one; a call is let in below the ceiling.                 *)
(***************************************************************************)
LEMMA NeitherGrows ==
    ASSUME TableInv, TableOK', added' = added, ActiveSentinels' \subseteq ActiveSentinels,
           UnderWay' \subseteq UnderWay
    PROVE  Counted'
<1>1. IsFiniteSet(ActiveSentinels) /\ added \in Nat /\ Ceiling \in Nat
  BY SubscriptionsAssumption, ActiveFinite DEF TableInv, TableOK
<1>2. /\ Cardinality(ActiveSentinels') \in Nat /\ Cardinality(ActiveSentinels) \in Nat
      /\ Cardinality(ActiveSentinels') <= Cardinality(ActiveSentinels)
  BY <1>1, Fewer
<1>3. /\ Cardinality(UnderWay') \in Nat /\ Cardinality(UnderWay) \in Nat
      /\ Cardinality(UnderWay') <= Cardinality(UnderWay)
  BY Counts, Fewer
<1> QED BY <1>1, <1>2, <1>3, Counts DEF TableInv, Counted

LEMMA OneWritten ==
    ASSUME TableInv, TableOK', added' = added, NEW k, ActiveSentinels' \subseteq ActiveSentinels \cup {k},
           NEW t \in UnderWay, t \notin UnderWay', UnderWay' \subseteq UnderWay
    PROVE  Counted'
<1>1. IsFiniteSet(ActiveSentinels) /\ added \in Nat /\ Ceiling \in Nat
  BY SubscriptionsAssumption, ActiveFinite DEF TableInv, TableOK
<1>2. Cardinality(ActiveSentinels') \in Nat /\ Cardinality(ActiveSentinels) \in Nat
      /\ Cardinality(ActiveSentinels') <= Cardinality(ActiveSentinels) + 1
  BY <1>1, OneMore, FS_CardinalityType
<1>3. /\ Cardinality(UnderWay') \in Nat /\ Cardinality(UnderWay) \in Nat
      /\ Cardinality(UnderWay') + 1 <= Cardinality(UnderWay)
  BY Counts, Fewer
<1> QED BY <1>1, <1>2, <1>3, Counts DEF TableInv, Counted

LEMMA OneAdded ==
    ASSUME TableInv, TableOK', added' = added + 1, NEW k, ActiveSentinels' \subseteq ActiveSentinels \cup {k},
           UnderWay' \subseteq UnderWay
    PROVE  Counted'
<1>1. IsFiniteSet(ActiveSentinels) /\ added \in Nat /\ Ceiling \in Nat
  BY SubscriptionsAssumption, ActiveFinite DEF TableInv, TableOK
<1>2. Cardinality(ActiveSentinels') \in Nat /\ Cardinality(ActiveSentinels) \in Nat
      /\ Cardinality(ActiveSentinels') <= Cardinality(ActiveSentinels) + 1
  BY <1>1, OneMore, FS_CardinalityType
<1>3. /\ Cardinality(UnderWay') \in Nat /\ Cardinality(UnderWay) \in Nat
      /\ Cardinality(UnderWay') <= Cardinality(UnderWay)
  BY Counts, Fewer
<1> QED BY <1>1, <1>2, <1>3, Counts DEF TableInv, Counted

LEMMA OneLetIn ==
    ASSUME TableInv, TableOK', added' = added, ActiveSentinels' = ActiveSentinels,
           Cardinality(ActiveSentinels) < Ceiling
    PROVE  Counted'
<1>1. IsFiniteSet(ActiveSentinels) /\ added \in Nat /\ Ceiling \in Nat
  BY SubscriptionsAssumption, ActiveFinite DEF TableInv, TableOK
<1>2. Cardinality(ActiveSentinels) \in Nat
  BY <1>1, FS_CardinalityType
<1>3. UnderWay' \in SUBSET Tasks
  BY DEF UnderWay
<1>4. Cardinality(UnderWay') \in Nat /\ Cardinality(UnderWay') <= Cardinality(Tasks)
  BY <1>3, Counts, Fewer
<1> QED BY <1>1, <1>2, <1>4, Counts DEF Counted
-----------------------------------------------------------------------------
\* The greatest of the keys is one of them, so that the next key is none.
LEMMA Greatest ==
    ASSUME NEW S \in SUBSET Nat, IsFiniteSet(S), S # {}
    PROVE  Max(S) \in S /\ \A y \in S : Max(S) >= y
<1> DEFINE Above(x) == {y \in S : y > x}
           Aboves == {Above(x) : x \in S}
           Order == StrictSubsetOrdering(S)
<1>1. IsWellFoundedOn(Order, SUBSET S)
  BY FS_StrictSubsetOrderingWellFounded, FS_FiniteSubsetsOfFinite
<1>2. Aboves \subseteq SUBSET S /\ Aboves # {}
  OBVIOUS
<1>3. PICK A \in Aboves : \A B \in Aboves : ~ (<<B, A>> \in Order)
  <2> HIDE DEF Aboves, Order
  <2> QED BY <1>1, <1>2, WFMin
<1>4. PICK x \in S : A = Above(x)
  BY <1>3
<1>5. ASSUME NEW y \in S, y > x
      PROVE  FALSE
  <2>0. x \in Int /\ y \in Int /\ \A z \in S : z \in Int
    OBVIOUS
  <2>1. ASSUME NEW z \in S, z > y
        PROVE  z > x
    BY <1>5, <2>0, <2>1
  <2>a. Above(y) \subseteq Above(x)
    BY <2>1
  <2>2. y \in Above(x) /\ y \notin Above(y)
    BY <1>5, <2>0
  <2>3. <<Above(y), Above(x)>> \in Order
    BY <2>a, <2>2 DEF StrictSubsetOrdering
  <2> QED BY <1>3, <1>4, <2>3
<1>6. \A y \in S : x >= y
  BY <1>5
<1>7. \E z \in S : \A y \in S : z >= y
  BY <1>6
<1> QED BY <1>7 DEF Max

LEMMA NextKeyOK == ASSUME RowsOK PROVE NextKey \in Nat \ {0}
<1>1. CASE Keys = {}
  BY <1>1 DEF NextKey
<1>2. CASE Keys # {}
  <2>1. Max(Keys) \in Keys
    BY <1>2, Greatest DEF RowsOK
  <2> QED BY <1>2, <2>1 DEF NextKey, RowsOK
<1> QED BY <1>1, <1>2

-----------------------------------------------------------------------------
\* A task that goes to a call of one of the shapes.
LEMMA CallsKeep ==
    ASSUME CallsOK, NEW t \in Tasks, NEW c, CallOK(c), Goto(t, c)
    PROVE  /\ CallsOK'
           /\ ~IsUnderWay(c) => t \notin UnderWay' /\ UnderWay' \subseteq UnderWay
           /\ (IsUnderWay(c) => IsUnderWay(calls[t])) => UnderWay' \subseteq UnderWay
<1>1. calls' = [u \in Tasks |-> IF u = t THEN c ELSE calls[u]]
  BY DEF Goto, CallsOK
<1>2. \A u \in Tasks : calls'[u] = IF u = t THEN c ELSE calls[u]
  BY <1>1
<1>3. calls' = [u \in Tasks |-> calls'[u]]
  BY <1>1
<1>4. \A u \in Tasks : CallOK(calls'[u])
  BY <1>2 DEF CallsOK
<1>5. CallsOK'
  BY <1>3, <1>4 DEF CallsOK, CallOK, Found
<1>6. UnderWay' = {u \in Tasks : IsUnderWay(calls'[u])}
  BY DEF UnderWay, IsUnderWay
<1> QED BY <1>2, <1>5, <1>6 DEF UnderWay

LEMMA NextTargetOK ==
    ASSUME NEW t, calls[t].at \in Nat
    PROVE  CallOK(NextTarget(t)) /\ ~IsUnderWay(NextTarget(t))
<1>1. CASE t = Boot /\ calls[t].at < Len(EnvTargets)
  <2>1. calls[t].at + 1 \in 1..Len(EnvTargets)
    BY <1>1, SubscriptionsAssumption
  <2>2. EnvTargets[calls[t].at + 1] \in Targets
    BY <2>1, SubscriptionsAssumption
  <2>3. NextTarget(t) = [step |-> "find", at |-> calls[t].at + 1, enable |-> TRUE,
                         target |-> EnvTargets[calls[t].at + 1]]
    BY <1>1 DEF NextTarget
  <2> QED BY <2>2, <2>3 DEF CallOK, IsUnderWay, Past
<1>2. CASE ~(t = Boot /\ calls[t].at < Len(EnvTargets))
  <2>1. NextTarget(t) = Free
    BY <1>2 DEF NextTarget
  <2> QED BY <2>1 DEF CallOK, IsUnderWay, Past, Free
<1> QED BY <1>1, <1>2

\* A call that ends, or raises, is no longer under way.
LEMMA EndsKeep ==
    ASSUME CallsOK, NEW t \in Tasks, calls[t].at \in Nat, Goto(t, NextTarget(t))
    PROVE  CallsOK' /\ t \notin UnderWay' /\ UnderWay' \subseteq UnderWay
BY NextTargetOK, CallsKeep

\* A call that has looked for its row.
LEMMA FoundShape ==
    ASSUME CallsOK, NEW t \in Tasks, calls[t].step \in Steps
    PROVE  calls[t] \in Found /\ (calls[t].key = NoKey => ~calls[t].was) /\ calls[t].at \in Nat
<1>1. CallOK(calls[t])
  BY DEF CallsOK
<1>2. calls[t] # Free
  BY DEF Free, Steps, Past
<1>3. calls[t] \notin [step : {"find"}, at : Nat, enable : BOOLEAN, target : Targets]
  BY DEF Steps, Past
<1> QED BY <1>1, <1>2, <1>3 DEF CallOK, Found

\* The table as it was has the same active sentinels.
LEMMA SameRows ==
    ASSUME RowsOK, feeds' = feeds
    PROVE  RowsOK' /\ ActiveSentinels' = ActiveSentinels
BY DEF RowsOK, Keys, RowOK, ActiveSentinels

\* One row inserted, one row written.
LEMMA InsertedRow ==
    ASSUME RowsOK, NEW u \in Feeds, NEW sentinel \in BOOLEAN, feeds' = Inserted(u, sentinel)
    PROVE  /\ RowsOK'
           /\ ActiveSentinels' \subseteq ActiveSentinels \cup {NextKey}
           /\ ~sentinel => ActiveSentinels' \subseteq ActiveSentinels
<1>1. NextKey \in Nat \ {0}
  BY NextKeyOK
<1>2. feeds' = [k \in Keys \cup {NextKey} |-> IF k = NextKey THEN Row(u, sentinel) ELSE feeds[k]]
  BY DEF Inserted
<1>3. Keys' = Keys \cup {NextKey}
  BY <1>2 DEF Keys
<1>4. \A k \in Keys' : feeds'[k] = IF k = NextKey THEN Row(u, sentinel) ELSE feeds[k]
  BY <1>2, <1>3
<1>5. Row(u, sentinel) = [url |-> u, sentinel |-> sentinel, active |-> TRUE, items |-> FALSE]
  BY DEF Row
<1>6. \A k \in Keys' : RowOK(feeds'[k])
  <2>1. RowOK(Row(u, sentinel))
    BY <1>5 DEF RowOK
  <2>2. \A k \in Keys : RowOK(feeds[k])
    BY DEF RowsOK
  <2> QED BY <1>3, <1>4, <2>1, <2>2
<1>7. IsFiniteSet(Keys') /\ Keys' \subseteq Nat \ {0}
  BY <1>1, <1>3, FS_AddElement DEF RowsOK
<1>8. feeds' = [k \in Keys' |-> feeds'[k]]
  BY <1>2, <1>3
<1>9. RowsOK'
  BY <1>6, <1>7, <1>8 DEF RowsOK, RowOK
<1>10. ActiveSentinels' = {k \in Keys' : feeds'[k].sentinel /\ feeds'[k].active}
  BY DEF ActiveSentinels
<1> QED BY <1>3, <1>4, <1>5, <1>9, <1>10 DEF ActiveSentinels

LEMMA WrittenRow ==
    ASSUME RowsOK, NEW k \in Keys, NEW r, RowOK(r), feeds' = [feeds EXCEPT ![k] = r]
    PROVE  /\ RowsOK'
           /\ ActiveSentinels' \subseteq ActiveSentinels \cup {k}
           /\ (r.sentinel /\ r.active => feeds[k].sentinel /\ feeds[k].active)
                => ActiveSentinels' \subseteq ActiveSentinels
<1>1. Keys' = Keys
  BY DEF Keys, RowsOK
<1>2. \A j \in Keys : feeds'[j] = IF j = k THEN r ELSE feeds[j]
  BY DEF RowsOK
<1>3. feeds' = [j \in Keys' |-> feeds'[j]]
  BY <1>1 DEF RowsOK
<1>4. RowsOK'
  BY <1>1, <1>2, <1>3 DEF RowsOK, RowOK
<1>5. ActiveSentinels' = {j \in Keys' : feeds'[j].sentinel /\ feeds'[j].active}
  BY DEF ActiveSentinels
<1> QED BY <1>1, <1>2, <1>4, <1>5 DEF ActiveSentinels

\* The write of a call makes one sentinel, and only one that was under way makes any.
LEMMA WriteKeeps ==
    ASSUME RowsOK, NEW c \in Found, c.key = NoKey => ~c.was, ~WriteFails(c), Write(c)
    PROVE  /\ RowsOK'
           /\ \E k : ActiveSentinels' \subseteq ActiveSentinels \cup {k}
           /\ c.step \in Past /\ ~IsUnderWay(c) => ActiveSentinels' \subseteq ActiveSentinels
<1>0. /\ c.target.url \in Feeds /\ c.enable \in BOOLEAN /\ c.was \in BOOLEAN
  BY SubscriptionsAssumption DEF Found
<1>1. CASE feeds' = feeds
  BY <1>1, SameRows
<1>2. CASE c.key = NoKey /\ c.enable /\ feeds' # feeds
  <2>1. feeds' = Inserted(c.target.url, TRUE)
    BY <1>2 DEF Write
  <2>2. RowsOK' /\ ActiveSentinels' \subseteq ActiveSentinels \cup {NextKey}
    BY <1>0, <2>1, InsertedRow
  <2> QED BY <1>2, <2>2 DEF IsUnderWay
<1>3. CASE c.key # NoKey /\ feeds' # feeds
  <2>1. c.was # c.enable /\ c.key \in Keys
    BY <1>3 DEF Write, WriteFails
  <2> DEFINE r == [feeds[c.key] EXCEPT !.sentinel = c.enable, !.active = @ \/ c.enable]
  <2>2. feeds' = [[feeds EXCEPT ![c.key].sentinel = c.enable]
                     EXCEPT ![c.key].active = @ \/ c.enable]
    BY <1>3, <2>1 DEF Write
  <2>3. RowOK(feeds[c.key])
    BY <2>1 DEF RowsOK
  <2>4. feeds' = [feeds EXCEPT ![c.key] = r]
    BY <2>1, <2>2, <2>3 DEF RowsOK, RowOK
  <2>5. RowOK(r) /\ r.sentinel = c.enable
    BY <1>0, <2>3 DEF RowOK
  <2> HIDE DEF r
  <2>6. /\ RowsOK' /\ ActiveSentinels' \subseteq ActiveSentinels \cup {c.key}
        /\ ~c.enable => ActiveSentinels' \subseteq ActiveSentinels
    BY <2>1, <2>4, <2>5, WrittenRow
  <2>7. c.step \in Past /\ ~IsUnderWay(c) => ~c.enable
    BY <1>0, <2>1 DEF IsUnderWay
  <2> QED BY <2>6, <2>7
<1>4. c.key = NoKey /\ ~c.enable => feeds' = feeds
  BY DEF Write
<1> QED BY <1>1, <1>2, <1>3, <1>4

-----------------------------------------------------------------------------
(***************************************************************************)
(* One lemma per action.                                                   *)
(***************************************************************************)
LEMMA CallKeeps == ASSUME TableInv, NEW t \in Tasks, Call(t) PROVE TableInv'
<1>1. PICK g \in Targets, enable \in BOOLEAN :
        Goto(t, [step |-> "find", at |-> 0, enable |-> enable, target |-> g])
  BY DEF Call
<1> DEFINE c == [step |-> "find", at |-> 0, enable |-> enable, target |-> g]
<1>2. CallOK(c) /\ ~IsUnderWay(c)
  BY DEF CallOK, IsUnderWay, Past
<1> HIDE DEF c
<1>3. CallsOK' /\ UnderWay' \subseteq UnderWay
  BY <1>1, <1>2, CallsKeep DEF TableInv, TableOK, c
<1>4. feeds' = feeds /\ sites' = sites /\ added' = added
  BY DEF Call
<1>5. RowsOK' /\ ActiveSentinels' = ActiveSentinels
  BY <1>4, SameRows DEF TableInv, TableOK
<1>6. TableOK'
  BY <1>3, <1>4, <1>5 DEF TableInv, TableOK, SitesOK
<1> QED BY <1>3, <1>4, <1>5, <1>6, NeitherGrows DEF TableInv

LEMMA FindKeeps == ASSUME TableInv, NEW t \in Tasks, Find(t) PROVE TableInv'
<1>1. calls[t].step = "find" /\ feeds' = feeds /\ sites' = sites /\ added' = added
  BY DEF Find
<1>2. calls[t] \in [step : {"find"}, at : Nat, enable : BOOLEAN, target : Targets]
  <2>1. CallOK(calls[t])
    BY DEF TableInv, TableOK, CallsOK
  <2> QED BY <1>1, <2>1 DEF CallOK, Found, Free, Steps, Past
<1>3. CallsOK' /\ UnderWay' \subseteq UnderWay
  <2>1. CASE Goto(t, NextTarget(t))
    BY <1>2, <2>1, EndsKeep DEF TableInv, TableOK
  <2>2. ASSUME NEW k, k = NoKey \/ k \in Keys,
               Goto(t, [step |-> IF calls[t].enable THEN "admit" ELSE "site",
                        at |-> calls[t].at, enable |-> calls[t].enable, target |-> calls[t].target,
                        key |-> k, was |-> k # NoKey /\ feeds[k].sentinel, flagged |-> FALSE])
        PROVE  CallsOK' /\ UnderWay' \subseteq UnderWay
    <3> DEFINE was == k # NoKey /\ feeds[k].sentinel
               step == IF calls[t].enable THEN "admit" ELSE "site"
               c == [step |-> step, at |-> calls[t].at, enable |-> calls[t].enable,
                     target |-> calls[t].target, key |-> k, was |-> was, flagged |-> FALSE]
    <3>1. k \in Nat
      BY <2>2 DEF TableInv, TableOK, RowsOK, NoKey
    <3>2. was \in BOOLEAN /\ (k = NoKey => ~was)
      OBVIOUS
    <3>3. step \in Steps /\ (step \in Past => ~calls[t].enable)
      BY <1>2 DEF Steps, Past
    <3>4. Goto(t, c)
      BY <2>2
    <3> HIDE DEF was, step
    <3>5. CallOK(c) /\ ~IsUnderWay(c)
      BY <1>2, <3>1, <3>2, <3>3 DEF CallOK, Found, IsUnderWay
    <3> HIDE DEF c
    <3> QED BY <3>4, <3>5, CallsKeep DEF TableInv, TableOK
  <2> QED BY <2>1, <2>2 DEF Find, Raised
<1>4. RowsOK' /\ ActiveSentinels' = ActiveSentinels
  BY <1>1, SameRows DEF TableInv, TableOK
<1>5. TableOK'
  BY <1>1, <1>3, <1>4 DEF TableInv, TableOK, SitesOK
<1> QED BY <1>1, <1>3, <1>4, <1>5, NeitherGrows DEF TableInv

LEMMA AdmitKeeps == ASSUME TableInv, NEW t \in Tasks, Admit(t) PROVE TableInv'
<1>1. calls[t].step = "admit" /\ feeds' = feeds /\ sites' = sites /\ added' = added
  BY DEF Admit
<1>2. calls[t] \in Found /\ (calls[t].key = NoKey => ~calls[t].was) /\ calls[t].at \in Nat
  BY <1>1, FoundShape DEF TableInv, TableOK, Steps
<1>3. RowsOK' /\ ActiveSentinels' = ActiveSentinels
  BY <1>1, SameRows DEF TableInv, TableOK
<1>4. CASE Done(t)
  <2>1. CallsOK' /\ UnderWay' \subseteq UnderWay
    BY <1>2, <1>4, EndsKeep DEF TableInv, TableOK, Done
  <2>2. TableOK'
    BY <1>1, <1>3, <2>1 DEF TableInv, TableOK, SitesOK
  <2> QED BY <1>1, <1>3, <2>1, <2>2, NeitherGrows DEF TableInv
<1>5. CASE ~Done(t)
  <2> DEFINE c == [calls[t] EXCEPT !.step = "site"]
  <2>1. Goto(t, c) /\ (~(Cardinality(ActiveSentinels) >= Ceiling) \/ calls[t].was)
    BY <1>5 DEF Admit
  <2>2. CallOK(c) /\ (c.was = calls[t].was)
    BY <1>2 DEF CallOK, Found, Steps, Past
  <2> HIDE DEF c
  <2>3. CallsOK' /\ (~IsUnderWay(c) => UnderWay' \subseteq UnderWay)
    BY <2>1, <2>2, CallsKeep DEF TableInv, TableOK
  <2>4. TableOK'
    BY <1>1, <1>3, <2>3 DEF TableInv, TableOK, SitesOK
  <2>5. CASE calls[t].was
    BY <1>1, <1>3, <2>2, <2>3, <2>4, <2>5, NeitherGrows DEF TableInv, IsUnderWay
  <2>6. CASE ~(Cardinality(ActiveSentinels) >= Ceiling)
    <3>1. Cardinality(ActiveSentinels) \in Nat /\ Ceiling \in Nat
      BY ActiveFinite, FS_CardinalityType, SubscriptionsAssumption DEF TableInv, TableOK
    <3>2. Cardinality(ActiveSentinels) < Ceiling
      BY <2>6, <3>1
    <3> QED BY <1>1, <1>3, <2>4, <3>2, OneLetIn DEF TableInv
  <2> QED BY <2>1, <2>5, <2>6
<1> QED BY <1>4, <1>5

LEMMA SiteKeeps == ASSUME TableInv, NEW t \in Tasks, Site(t) PROVE TableInv'
<1>1. calls[t].step = "site" /\ feeds' = feeds /\ sites' = sites /\ added' = added
  BY DEF Site
<1>2. calls[t] \in Found /\ (calls[t].key = NoKey => ~calls[t].was)
  BY <1>1, FoundShape DEF TableInv, TableOK, Steps, Past
<1>3. RowsOK' /\ ActiveSentinels' = ActiveSentinels
  BY <1>1, SameRows DEF TableInv, TableOK
<1>4. CallsOK' /\ UnderWay' \subseteq UnderWay
  <2>1. ASSUME NEW flag \in BOOLEAN,
               Goto(t, [calls[t] EXCEPT !.step = "commit", !.flagged = flag])
        PROVE  CallsOK' /\ UnderWay' \subseteq UnderWay
    <3> DEFINE c == [calls[t] EXCEPT !.step = "commit", !.flagged = flag]
    <3>1. CallOK(c) /\ (IsUnderWay(c) => IsUnderWay(calls[t]))
      BY <1>1, <1>2 DEF CallOK, Found, Steps, Past, IsUnderWay
    <3>2. Goto(t, c)
      BY <2>1
    <3> HIDE DEF c
    <3> QED BY <3>1, <3>2, CallsKeep DEF TableInv, TableOK
  <2>2. ASSUME Goto(t, [calls[t] EXCEPT !.step = "create"])
        PROVE  CallsOK' /\ UnderWay' \subseteq UnderWay
    <3> DEFINE c == [calls[t] EXCEPT !.step = "create"]
    <3>1. CallOK(c) /\ (IsUnderWay(c) => IsUnderWay(calls[t]))
      BY <1>1, <1>2 DEF CallOK, Found, Steps, Past, IsUnderWay
    <3>2. Goto(t, c)
      BY <2>2
    <3> HIDE DEF c
    <3> QED BY <3>1, <3>2, CallsKeep DEF TableInv, TableOK
  <2> QED BY <2>1, <2>2 DEF Site, TableInv, TableOK, SitesOK
<1>5. TableOK'
  BY <1>1, <1>3, <1>4 DEF TableInv, TableOK, SitesOK
<1> QED BY <1>1, <1>3, <1>4, <1>5, NeitherGrows DEF TableInv

\* A call that writes, and is no longer under way.
LEMMA WritingKeeps ==
    ASSUME TableInv, NEW t \in Tasks, calls[t].step \in Past, ~WriteFails(calls[t]), Write(calls[t]),
           CallsOK', t \notin UnderWay', UnderWay' \subseteq UnderWay, SitesOK', added' = added
    PROVE  TableInv'
<1>1. calls[t] \in Found /\ (calls[t].key = NoKey => ~calls[t].was)
  BY FoundShape DEF TableInv, TableOK, Steps
<1>2. /\ RowsOK'
      /\ \E k : ActiveSentinels' \subseteq ActiveSentinels \cup {k}
      /\ ~IsUnderWay(calls[t]) => ActiveSentinels' \subseteq ActiveSentinels
  BY <1>1, WriteKeeps DEF TableInv, TableOK
<1>3. TableOK'
  BY <1>2 DEF TableInv, TableOK
<1>4. CASE IsUnderWay(calls[t])
  <2>1. t \in UnderWay
    BY <1>4 DEF UnderWay
  <2>2. PICK k : ActiveSentinels' \subseteq ActiveSentinels \cup {k}
    BY <1>2
  <2>3. Counted'
    BY <1>3, <2>1, <2>2, OneWritten
  <2> QED BY <1>3, <2>3 DEF TableInv
<1>5. CASE ~IsUnderWay(calls[t])
  BY <1>2, <1>3, <1>5, NeitherGrows DEF TableInv
<1> QED BY <1>4, <1>5

\* A call that raises without having written.
LEMMA RaisingKeeps ==
    ASSUME TableInv, NEW t \in Tasks, calls[t].step \in Steps, Goto(t, NextTarget(t)),
           feeds' = feeds, sites' = sites, added' = added
    PROVE  TableInv'
<1>1. calls[t].at \in Nat
  BY FoundShape DEF TableInv, TableOK
<1>2. CallsOK' /\ UnderWay' \subseteq UnderWay
  BY <1>1, EndsKeep DEF TableInv, TableOK
<1>3. RowsOK' /\ ActiveSentinels' = ActiveSentinels
  BY SameRows DEF TableInv, TableOK
<1>4. TableOK'
  BY <1>2, <1>3 DEF TableInv, TableOK, SitesOK
<1> QED BY <1>2, <1>3, <1>4, NeitherGrows DEF TableInv

LEMMA CreateKeeps == ASSUME TableInv, NEW t \in Tasks, Create(t) PROVE TableInv'
<1> DEFINE c == calls[t]
           key == IF c.key = NoKey /\ c.enable THEN NextKey ELSE c.key
<1>1. c.step = "create" /\ added' = added
  BY DEF Create
<1>2. c \in Found /\ (c.key = NoKey => ~c.was)
  BY <1>1, FoundShape DEF TableInv, TableOK, Steps, Past
<1>3. CASE WriteFails(c) \/ c.target.site \in DOMAIN sites
  <2>1. Goto(t, NextTarget(t)) /\ feeds' = feeds /\ sites' = sites
    BY <1>3 DEF Create, Raised
  <2> QED BY <1>1, <2>1, RaisingKeeps DEF Steps, Past
<1>4. CASE ~(WriteFails(c) \/ c.target.site \in DOMAIN sites)
  <2> DEFINE d == [c EXCEPT !.step = "commit", !.key = key, !.was = c.enable]
  <2>1. /\ Write(c) /\ ~WriteFails(c) /\ Goto(t, d)
        /\ sites' = [s \in DOMAIN sites \union {c.target.site} |->
                        IF s = c.target.site THEN FALSE ELSE sites[s]]
    BY <1>4 DEF Create
  <2>2. key \in Nat /\ (key = NoKey => ~c.enable)
    BY <1>2, NextKeyOK DEF Found, NoKey, TableInv, TableOK
  <2>3. SitesOK'
    BY <2>1 DEF TableInv, TableOK, SitesOK
  <2> HIDE DEF key
  <2>4. CallOK(d) /\ ~IsUnderWay(d)
    BY <1>2, <2>2 DEF CallOK, Found, Steps, Past, IsUnderWay
  <2> HIDE DEF d
  <2>5. CallsOK' /\ t \notin UnderWay' /\ UnderWay' \subseteq UnderWay
    BY <2>1, <2>4, CallsKeep DEF TableInv, TableOK
  <2> QED BY <1>1, <2>1, <2>3, <2>5, WritingKeeps DEF Past
<1> QED BY <1>3, <1>4

LEMMA CommitKeeps == ASSUME TableInv, NEW t \in Tasks, Commit(t) PROVE TableInv'
<1> DEFINE c == calls[t]
<1>1. c.step = "commit" /\ added' = added /\ Goto(t, NextTarget(t))
  BY DEF Commit, Done, Raised
<1>2. c \in Found /\ c.at \in Nat
  BY <1>1, FoundShape DEF TableInv, TableOK, Steps, Past
<1>3. CASE WriteFails(c)
  <2>1. feeds' = feeds /\ sites' = sites
    BY <1>3 DEF Commit
  <2> QED BY <1>1, <2>1, RaisingKeeps DEF Steps, Past
<1>4. CASE ~WriteFails(c)
  <2>1. /\ Write(c)
        /\ sites' = IF c.flagged = c.enable THEN sites ELSE [sites EXCEPT ![c.target.site] = c.enable]
    BY <1>4 DEF Commit
  <2>2. SitesOK'
    <3>1. c.enable \in BOOLEAN
      BY <1>2 DEF Found
    <3> QED BY <2>1, <3>1 DEF TableInv, TableOK, SitesOK
  <2>3. CallsOK' /\ t \notin UnderWay' /\ UnderWay' \subseteq UnderWay
    BY <1>1, <1>2, EndsKeep DEF TableInv, TableOK
  <2> QED BY <1>1, <1>4, <2>1, <2>2, <2>3, WritingKeeps DEF Past
<1> QED BY <1>3, <1>4

LEMMA SameCalls ==
    ASSUME CallsOK, calls' = calls
    PROVE  CallsOK' /\ UnderWay' = UnderWay
BY DEF CallsOK, CallOK, Found, UnderWay, IsUnderWay

LEMMA AddFeedKeeps == ASSUME TableInv, NEW t \in Tasks, AddFeed(t) PROVE TableInv'
<1>1. PICK u \in Feeds, sentinel \in BOOLEAN :
        /\ feeds' = Inserted(u, sentinel)
        /\ added' = IF sentinel THEN added + 1 ELSE added
  BY DEF AddFeed
<1>2. sites' = sites /\ calls' = calls
  BY DEF AddFeed
<1>3. CallsOK' /\ UnderWay' = UnderWay
  BY <1>2, SameCalls DEF TableInv, TableOK
<1>4. /\ RowsOK' /\ ActiveSentinels' \subseteq ActiveSentinels \cup {NextKey}
      /\ ~sentinel => ActiveSentinels' \subseteq ActiveSentinels
  BY <1>1, InsertedRow DEF TableInv, TableOK
<1>5. TableOK'
  BY <1>1, <1>2, <1>3, <1>4 DEF TableInv, TableOK, SitesOK
<1>6. CASE sentinel
  BY <1>1, <1>3, <1>4, <1>5, <1>6, OneAdded DEF TableInv
<1>7. CASE ~sentinel
  BY <1>1, <1>3, <1>4, <1>5, <1>7, NeitherGrows DEF TableInv
<1> QED BY <1>6, <1>7

LEMMA RemoveFeedKeeps == ASSUME TableInv, NEW t \in Tasks, RemoveFeed(t) PROVE TableInv'
<1>1. PICK k \in Keys : feeds' = [j \in Keys \ {k} |-> feeds[j]]
  BY DEF RemoveFeed
<1>2. sites' = sites /\ calls' = calls /\ added' = added
  BY DEF RemoveFeed
<1>3. CallsOK' /\ UnderWay' = UnderWay
  BY <1>2, SameCalls DEF TableInv, TableOK
<1>4. Keys' = Keys \ {k} /\ \A j \in Keys' : feeds'[j] = feeds[j]
  BY <1>1 DEF Keys
<1>5. RowsOK'
  <2>1. feeds' = [j \in Keys' |-> feeds'[j]]
    BY <1>1, <1>4
  <2>2. IsFiniteSet(Keys') /\ Keys' \subseteq Nat \ {0}
    BY <1>4, FS_Subset DEF TableInv, TableOK, RowsOK
  <2> QED BY <1>4, <2>1, <2>2 DEF TableInv, TableOK, RowsOK, RowOK
<1>6. ActiveSentinels' \subseteq ActiveSentinels
  BY <1>4 DEF ActiveSentinels
<1>7. TableOK'
  BY <1>2, <1>3, <1>5 DEF TableInv, TableOK, SitesOK
<1> QED BY <1>2, <1>3, <1>6, <1>7, NeitherGrows DEF TableInv

LEMMA SyncFeedKeeps == ASSUME TableInv, SyncFeed PROVE TableInv'
<1>1. PICK k \in Keys : feeds' = [feeds EXCEPT ![k].items = TRUE]
  BY DEF SyncFeed
<1>2. sites' = sites /\ calls' = calls /\ added' = added
  BY DEF SyncFeed
<1>3. CallsOK' /\ UnderWay' = UnderWay
  BY <1>2, SameCalls DEF TableInv, TableOK
<1> DEFINE r == [feeds[k] EXCEPT !.items = TRUE]
<1>4. RowOK(r) /\ r.sentinel = feeds[k].sentinel /\ r.active = feeds[k].active
  BY DEF TableInv, TableOK, RowsOK, RowOK
<1>5. feeds' = [feeds EXCEPT ![k] = r]
  BY <1>1
<1> HIDE DEF r
<1>6. RowsOK' /\ ActiveSentinels' \subseteq ActiveSentinels
  BY <1>4, <1>5, WrittenRow DEF TableInv, TableOK
<1>7. TableOK'
  BY <1>2, <1>3, <1>6 DEF TableInv, TableOK, SitesOK
<1> QED BY <1>2, <1>3, <1>6, <1>7, NeitherGrows DEF TableInv

LEMMA SiftKeeps == ASSUME TableInv, Sift PROVE TableInv'
<1>1. PICK audited \in SUBSET Keys :
        feeds' = [k \in Keys |->
                    IF k \in audited /\ SiftedQuality < 40 THEN [feeds[k] EXCEPT !.active = FALSE]
                    ELSE feeds[k]]
  BY DEF Sift
<1>2. feeds' = feeds
  BY <1>1 DEF SiftedQuality, TableInv, TableOK, RowsOK
<1>3. sites' = sites /\ calls' = calls /\ added' = added
  BY DEF Sift
<1>4. CallsOK' /\ UnderWay' = UnderWay /\ RowsOK' /\ ActiveSentinels' = ActiveSentinels
  BY <1>2, <1>3, SameCalls, SameRows DEF TableInv, TableOK
<1>5. TableOK'
  BY <1>3, <1>4 DEF TableInv, TableOK, SitesOK
<1> QED BY <1>3, <1>4, <1>5, NeitherGrows DEF TableInv

\* The presets get keys of their own; a finite number of them.
LEMMA PresetKeys ==
    ASSUME RowsOK, NEW S \in SUBSET Presets
    PROVE  LET more == {NextKey + n - 1 : n \in 1..Cardinality(S)}
           IN  IsFiniteSet(more) /\ more \subseteq Nat \ {0}
<1> DEFINE last == NextKey + Cardinality(S)
           more == {NextKey + n - 1 : n \in 1..Cardinality(S)}
<1>1. NextKey \in Nat \ {0} /\ Cardinality(S) \in Nat
  BY NextKeyOK, FS_Subset, FS_CardinalityType, SubscriptionsAssumption
<1>2. more \subseteq NextKey..last
  BY <1>1
<1>3. IsFiniteSet(NextKey..last)
  BY <1>1, FS_Interval
<1>4. IsFiniteSet(more)
  BY <1>2, <1>3, FS_Subset
<1>5. more \subseteq Nat \ {0}
  BY <1>1
<1> QED BY <1>4, <1>5

LEMMA StartKeeps == ASSUME TableInv, Start PROVE TableInv'
<1> DEFINE missing == Presets \ Subscribed
           order == CHOOSE s \in [1..Cardinality(missing) -> missing] : Range(s) = missing
           more == {NextKey + n - 1 : n \in 1..Cardinality(missing)}
           row(k) == Row(order[k - NextKey + 1], FALSE)
<1>1. feeds' = [k \in Keys \cup more |-> IF k \in Keys THEN feeds[k] ELSE row(k)]
  BY DEF Start
<1>2. IsFiniteSet(more) /\ more \subseteq Nat \ {0}
  BY PresetKeys DEF TableInv, TableOK
<1>3. \A k : RowOK(row(k)) /\ ~row(k).sentinel
  BY DEF Row, RowOK
<1>4. /\ calls' = [t \in Tasks |-> IF t = Boot THEN [step |-> "find", at |-> 1, enable |-> TRUE,
                                                   target |-> EnvTargets[1]]
                                   ELSE Free]
      /\ EnvTargets # <<>> /\ sites' = sites /\ added' = added
  BY DEF Start
<1> HIDE DEF more, row
<1>5. Keys' = Keys \cup more /\ \A k \in Keys' : feeds'[k] = IF k \in Keys THEN feeds[k] ELSE row(k)
  BY <1>1 DEF Keys
<1>6. RowsOK'
  <2>1. IsFiniteSet(Keys')
    BY <1>2, <1>5, FS_Union DEF TableInv, TableOK, RowsOK
  <2>2. Keys' \subseteq Nat \ {0}
    BY <1>2, <1>5 DEF TableInv, TableOK, RowsOK
  <2>3. \A k \in Keys' : RowOK(feeds'[k])
    BY <1>3, <1>5 DEF TableInv, TableOK, RowsOK
  <2>4. feeds' = [k \in Keys' |-> feeds'[k]]
    BY <1>1, <1>5
  <2> QED BY <2>1, <2>2, <2>3, <2>4 DEF RowsOK, RowOK
<1>7. ActiveSentinels' \subseteq ActiveSentinels
  BY <1>3, <1>5 DEF ActiveSentinels
<1>8. CallsOK' /\ UnderWay' \subseteq UnderWay
  <2> DEFINE c == [step |-> "find", at |-> 1, enable |-> TRUE, target |-> EnvTargets[1]]
  <2>1. EnvTargets[1] \in Targets
    BY <1>4, SubscriptionsAssumption
  <2>2. CallOK(c) /\ ~IsUnderWay(c)
    BY <2>1 DEF CallOK, IsUnderWay, Past
  <2>3. CallOK(Free) /\ ~IsUnderWay(Free)
    BY DEF CallOK, IsUnderWay, Past, Free
  <2> HIDE DEF c
  <2>4. \A t \in Tasks : calls'[t] = IF t = Boot THEN c ELSE Free
    BY <1>4 DEF c
  <2>5. calls' = [t \in Tasks |-> calls'[t]]
    BY <1>4
  <2>6. \A t \in Tasks : CallOK(calls'[t]) /\ ~IsUnderWay(calls'[t])
    BY <2>2, <2>3, <2>4
  <2>7. UnderWay' = {}
    BY <2>6 DEF UnderWay, IsUnderWay
  <2> QED BY <2>5, <2>6, <2>7 DEF CallsOK, CallOK, Found
<1>9. TableOK'
  BY <1>4, <1>6, <1>8 DEF TableInv, TableOK, SitesOK
<1> QED BY <1>4, <1>7, <1>8, <1>9, NeitherGrows DEF TableInv

-----------------------------------------------------------------------------
LEMMA Initially == SubscriptionsInit => TableInv
<1> SUFFICES ASSUME SubscriptionsInit PROVE TableInv
  OBVIOUS
<1>1. Keys = {} /\ feeds = [k \in Keys |-> feeds[k]]
  BY DEF SubscriptionsInit, Keys
<1>2. RowsOK
  BY <1>1, FS_EmptySet DEF RowsOK
<1>3. CallsOK
  BY DEF SubscriptionsInit, CallsOK, CallOK
<1>4. SitesOK /\ added = 0
  BY DEF SubscriptionsInit, SitesOK
<1>5. ActiveSentinels = {}
  BY <1>1 DEF ActiveSentinels
<1>6. UnderWay = {}
  BY DEF UnderWay, IsUnderWay, Past, SubscriptionsInit, Free
<1>7. Counted
  BY <1>4, <1>5, <1>6, Counts, FS_EmptySet, SubscriptionsAssumption DEF Counted
<1> QED BY <1>2, <1>3, <1>4, <1>7 DEF TableInv, TableOK

LEMMA EveryStep == TableInv /\ [SubscriptionsNext]_subsVars => TableInv'
<1> SUFFICES ASSUME TableInv, [SubscriptionsNext]_subsVars PROVE TableInv'
  OBVIOUS
<1>1. ASSUME NEW t \in Tasks,
             \/ Call(t) \/ Find(t) \/ Admit(t) \/ Site(t) \/ Create(t) \/ Commit(t)
             \/ AddFeed(t) \/ RemoveFeed(t)
      PROVE  TableInv'
  BY <1>1, CallKeeps, FindKeeps, AdmitKeeps, SiteKeeps, CreateKeeps, CommitKeeps,
     AddFeedKeeps, RemoveFeedKeeps
<1>2. CASE SyncFeed \/ Sift \/ Start
  BY <1>2, SyncFeedKeeps, SiftKeeps, StartKeeps
<1>3. CASE UNCHANGED subsVars
  <2>1. feeds' = feeds /\ sites' = sites /\ calls' = calls /\ added' = added
    BY <1>3 DEF subsVars
  <2>2. CallsOK' /\ UnderWay' = UnderWay /\ RowsOK' /\ ActiveSentinels' = ActiveSentinels
    BY <2>1, SameCalls, SameRows DEF TableInv, TableOK
  <2>3. TableOK'
    BY <2>1, <2>2 DEF TableInv, TableOK, SitesOK
  <2> QED BY <2>1, <2>2, <2>3, NeitherGrows DEF TableInv
<1> QED BY <1>1, <1>2, <1>3 DEF SubscriptionsNext

\* The types, and the sentinels counted with the calls under way (sentinel.py:109-145).
THEOREM SentinelsCounted == SubscriptionsSpec => []TableInv
BY Initially, EveryStep, PTL DEF SubscriptionsSpec

\* However many calls run at the same time, in whatever order, and however often the node is
\* started again, the active sentinels pass the ceiling only by those the add tool made and
\* by one for each further call (sentinel.py:111-120).
THEOREM SentinelsAlwaysBounded == SubscriptionsSpec => []SentinelsBounded
<1>1. TableInv => SentinelsBounded
  <2> SUFFICES ASSUME TableInv PROVE SentinelsBounded
    OBVIOUS
  <2>1. Cardinality(ActiveSentinels) \in Nat
    BY ActiveFinite, FS_CardinalityType DEF TableInv, TableOK
  <2> QED BY <2>1, Counts, SubscriptionsAssumption DEF TableInv, TableOK, Counted, SentinelsBounded
<1> QED BY <1>1, SentinelsCounted, PTL
-----------------------------------------------------------------------------
\* The items of a set in their order are its members.
LEMMA Ordered ==
    ASSUME NEW S \in SUBSET Items
    PROVE  /\ IsFiniteSet(S) /\ InOrder[S] \in Seq(S) /\ Len(InOrder[S]) = Cardinality(S)
           /\ \A k \in S : \E m \in DOMAIN InOrder[S] : InOrder[S][m] = k
<1> DEFINE n == Cardinality(S)
           Upto(k) == {j \in S : j <= k}
           rank == [k \in S |-> Cardinality(Upto(k))]
           R == {rank[k] : k \in S}
<1>0. IsFiniteSet(S) /\ S \in SUBSET Nat
  <2>1. ItemCount \in Nat
    BY ItemsAssumption
  <2>2. IsFiniteSet(1..ItemCount)
    BY <2>1, FS_Interval
  <2>3. S \in SUBSET (1..ItemCount)
    BY DEF Items
  <2>4. IsFiniteSet(S)
    BY <2>2, <2>3, FS_Subset
  <2> QED BY <2>1, <2>3, <2>4
<1>1. n \in Nat
  BY <1>0, FS_CardinalityType
<1>2. ASSUME NEW k \in S PROVE IsFiniteSet(Upto(k)) /\ rank[k] \in 1..n
  <2>1. Upto(k) \in SUBSET S /\ k \in Upto(k)
    BY <1>0
  <2>2. IsFiniteSet(Upto(k)) /\ Cardinality(Upto(k)) <= n /\ Cardinality(Upto(k)) \in Nat
    BY <1>0, <2>1, FS_Subset, FS_CardinalityType
  <2>3. Cardinality(Upto(k)) # 0
    BY <2>1, <2>2, FS_EmptySet
  <2> QED BY <1>1, <2>2, <2>3
<1>3. ASSUME NEW k \in S, NEW l \in S, k < l PROVE rank[k] # rank[l]
  <2>0. k \in Int /\ l \in Int /\ \A j \in S : j \in Int
    BY <1>0
  <2>1. Upto(k) \in SUBSET Upto(l) /\ l \in Upto(l) /\ l \notin Upto(k)
    <3>1. ASSUME NEW j \in S, j <= k PROVE j <= l
      BY <1>3, <2>0, <3>1
    <3>2. l <= l /\ ~(l <= k)
      BY <1>3, <2>0
    <3> QED BY <3>1, <3>2
  <2> HIDE DEF Upto
  <2>2. Upto(l) # Upto(k)
    BY <2>1
  <2>3. Cardinality(Upto(l)) # Cardinality(Upto(k))
    BY <1>2, <2>1, <2>2, FS_Subset
  <2> QED BY <2>3
<1>4. \A k, l \in S : rank[k] = rank[l] => k = l
  <2> SUFFICES ASSUME NEW k \in S, NEW l \in S, rank[k] = rank[l], k # l PROVE FALSE
    OBVIOUS
  <2>1. k < l \/ l < k
    BY <1>0
  <2> HIDE DEF rank
  <2> QED BY <1>3, <2>1
<1>5. R = 1..n
  <2>1. rank \in Bijection(S, R)
    <3> HIDE DEF Upto
    <3>1. rank \in [S -> R] /\ \A r \in R : \E k \in S : rank[k] = r
      OBVIOUS
    <3> HIDE DEF rank, R
    <3> QED BY <1>4, <3>1 DEF Bijection, Injection, Surjection, IsInjective
  <2>2. Cardinality(R) = n
    <3> HIDE DEF R, rank
    <3> QED BY <1>0, <2>1, FS_Bijection DEF ExistsBijection
  <2>3. R \in SUBSET (1..n)
    BY <1>2
  <2>4. IsFiniteSet(1..n) /\ Cardinality(1..n) = n
    BY <1>1, FS_Interval
  <2> HIDE DEF R
  <2> QED BY <2>2, <2>3, <2>4, FS_Subset
<1>a. InOrder[S] = [m \in 1..n |-> CHOOSE x \in S : Cardinality(Upto(x)) = m]
  BY DEF InOrder
<1>6. \A m \in 1..n : InOrder[S][m] \in S /\ rank[InOrder[S][m]] = m
  <2> SUFFICES ASSUME NEW m \in 1..n PROVE InOrder[S][m] \in S /\ rank[InOrder[S][m]] = m
    OBVIOUS
  <2>1. PICK k \in S : rank[k] = m
    BY <1>5
  <2>2. Cardinality(Upto(k)) = m
    BY <2>1
  <2> HIDE DEF Upto
  <2>3. InOrder[S][m] = CHOOSE x \in S : Cardinality(Upto(x)) = m
    BY <1>a
  <2>4. InOrder[S][m] \in S /\ Cardinality(Upto(InOrder[S][m])) = m
    BY <2>2, <2>3
  <2> QED BY <2>4
<1>7. InOrder[S] = [m \in 1..n |-> InOrder[S][m]]
  <2> HIDE DEF Upto
  <2> QED BY <1>a
<1>8. InOrder[S] \in Seq(S) /\ DOMAIN InOrder[S] = 1..n /\ Len(InOrder[S]) = n
  <2>1. PICK q : q = InOrder[S]
    OBVIOUS
  <2>2. q = [m \in 1..n |-> q[m]] /\ \A m \in 1..n : q[m] \in S
    BY <1>6, <1>7, <2>1
  <2>3. [m \in 1..n |-> q[m]] \in Seq(S) /\ Len([m \in 1..n |-> q[m]]) = n
    BY <1>1, <2>2
  <2> HIDE DEF n
  <2> QED BY <2>1, <2>2, <2>3
<1>9. ASSUME NEW k \in S PROVE \E m \in 1..n : InOrder[S][m] = k
  <2>1. rank[k] \in 1..n
    BY <1>2
  <2> HIDE DEF rank
  <2> QED BY <1>4, <1>6, <2>1
<1> HIDE DEF rank
<1> QED BY <1>0, <1>8, <1>9

\* A take is the front of a sequence.
LEMMA TakeFacts ==
    ASSUME NEW A, NEW s \in Seq(A), NEW n \in Nat
    PROVE  /\ Take(s, n) \in Seq(A) /\ Len(Take(s, n)) \in Nat /\ Len(Take(s, n)) <= n
           /\ Len(Take(s, n)) = (IF n < Len(s) THEN n ELSE Len(s))
           /\ \A k \in 1..Len(Take(s, n)) : Take(s, n)[k] = s[k]
<1> DEFINE m == IF n < Len(s) THEN n ELSE Len(s)
<1>1. Len(s) \in Nat /\ m \in Nat /\ m <= n /\ m <= Len(s) /\ (n < Len(s) => m = n)
  OBVIOUS
<1>2. Take(s, n) = SubSeq(s, 1, m)
  BY DEF Take
<1> HIDE DEF m
<1>3. SubSeq(s, 1, m) \in Seq(A) /\ Len(SubSeq(s, 1, m)) = m /\ \A k \in 1..m : SubSeq(s, 1, m)[k] = s[k]
  BY <1>1
<1> PICK q : q = Take(s, n)
  OBVIOUS
<1>4. q \in Seq(A) /\ Len(q) = m /\ \A k \in 1..m : q[k] = s[k]
  BY <1>2, <1>3
<1>5. q \in Seq(A) /\ Len(q) \in Nat /\ Len(q) <= n /\ \A k \in 1..Len(q) : q[k] = s[k]
  BY <1>1, <1>4
<1>6. Len(q) = IF n < Len(s) THEN n ELSE Len(s)
  BY <1>4 DEF m
<1> QED BY <1>5, <1>6

\* The places of what is concatenated second of three.
LEMMA Shifted ==
    ASSUME NEW a \in Nat, NEW b \in Nat, NEW c \in Nat, NEW m \in 1..b
    PROVE  /\ a + m \in 1..(a + b) /\ a + m \in 1..((a + b) + c) /\ ~(a + m <= a) /\ (a + m) - a = m
           /\ a + m <= a + b
  OBVIOUS

\* The clean budget is never empty.
LEMMA BudgetFacts ==
    ASSUME NEW setting \in Settings
    PROVE  CleanBudget(setting) \in Nat \ {0}
<1>1. setting \in (Nat \ {0}) \X (0..100)
  BY ItemsAssumption
<1>2. setting[1] \in Nat /\ setting[2] \in Nat
  BY <1>1
<1>3. \A x, y \in Nat : x * y \in Nat
  OBVIOUS
<1>4. setting[1] * setting[2] \in Nat
  BY <1>2, <1>3
<1>5. ASSUME NEW n \in Nat PROVE RoundHalfEven(n, 100) \in Nat
  BY DEF RoundHalfEven
<1>6. RoundHalfEven(setting[1] * setting[2], 100) \in Nat
  BY <1>4, <1>5
<1> QED BY <1>6 DEF CleanBudget, AtLeastOne

\* A burst is made of what it is chosen from.
LEMMA BurstFacts ==
    ASSUME NEW A, NEW s \in Seq(A), NEW o \in Seq(A), NEW total \in Nat
    PROVE  partition_ingestion_burst(s, o, total) \in Seq(A)
<1> DEFINE most == total \div 2
<1>1. most \in Nat /\ most <= total
  OBVIOUS
<1> HIDE DEF most
<1> PICK picked : picked = Take(s, most)
  OBVIOUS
<1>2. picked \in Seq(A) /\ Len(picked) \in Nat /\ Len(picked) <= most
  BY <1>1, TakeFacts
<1> PICK r : r = total - Len(picked)
  OBVIOUS
<1>3. r \in Nat
  BY <1>1, <1>2
<1> PICK soil : soil = Take(o, r)
  OBVIOUS
<1>4. soil \in Seq(A) /\ Len(soil) \in Nat /\ Len(soil) <= r
  BY <1>3, TakeFacts
<1> PICK rest : rest = Take(Drop(s, most), r - Len(soil))
  OBVIOUS
<1>5. rest \in Seq(A)
  <2>1. Drop(s, most) \in Seq(A)
    BY <1>1 DEF Drop
  <2>2. r - Len(soil) \in Nat
    BY <1>3, <1>4
  <2> QED BY <2>1, <2>2, TakeFacts
<1>6. picked \o soil \in Seq(A)
  BY <1>2, <1>4, ConcatProperties
<1>7. (picked \o soil) \o rest \in Seq(A)
  BY <1>5, <1>6, ConcatProperties
<1>8. partition_ingestion_burst(s, o, total) = (picked \o soil) \o rest
  <2>1. total - Len(picked) - Len(soil) = r - Len(soil)
    OBVIOUS
  <2> QED BY <2>1 DEF partition_ingestion_burst, most
<1> QED BY <1>7, <1>8

\* Where an organic item is left out, all of a burst but its first half is organic.
LEMMA SoilFills ==
    ASSUME NEW A, NEW B, NEW s \in Seq(A), NEW o \in Seq(B), NEW total \in Nat,
           NEW m \in DOMAIN o, NEW p, p = partition_ingestion_burst(s, o, total),
           o[m] \notin ToSet(p)
    PROVE  \A k \in DOMAIN p : k \in Nat /\ k > 0 /\ (k <= total \div 2 \/ p[k] \in B)
<1> DEFINE most == total \div 2
<1>1. most \in Nat /\ most <= total
  OBVIOUS
<1> HIDE DEF most
<1> PICK picked : picked = Take(s, most)
  OBVIOUS
<1>2. picked \in Seq(A) /\ Len(picked) \in Nat /\ Len(picked) <= most
  BY <1>1, TakeFacts
<1> PICK r : r = total - Len(picked)
  OBVIOUS
<1>3. r \in Nat
  BY <1>1, <1>2
<1> PICK soil : soil = Take(o, r)
  OBVIOUS
<1>4. /\ soil \in Seq(B) /\ Len(soil) \in Nat /\ Len(soil) = (IF r < Len(o) THEN r ELSE Len(o))
      /\ \A k \in 1..Len(soil) : soil[k] = o[k]
  BY <1>3, TakeFacts
<1>a. Len(soil) <= r
  <2>1. Len(o) \in Nat
    OBVIOUS
  <2> QED BY <1>3, <1>4, <2>1
<1> PICK rest : rest = Take(Drop(s, most), r - Len(soil))
  OBVIOUS
<1>5. /\ rest \in Seq(A) /\ Len(rest) \in Nat /\ Len(rest) <= r - Len(soil)
  <2>1. Drop(s, most) \in Seq(A)
    BY <1>1 DEF Drop
  <2>2. r - Len(soil) \in Nat
    BY <1>3, <1>4, <1>a
  <2> QED BY <2>1, <2>2, TakeFacts
<1>6. p = picked \o soil \o rest
  <2>1. total - Len(picked) - Len(soil) = r - Len(soil)
    OBVIOUS
  <2> QED BY <2>1 DEF partition_ingestion_burst, most
<1> PICK q : q = picked \o soil
  OBVIOUS
<1>7. /\ q \in Seq(A \cup B) /\ Len(q) = Len(picked) + Len(soil)
      /\ \A k \in 1..Len(q) : q[k] = IF k <= Len(picked) THEN picked[k] ELSE soil[k - Len(picked)]
  <2>1. picked \in Seq(A \cup B) /\ soil \in Seq(A \cup B)
    BY <1>2, <1>4
  <2> QED BY <2>1, ConcatProperties
<1>8. /\ DOMAIN p = 1..Len(p) /\ Len(p) = Len(q) + Len(rest)
      /\ \A k \in 1..Len(p) : p[k] = IF k <= Len(q) THEN q[k] ELSE rest[k - Len(q)]
  <2>1. rest \in Seq(A \cup B)
    BY <1>5
  <2>2. p \in Seq(A \cup B) /\ Len(p) = Len(q) + Len(rest)
        /\ \A k \in 1..Len(p) : p[k] = IF k <= Len(q) THEN q[k] ELSE rest[k - Len(q)]
    BY <1>6, <1>7, <2>1, ConcatProperties
  <2> QED BY <2>2
<1>9. Len(o) \in Nat /\ m \in 1..Len(o)
  OBVIOUS
<1>10. r < m
  <2> SUFFICES ASSUME m <= r PROVE FALSE
    BY <1>3, <1>9
  <2>1. m \in 1..Len(soil)
    BY <1>3, <1>4, <1>9
  <2> PICK k : k = Len(picked) + m
    OBVIOUS
  <2>2. k \in 1..Len(q) /\ k \in 1..Len(p) /\ ~(k <= Len(picked)) /\ k - Len(picked) = m
    <3>1. Len(q) = Len(picked) + Len(soil) /\ Len(p) = Len(q) + Len(rest) /\ Len(rest) \in Nat
          /\ Len(picked) \in Nat /\ Len(soil) \in Nat
      BY <1>2, <1>4, <1>5, <1>7, <1>8
    <3> PICK a, b, c : a = Len(picked) /\ b = Len(soil) /\ c = Len(rest)
      OBVIOUS
    <3>2. a \in Nat /\ b \in Nat /\ c \in Nat /\ m \in 1..b
      BY <2>1, <3>1
    <3>3. Len(q) = a + b /\ Len(p) = (a + b) + c /\ k = a + m
      BY <3>1
    <3>a. a + m \in 1..(a + b) /\ a + m \in 1..((a + b) + c) /\ ~(a + m <= a) /\ (a + m) - a = m
      BY ONLY <3>2, Shifted
    <3>4. k \in 1..(a + b) /\ k \in 1..((a + b) + c) /\ ~(k <= a) /\ k - a = m
      BY <3>3, <3>a, Zenon
    <3> QED BY <3>3, <3>4
  <2>3. q[k] = soil[m] /\ p[k] = q[k] /\ k <= Len(q)
    <3>1. k <= Len(q)
      BY <2>2
    <3>2. q[k] = soil[m]
      BY <1>7, <2>2
    <3>3. p[k] = q[k]
      BY <1>8, <2>2, <3>1
    <3> QED BY <3>1, <3>2, <3>3
  <2>4. p[k] = o[m]
    BY <1>4, <2>1, <2>3
  <2> QED BY <1>8, <2>2, <2>4 DEF ToSet
<1>11. Len(soil) = r /\ Len(rest) = 0
  <2>0. Len(soil) = IF r < Len(o) THEN r ELSE Len(o)
    BY <1>4
  <2>1. r < Len(o)
    BY <1>3, <1>9, <1>10
  <2>2. Len(soil) = r
    BY <2>0, <2>1
  <2> QED BY <1>3, <1>5, <2>2
<1>12. ASSUME NEW k \in DOMAIN p, ~(k <= most) PROVE p[k] \in B
  <2>1. k \in 1..Len(p) /\ k \in 1..Len(q) /\ k <= Len(q) /\ k - Len(picked) \in 1..Len(soil) /\ ~(k <= Len(picked))
    <3>1. /\ Len(q) = Len(picked) + Len(soil) /\ Len(p) = Len(q) + Len(rest) /\ Len(rest) = 0
          /\ Len(picked) \in Nat /\ Len(soil) \in Nat /\ Len(picked) <= most /\ k \in 1..Len(p)
      BY <1>2, <1>4, <1>7, <1>8, <1>11
    <3> QED BY <1>1, <1>12, <3>1
  <2>2. p[k] = q[k]
    BY <1>8, <2>1
  <2>3. q[k] = soil[k - Len(picked)]
    BY <1>7, <2>1
  <2>4. soil[k - Len(picked)] \in B
    BY <1>4, <2>1
  <2> QED BY <2>2, <2>3, <2>4
<1> QED BY <1>8, <1>12 DEF most

\* The floor, for a queue of items.
LEMMA FloorHolds == ASSUME pending \in SUBSET Items PROVE OrganicFloor
<1> SUFFICES ASSUME NEW setting \in Settings, NEW picks, picks = CleanPicks(setting),
                    NEW i \in Window(setting), IsOrganic(i), i \notin ToSet(picks)
             PROVE  2 * Cardinality({k \in DOMAIN picks : IsSentinel(picks[k])}) <= CleanBudget(setting)
  BY DEF OrganicFloor
<1> PICK A : A = {j \in Window(setting) : IsSentinel(j)}
  OBVIOUS
<1> PICK B : B = {j \in Window(setting) : IsOrganic(j)}
  OBVIOUS
<1> PICK total : total = CleanBudget(setting)
  OBVIOUS
<1>1. A \in SUBSET Items /\ B \in SUBSET Items /\ i \in B /\ total \in Nat
  BY BudgetFacts DEF Window
<1> PICK s : s = InOrder[A]
  OBVIOUS
<1> PICK o : o = InOrder[B]
  OBVIOUS
<1>2. s \in Seq(A) /\ o \in Seq(B)
  BY <1>1, Ordered
<1>3. PICK m \in DOMAIN o : o[m] = i
  BY <1>1, Ordered
<1>4. picks = partition_ingestion_burst(s, o, total)
  BY DEF CleanPicks
<1>5. o[m] \notin ToSet(picks)
  BY <1>3
<1>6. \A k \in DOMAIN picks : k \in Nat /\ k > 0 /\ (k <= total \div 2 \/ picks[k] \in B)
  BY <1>1, <1>2, <1>4, <1>5, SoilFills
<1>7. {k \in DOMAIN picks : IsSentinel(picks[k])} \in SUBSET (1..(total \div 2))
  <2>1. \A j \in B : ~IsSentinel(j)
    BY DEF IsSentinel, IsOrganic
  <2> QED BY <1>1, <1>6, <2>1
<1>8. total \div 2 \in Nat /\ 2 * (total \div 2) <= total
  BY <1>1
<1>9. IsFiniteSet(1..(total \div 2)) /\ Cardinality(1..(total \div 2)) = total \div 2
  BY <1>8, FS_Interval
<1> PICK S : S = {k \in DOMAIN picks : IsSentinel(picks[k])}
  OBVIOUS
<1>10. Cardinality(S) <= total \div 2 /\ Cardinality(S) \in Nat
  BY <1>7, <1>9, FS_Subset, FS_CardinalityType
<1> QED BY <1>1, <1>8, <1>10

\* What a cycle selects are items.
LEMMA SelectedAreItems ==
    ASSUME pending \in SUBSET Items, NEW setting \in Settings
    PROVE  Selected(setting) \in Seq(Items)
<1>1. setting[1] \in Nat /\ CleanBudget(setting) \in Nat /\ AdversarialBudget(setting) \in Int
  <2>1. setting \in (Nat \ {0}) \X (0..100)
    BY ItemsAssumption
  <2>2. setting[1] \in Nat /\ CleanBudget(setting) \in Nat
    BY <2>1, BudgetFacts
  <2> QED BY <2>2 DEF AdversarialBudget
<1>2. ASSUME NEW S \in SUBSET Items PROVE InOrder[S] \in Seq(Items)
  BY Ordered
<1>3. ASSUME NEW s \in Seq(Items), NEW n \in Nat PROVE Take(s, n) \in Seq(Items)
  BY TakeFacts
<1>4. Window(setting) \in SUBSET Items
  BY DEF Window
<1>5. CleanPicks(setting) \in Seq(Items)
  <2> PICK s : s = InOrder[{i \in Window(setting) : IsSentinel(i)}]
    OBVIOUS
  <2> PICK o : o = InOrder[{i \in Window(setting) : IsOrganic(i)}]
    OBVIOUS
  <2>1. s \in Seq(Items) /\ o \in Seq(Items)
    BY <1>2, <1>4
  <2>2. partition_ingestion_burst(s, o, CleanBudget(setting)) \in Seq(Items)
    BY <1>1, <2>1, BurstFacts
  <2> QED BY <2>2 DEF CleanPicks
<1>6. Probes(setting) \in Seq(Items)
  <2>1. InOrder[{i \in Window(setting) : IsRestricted(i)}] \in Seq(Items)
    BY <1>2, <1>4
  <2>2. AtLeastOne(AdversarialBudget(setting)) \in Nat
    BY <1>1 DEF AtLeastOne
  <2>3. <<>> \in Seq(Items)
    OBVIOUS
  <2> QED BY <1>3, <2>1, <2>2, <2>3 DEF Probes
<1>7. Substitutes(setting) \in Seq(Items)
  <2> PICK left : left = {i \in Window(setting) : ~IsRestricted(i)} \ ToSet(CleanPicks(setting))
    OBVIOUS
  <2>1. InOrder[left] \in Seq(Items)
    BY <1>2, <1>4
  <2>2. AdversarialBudget(setting) > 0 => Take(InOrder[left], AdversarialBudget(setting)) \in Seq(Items)
    BY <1>1, <1>3, <2>1
  <2>3. <<>> \in Seq(Items)
    OBVIOUS
  <2> QED BY <2>2, <2>3 DEF Substitutes
<1>8. \A p, q \in Seq(Items) : p \o q \in Seq(Items)
  BY ConcatProperties
<1> QED BY <1>5, <1>6, <1>7, <1>8 DEF Selected

\* Whatever a cycle does with its picks, it takes from the queue and changes domains of items.
LEMMA ProcessKeeps ==
    ASSUME TypeOK, NEW picks \in Seq(Items), NEW n, NEW burst, Process(picks, n, burst),
           headroom' = headroom
    PROVE  TypeOK'
<1>1. ToSet(picks) \subseteq Items
  BY DEF ToSet
<1>2. pending' \subseteq pending
  BY DEF Process
<1>3. restricted' \subseteq Domains
  <2> DEFINE Audited(cached, failed) == IF CanSpend THEN ToSet(picks) \ (cached \union failed) ELSE {}
             Touched(cached, failed) == {DomainOf[i] : i \in Reached(picks, n, burst, Audited(cached, failed))
                                                             \intersect Audited(cached, failed)}
  <2>1. \E cached, failed : \E changed \in SUBSET Touched(cached, failed) :
            restricted' = (restricted \ changed) \union (changed \ restricted)
    BY DEF Process
  <2>2. ASSUME NEW cached, NEW failed PROVE Touched(cached, failed) \in SUBSET Domains
    <3>1. Audited(cached, failed) \subseteq Items
      BY <1>1
    <3> HIDE DEF Audited
    <3> QED BY <3>1 DEF Domains
  <2> HIDE DEF Audited, Touched
  <2> QED BY <2>1, <2>2 DEF TypeOK
<1> QED BY <1>2, <1>3 DEF TypeOK, Headrooms

\* The types of the queue.
THEOREM QueueTyped == Spec => []TypeOK
<1>1. Init => TypeOK
  BY DEF Init, TypeOK, Headrooms
<1>2. ASSUME TypeOK, [Next]_vars PROVE TypeOK'
  <2>0. pending \in SUBSET Items
    BY <1>2 DEF TypeOK
  <2>1. ASSUME NEW setting \in Settings, Cycle(setting) PROVE TypeOK'
    BY <1>2, <2>0, <2>1, SelectedAreItems, ProcessKeeps DEF Cycle
  <2>2. ASSUME NEW setting \in Settings, CycleCutShort(setting) PROVE TypeOK'
    BY <1>2, <2>0, <2>2, SelectedAreItems, ProcessKeeps DEF CycleCutShort
  <2>3. ASSUME NEW i \in Items, Discover(i) PROVE TypeOK'
    BY <1>2, <2>3 DEF Discover, TypeOK
  <2>4. CASE HeadroomChanges
    BY <1>2, <2>4 DEF HeadroomChanges, TypeOK
  <2>5. CASE UNCHANGED vars
    BY <1>2, <2>5 DEF vars, TypeOK
  <2> QED BY <1>2, <2>1, <2>2, <2>3, <2>4, <2>5 DEF Next
<1> QED BY <1>1, <1>2, PTL DEF Spec

\* Whatever is pending and whatever standing the domains have, a sentinel item takes a place of
\* the organic half of a clean budget only when no organic item of the window is left out
\* (sentinel.py:52-70).
THEOREM FloorAlwaysHolds == Spec => []OrganicFloor
<1>1. TypeOK => OrganicFloor
  <2>1. TypeOK => pending \in SUBSET Items
    BY DEF TypeOK
  <2> QED BY <2>1, FloorHolds
<1> QED BY <1>1, QueueTyped, PTL
================================================================================
