----------------------------- MODULE BoredomCycle -----------------------------
(***************************************************************************)
(* One boredom cycle after another over the queue of pending feed items:   *)
(* run_boredom_cycle of credence/feeds/boredom.py with                     *)
(* partition_ingestion_burst of credence/feeds/sentinel.py.                *)
(*                                                                         *)
(* An item has a place in the order of the cycle's SELECT: sentinel feeds  *)
(* first, then by priority tier, then by the time of discovery; the place  *)
(* of one that is done is free for another that comes in its turn.  Each   *)
(* caller gives a cycle its own burst and ratio; the daemon's are fixed.   *)
(* Cycles are whole here; FeedIngestion interleaves the steps of an item.  *)
(* No caller passes a mesh relay, so the order of the selection stays.     *)
(***************************************************************************)
EXTENDS Integers, Sequences, FiniteSets, SequencesExt

CONSTANTS
    ItemCount,      \* places of pending feed items, numbered by rank
    Sentinels,      \* those of items of a sentinel feed
    TierOf,         \* the priority tier of the feed of each
    DomainOf,       \* the publisher's domain of each
    Settings,       \* <<audit_burst, boredom_ratio in hundredths>> of the callers
    Daemon          \* the daemon's own

Items == 1..ItemCount

ASSUME ItemsAssumption ==
    /\ ItemCount \in Nat /\ Sentinels \subseteq Items
    /\ \A s \in Sentinels, i \in Items \ Sentinels : s < i
    /\ DOMAIN DomainOf = Items /\ TierOf \in [Items -> 1..4]
    /\ \A i, j \in Items : i < j /\ (i \in Sentinels <=> j \in Sentinels) => TierOf[i] <= TierOf[j]
    /\ Settings \subseteq (Nat \ {0}) \X (0..100) /\ Daemon \in Settings

VARIABLES
    pending,        \* places of the items whose processing_status is "pending"
    restricted,     \* domains in quarantine, in recovery or suspicious
    headroom        \* the governor's answer

vars == <<pending, restricted, headroom>>

Domains == {DomainOf[i] : i \in Items}

\* The daily headroom against the two thresholds of a cycle, 30% and 50%.
Headrooms == [pct: {"under30", "under50", "ample"}, tripped: BOOLEAN]

Init ==
    /\ pending = {} /\ restricted \in SUBSET Domains
    /\ headroom = [pct |-> "ample", tripped |-> FALSE]

-----------------------------------------------------------------------------
Take(s, n) == SubSeq(s, 1, IF n < Len(s) THEN n ELSE Len(s))
Drop(s, n) == SubSeq(s, n + 1, Len(s))
AtLeastOne(n) == IF n < 1 THEN 1 ELSE n

\* Python rounds a half to the even neighbour.
RoundHalfEven(n, d) ==
    LET q == n \div d
        r == 2 * (n % d)
    IN  IF r > d \/ (r = d /\ q % 2 = 1) THEN q + 1 ELSE q

CleanBudget(setting) == AtLeastOne(RoundHalfEven(setting[1] * setting[2], 100))
AdversarialBudget(setting) == setting[1] - CleanBudget(setting)

\* Items in their order, which is that of their numbers.
InOrder[items \in SUBSET Items] ==
    [n \in 1..Cardinality(items) |-> CHOOSE i \in items : Cardinality({j \in items : j <= i}) = n]

\* Those a cycle looks at: of the pending items, three times its burst.
Window(setting) == {i \in pending : Cardinality({j \in pending : j <= i}) <= 3 * setting[1]}

IsRestricted(i) == DomainOf[i] \in restricted
IsSentinel(i) == ~IsRestricted(i) /\ i \in Sentinels
IsOrganic(i) == ~IsRestricted(i) /\ i \notin Sentinels

\* Mutant of partition_ingestion_burst: sentinel items take what they can.
SentinelsFirst(sentinel, organic, total) ==
    LET s == Take(sentinel, total) IN s \o Take(organic, total - Len(s))

\* At most half of the burst are sentinel items unless organic ones run out.
partition_ingestion_burst(sentinel, organic, total) ==
    LET most == total \div 2
        picked == Take(sentinel, most)
        soil == Take(organic, total - Len(picked))
    IN  picked \o soil \o Take(Drop(sentinel, most), total - Len(picked) - Len(soil))

CleanPicks(setting) ==
    partition_ingestion_burst(InOrder[{i \in Window(setting) : IsSentinel(i)}],
                              InOrder[{i \in Window(setting) : IsOrganic(i)}],
                              CleanBudget(setting))

\* Mutant of Probes: a burst without adversarial share probes nothing.
ProbesWithinShare(setting) ==
    IF headroom.pct = "ample"
    THEN Take(InOrder[{i \in Window(setting) : IsRestricted(i)}], AdversarialBudget(setting))
    ELSE <<>>

\* The Lazarus sample, when half of the day's tokens are left.
Probes(setting) ==
    IF headroom.pct = "ample"
    THEN Take(InOrder[{i \in Window(setting) : IsRestricted(i)}],
              AtLeastOne(AdversarialBudget(setting)))
    ELSE <<>>

\* Without it, the next items in standing take its place; those of sentinel feeds come first.
Substitutes(setting) ==
    LET left == {i \in Window(setting) : ~IsRestricted(i)} \ ToSet(CleanPicks(setting))
    IN  IF AdversarialBudget(setting) > 0
        THEN Take(InOrder[left], AdversarialBudget(setting))
        ELSE <<>>

Selected(setting) ==
    CleanPicks(setting) \o
        (IF Probes(setting) # <<>> THEN Probes(setting) ELSE Substitutes(setting))

CanSpend == ~headroom.tripped /\ headroom.pct # "under30"

-----------------------------------------------------------------------------
\* The items of the first n picks that a cycle comes to: it stops after its burst of
\* audits.  One found in the cache costs nothing, one whose audit fails is not counted.
Reached(picks, n, burst, audited) ==
    {picks[k] : k \in {l \in 1..n : Cardinality({j \in 1..(l - 1) : picks[j] \in audited}) < burst}}

\* The first n picks of a cycle: each is adopted from the cache, audited, marked as
\* failed, or left pending for want of tokens.  An audit may change its domain's standing.
Process(picks, n, burst) ==
    \E cached \in SUBSET ToSet(picks) :
    \E failed \in SUBSET (IF CanSpend THEN ToSet(picks) \ cached ELSE {}) :
        LET audited == IF CanSpend THEN ToSet(picks) \ (cached \union failed) ELSE {}
            reached == Reached(picks, n, burst, audited)
        IN  /\ pending' = pending \ (reached \intersect (cached \union failed \union audited))
            /\ \E changed \in SUBSET {DomainOf[i] : i \in reached \intersect audited} :
                   restricted' = (restricted \ changed) \union (changed \ restricted)

Cycle(setting) ==
    /\ pending # {}
    /\ \E picks \in {Selected(setting)} : Process(picks, Len(picks), setting[1])
    /\ UNCHANGED headroom

\* An exception outside the audit's own handler, a cancellation or a crash.
CycleCutShort(setting) ==
    /\ \E picks \in {Selected(setting)} :
           \E n \in 1..(Len(picks) - 1) : Process(picks, n, setting[1])
    /\ UNCHANGED headroom

SameTier(i, j) == TierOf[i] = TierOf[j] /\ (i \in Sentinels <=> j \in Sentinels)

\* A feed sync inserts an item, behind those of its tier that were discovered before it.
Discover(i) ==
    /\ i \notin pending /\ \A j \in pending : SameTier(i, j) => j < i
    /\ pending' = pending \union {i}
    /\ UNCHANGED <<restricted, headroom>>

\* Tokens are spent elsewhere and leave the window.
HeadroomChanges ==
    /\ headroom' \in Headrooms \ {headroom}
    /\ UNCHANGED <<pending, restricted>>

Next ==
    \/ \E setting \in Settings : Cycle(setting) \/ CycleCutShort(setting)
    \/ \E i \in Items : Discover(i)
    \/ HeadroomChanges

\* The daemon runs a cycle every idle interval for as long as the node is up.
Spec == Init /\ [][Next]_vars /\ WF_vars(Cycle(Daemon))

-----------------------------------------------------------------------------
TypeOK ==
    /\ pending \subseteq Items
    /\ restricted \subseteq Domains /\ headroom \in Headrooms

\* "Organic soil floor" (sentinel.py:52): sentinel items get more than half of the
\* clean budget only when no organic item of the window is left out.
OrganicFloor ==
    \A setting \in Settings : \A picks \in {CleanPicks(setting)} :
        (\E i \in Window(setting) : IsOrganic(i) /\ i \notin ToSet(picks))
            => 2 * Cardinality({k \in DOMAIN picks : IsSentinel(picks[k])}) <= CleanBudget(setting)

\* While tokens stay ample every pending item is taken from the queue, whatever standing its
\* domain has, whatever its place and however the items before it came and went, once no more
\* are discovered.
NoMoreDiscovered == <>[][\A i \in Items : ~Discover(i)]_vars
AmpleHeadroomDrains ==
    <>[](CanSpend /\ headroom.pct = "ample") /\ NoMoreDiscovered
        => \A i \in Items : i \in pending ~> i \notin pending

-----------------------------------------------------------------------------
(* What the documents say and the code does not keep.                      *)

\* "prioritized FIFO pending queue digestion" (CHANGELOG.md:418): a pending item is digested
\* while tokens stay ample, whatever is discovered after it.  Sentinel items and those of a
\* lower tier pass it in the SELECT (boredom.py:179-183), for as long as they keep coming.
AmpleHeadroomDigests ==
    <>[](CanSpend /\ headroom.pct = "ample") => \A i \in Items : i \in pending ~> i \notin pending

\* "Guaranteed Organic Soil Floor (>= 50%)" (sentinel.py:52): sentinel items get more than half
\* of the clean budget only when no organic item that is pending is left out.  The floor is of
\* the window, and the SELECT fills the window with sentinel items first.
OrganicFloorOfQueue ==
    \A setting \in Settings : \A picks \in {CleanPicks(setting)} :
        (\E i \in pending : IsOrganic(i) /\ i \notin ToSet(picks))
            => 2 * Cardinality({k \in DOMAIN picks : IsSentinel(picks[k])}) <= CleanBudget(setting)

\* "When the node gets bored (idling with healthy token headroom >= 30%), it
\* opportunistically digests pending feed queues" (boredom.py:3-4): a pending item of a
\* domain in standing is digested while the headroom stays at 30% or more.
DigestsAboveFloor ==
    <>[]CanSpend /\ NoMoreDiscovered => \A i \in Items : i \in pending /\ ~IsRestricted(i)
                                         ~> i \notin pending \/ IsRestricted(i)

\* "ensuring organic soil floor" (boredom.py:207), of 50% (sentinel.py:28): at least half
\* of what a cycle selects is organic when the window has organic items to spare.
OrganicHalfOfCycle ==
    \A setting \in Settings :
        LET picks == Selected(setting)
        IN  (\E i \in Window(setting) : IsOrganic(i) /\ i \notin ToSet(picks))
                => 2 * Cardinality({k \in DOMAIN picks : IsSentinel(picks[k])}) <= Len(picks)
=============================================================================
