SPECIFICATION MCSpec
CHECK_DEADLOCK FALSE
CONSTANTS
    Nodes = {"alone", "other", "liar"}
    Subjects = {"apiculture", "apiculture.equipment"}
    ParentOf <- MCParentOf
    Deviations = {0, 1000}
    Quotes <- MCQuotes
    Counts <- MCCounts
    Days = {0, 15}
    MaxEvaluations = 26
    MaxSlashes = 2
    Findings <- MCFindings
    General = "general"
    Reputation <- MCReputation
    Byzantine = {"liar"}
    MaxAttested = 3
    KeyOrder <- MCKeyOrder
    Rows <- MCRows
    LogShare <- MCLogShare
    Decay <- MCDecay
    FeedItems = 3
    Anchors = {1, 2, 3, 4, 5}
    Ballots = {"first", "second"}
    PeerUrls = {"p", "q"}
    MaxHeard = 4
    Manifests <- MCManifests
    TrustedRoot = "root"
    StaticSeeds <- MCStaticSeeds
    Clock = {1, 2}
INVARIANTS
    SlashingLasts
    HonestRange
    GalileoHeard
    MeritFollows
    QuorumsIntersect
PROPERTY
    AgreementNeverCosts
