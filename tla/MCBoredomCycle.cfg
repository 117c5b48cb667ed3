SPECIFICATION MCSpec
CHECK_DEADLOCK FALSE
CONSTANTS
    ItemCount = 5
    Sentinels <- MCSentinels
    TierOf <- MCTierOf
    DomainOf <- MCDomainOf
    Settings <- MCSettings
    Daemon <- MCDaemon
    Tasks = {"boot", "api"}
    Boot = "boot"
    Feeds <- MCFeeds
    Targets <- MCTargets
    Naming <- MCNaming
    Presets <- MCPresets
    EnvTargets <- MCEnvTargets
    Ceiling = 1
    MaxAdded = 1
    MaxCalls = 3
    Reports <- MCReports
    Entropies = {200, 500, 900}
    Ages <- MCAges
    Undated = 9999
    MaxSample = 5
    Homepages <- MCPages
    Articles = {"u1", "u2", "u3"}
    NoElement = "none"
    Catalogs <- MCCatalogs
    Phrases = {"bee suit"}
    Inherit <- MCInherit
    Sessions = {"daemon", "api"}
    Soil <- MCSoil
    Sites = {"bees", "wire", "mail", "shop"}
    Excluded = {"shop"}
    Served <- MCServed
    FeedSite <- MCFeedSite
    Answers <- MCAnswers
    TextOf <- MCTextOf
    Known = {}
    Wanted <- MCWanted
    Least = {1}
    DryRuns = {TRUE, FALSE}
    NoFeed = "none"
    Visits = {v1, v2}
    Documents <- MCDocuments
    Substantive = 2
    MaxBrowsers = 1
    MaxVisits = 2
    MaxKills = 1
INVARIANTS
    OrganicFloor
    SentinelsBounded
    CleanIsBest
PROPERTIES
    AmpleHeadroomDrains
    CapturesEnd
