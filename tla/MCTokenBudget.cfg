SPECIFICATION MCSpec
CONSTANTS
    Audits = {a1, a2}
    Pinned = {a1}
    HourlyMax = 4
    DailyMax = 7
    Budget = 5
    Price = 1
    Est = 2
    Responses = {0, 1}
    MaxResponse = 1
    Overrides <- MCOverrides
    Ceiling = 5
    EnableBreaker = TRUE
    Environments <- MCEnvironments
    Usages <- MCUsages
    Budgets = {40}
    HourlyLimits = {500000}
    Estimates = {1000, 13800}
    Loads <- MCLoads
    Processes = {"server", "cli"}
    TableOrder <- MCTableOrder
    Needed <- MCNeeded
    MaxLocks = 1
    MaxCrashes = 1
INVARIANTS
    OvershootBounded
    OfflineIsOffline
    AdviceSettles
PROPERTY
    BrakeQuiesces
    SchemaConverges
