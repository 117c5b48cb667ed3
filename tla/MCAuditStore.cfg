SPECIFICATION FairSpec
CHECK_DEADLOCK FALSE
CONSTANTS
    Tasks = {"caller", "boot", "sweeper"}
    Kinds <- MCKinds
    Urls = {"p", "q"}
    Contents = {"x", "y"}
    Shows <- MCShows
    Inline = "text://inline"
    Answers <- MCAnswers
    Blank <- MCBlank
    Detected <- MCDetected
    Pack <- MCPack
    Submissions <- MCSubmissions
    Limit = 2
    Burst = 1
    Fixtures = {"text://inline"}
    Site <- MCSite
    Unlisted = "none"
    Satire = {}
    Signed = {"x"}
    MaxRows = 2
    MaxCuts = 1
INVARIANT
    CompleteUnlessCut
    AdoptionsBounded
    SettledItemsHaveAudits
    PackCarriesNewest
    LatestEverywhere
PROPERTY
    SweepsPass
