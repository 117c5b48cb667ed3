SPECIFICATION Spec
CHECK_DEADLOCK FALSE
CONSTANTS
    FileOrder <- MCFileOrder
    Book <- MCBook
    Shipped <- MCShipped
    Founding <- MCFounding
    RfcIds = {"RFC-001"}
    Verdicts = {"APPROVE"}
    MaxRules = 2
    MaxEdits = 1
    MaxVotes = 1
    Pages <- MCPages
    Quotes = {"claim", "invented"}
    Cited = {"SPJ-1.1", "SPJ-1.6"}
    Given = {0, 9}
    Confidences = {0, 100}
    Beginnings <- MCPrefixes
    MaxFindings = 1
    Defamatory = {"claim"}
    Ceiling = 25
    MaxAudits = 1
INVARIANT
    IndexServesLoaded
    StaleExact
    OfflineIsHeuristic
    VerdictIsGrounded
