SPECIFICATION Spec
CONSTANTS
    Subjects <- MCSubjects
    NoSubject = "none"
    Reports <- MCReports
    Sessions = {s1, s2}
    NoRow = NoRow
    MaxAudits = 7
SYMMETRY Alike
INVARIANTS
    BandsHeld
    DoctrineHeld
    AuditsCounted
    RateFollows
PROPERTIES
    ImplementsDomain
