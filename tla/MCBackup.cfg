SPECIFICATION Spec
CHECK_DEADLOCK FALSE
CONSTANTS
    Audits = {}
    Tasks = {t1, t2}
    Slugs <- Names
    Retain = 2
    Threshold = 0
    Blocking <- BothKinds
    Restores = FALSE
    MaxBackups = 3
    MaxStops = 1
SYMMETRY Alike
INVARIANT
    ManifestsVerify
PROPERTY
    RestorableKept
