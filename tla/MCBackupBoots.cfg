SPECIFICATION Spec
CHECK_DEADLOCK FALSE
CONSTANTS
    Audits = {a1, a2}
    Tasks = {t1}
    Slugs <- Names
    Retain = 2
    Threshold = 1
    Blocking <- BothKinds
    Restores = TRUE
    MaxBackups = 3
    MaxStops = 2
SYMMETRY Alike
PROPERTY
    CloudKeeps
