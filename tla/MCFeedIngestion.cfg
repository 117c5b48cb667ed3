SPECIFICATION Spec
CONSTANTS
    Urls = {u1, u2}
    Syncs = {sifter, boot}
    Forced = {boot}
    Discovering = {}
    Cycles = {boredom}
    IsSentinel = FALSE
    NoUrl = NoUrl
    MaxVersion = 1
    MaxBoots = 1
SYMMETRY Articles
INVARIANTS
    DuplicatesBounded
    SettledIsBacked
