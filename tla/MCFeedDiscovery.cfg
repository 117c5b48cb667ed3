SPECIFICATION FairSpec
CONSTANTS
    Urls = {u1, u2}
    Syncs = {sifter, germination}
    Forced = {}
    Discovering = {germination}
    Cycles = {}
    IsSentinel = FALSE
    NoUrl = NoUrl
    MaxVersion = 2
    MaxBoots = 0
INVARIANT
    NothingHidden
PROPERTY
    ListedIsDiscovered
