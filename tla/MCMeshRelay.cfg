SPECIFICATION MeshSpec
CHECK_DEADLOCK FALSE
CONSTANTS
    o = o
    x = x
    y = y
    z = z
    sound = sound
    ungrounded = ungrounded
    Relays = {o, x, y}
    Links <- MutualLinks
    Attestations = {sound}
    Origin <- OriginIsO
    Grounded = {sound}
    Ttl = 2
    Capacity = 2
    MinPeers = 1
    MaxPeers = 3
    MaxFaults = 2
INVARIANTS
    WorkBounded
