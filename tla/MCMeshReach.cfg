SPECIFICATION MeshSpec
CHECK_DEADLOCK FALSE
CONSTANTS
    o = o
    x = x
    y = y
    z = z
    sound = sound
    ungrounded = ungrounded
    Relays = {o, x, y, z}
    Links <- TailLinks
    Attestations = {sound, ungrounded}
    Origin <- OriginIsO
    Grounded = {sound}
    Ttl = 1
    Capacity = 2
    MinPeers = 3
    MaxPeers = 3
    MaxFaults = 0
PROPERTY
    Reaches
