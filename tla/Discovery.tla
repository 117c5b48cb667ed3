------------------------------- MODULE Discovery -------------------------------
(***************************************************************************)
(* How a node finds its first peers (credence/mesh/discovery.py, seed.py)  *)
(* and how many it takes (hardware_guard.py, topology.py).  Any of the     *)
(* first three tiers may fail, which is no peers; a signed manifest may be *)
(* expired or of another root.                                             *)
(***************************************************************************)
EXTENDS Integers, Sequences, FiniteSets, SequencesExt

CONSTANTS
    PeerUrls,       \* addresses of peers
    MaxHeard,       \* bound on the entries of a tier
    Manifests,      \* [signed, root, expires, nodes] of seed files that may be fetched
    TrustedRoot,
    StaticSeeds,    \* PEER_SEEDS, in order
    Clock           \* times at which a manifest is read

VARIABLE round      \* the last discovery: what each tier gave and what was found
discoveryVars == <<round>>

NoRound == [found |-> <<>>]
DiscoveryInit == round = NoRound

\* verify_seed_file: the signature is external, [signed, root, expires].
Verified(manifest, now) ==
    /\ manifest.signed
    /\ manifest.root = TrustedRoot
    /\ now <= manifest.expires

SeedFile(manifest, now) ==
    IF Verified(manifest, now) THEN manifest.nodes ELSE <<>>

\* The chain: four entries of the cache, or of it and the beacons, end it, the same peer
\* counted as often as it is heard.
Gathered(cache, beacon, seeds, static) ==
    IF Len(cache) >= 4 THEN cache
    ELSE IF Len(cache \o beacon) >= 4 THEN cache \o beacon
    ELSE cache \o beacon \o seeds \o static

\* _deduplicate keeps the first of each.
Deduplicated(urls) ==
    FoldLeft(LAMBDA kept, u : IF u \in Range(kept) THEN kept ELSE Append(kept, u), <<>>, urls)

\* discover_peers.  A tier that fails is an empty one.
DiscoverPeers ==
    \E cache, beacon \in UNION {[1..n -> PeerUrls] : n \in 0..MaxHeard} :
      \E manifest \in Manifests, now \in Clock :
        round' = [cache |-> cache, beacon |-> beacon, manifest |-> manifest, now |-> now,
                  found |-> Deduplicated(Gathered(cache, beacon,
                                                  SeedFile(manifest, now), StaticSeeds))]

-----------------------------------------------------------------------------
AtMost(a, b) == IF a < b THEN a ELSE b
AtLeast(a, b) == IF a > b THEN a ELSE b

\* compute_max_mesh_peers: the least of the profile's, the files' and the memory's share,
\* but never less than a cluster of known size wants for its degree.
MaxMeshPeers(profile, files, memory, wanted) ==
    LET forFiles == AtLeast(4, (files * 2) \div 5)
        forMemory == IF memory < 1024 THEN 12 ELSE IF memory < 4096 THEN 48 ELSE 256
        bounded == AtMost(profile.cap, AtMost(forFiles, forMemory))
    IN  IF wanted = 0 THEN bounded ELSE AtLeast(bounded, AtLeast(profile.degree, wanted))

\* recommend_cluster_size
ClusterSize(requested, memory, force) ==
    LET target == IF requested = 0 THEN 13 ELSE requested
    IN  IF force THEN target
        ELSE IF memory < 2048 THEN AtMost(target, 3)
        ELSE IF memory < 4096 THEN AtMost(target, 7)
        ELSE target

\* compute_network_mesh_health: n nodes bear f faults with n >= 3 f + 1.
MeshHealth(n) ==
    [faults |-> (n - 1) \div 3,
     mode |-> IF n = 1 THEN "STANDALONE" ELSE IF n < 4 THEN "PEERED" ELSE "FEDERATED"]

-----------------------------------------------------------------------------
\* What the code does not keep: it stops early with four peers only (discovery.py:57, 63).
\* One beacon heard four times ends the chain with one peer.
StopsWithFour ==
    round # NoRound =>
        Len(round.found) >= 4 \/ Range(StaticSeeds) \subseteq Range(round.found)
================================================================================
