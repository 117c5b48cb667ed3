------------------------------ MODULE MeshRelay -------------------------------
(***************************************************************************)
(* The gossip of signed attestations between mesh nodes                    *)
(* (MeshGossipRelay of credence/mesh/relay.py): each node keeps a          *)
(* connection to every seed it is configured with and serves those who     *)
(* connect to it; an attestation is announced to all peers with a number   *)
(* of hops, and every node that accepts it announces it anew.              *)
(*                                                                         *)
(* A link is a seed of a node: <<client, server>>.  Envelopes on a link    *)
(* arrive in order until it closes, and those on their way are lost with   *)
(* it.  Nodes are honest, so signatures verify.  The hello message, which  *)
(* only fills the list of peers that is displayed, is left out.            *)
(***************************************************************************)
EXTENDS Integers, Sequences, FiniteSets, FiniteSetsExt, SequencesExt

CONSTANTS
    Relays,         \* one for each node
    Links,          \* <<client, server>>: the client has the server as a seed
    Attestations,
    Origin,         \* the node that audits each attestation's page
    Grounded,       \* attestations with at least half of their citations grounded
    Ttl,            \* gossip_ttl of a new announcement
    Capacity,       \* of the deduplicator
    MinPeers,       \* the capacity for peers moves between these two
    MaxPeers,
    MaxFaults       \* bound on the links that fail and nodes that restart

ASSUME MeshAssumption ==
    /\ IsFiniteSet(Relays) /\ Links \subseteq (Relays \X Relays) /\ \A l \in Links : l[1] # l[2]
    /\ Origin \in [Attestations -> Relays] /\ Grounded \subseteq Attestations
    /\ Ttl \in Nat /\ Capacity \in Nat \ {0} /\ MaxFaults \in Nat
    /\ MinPeers \in Nat /\ MaxPeers \in Nat /\ MinPeers <= MaxPeers

VARIABLES
    socket,     \* whether each link has an open WebSocket
    client,     \* the client's entry in its peers: none, for the open socket, for a closed one
    server,     \* whether the server has an entry for the link
    wire,       \* the envelopes on a link on their way to one of its ends
    seen,       \* the message ids each node's deduplicator remembers, oldest first
    minted,     \* message ids each node has made
    sent,       \* whether each attestation was announced, and to a whole mesh
    accepted,   \* history: how often each node accepted each attestation
    lost,       \* history: a link failed, or a message was dropped
    faults      \* failures so far

meshVars == <<socket, client, server, wire, seen, minted, sent, accepted, lost, faults>>

\* A way is a link and the end an envelope is on its way to.
Ways == {w \in Links \X Relays : w[2] \in {w[1][1], w[1][2]}}
Sender(w) == IF w[2] = w[1][1] THEN w[1][2] ELSE w[1][1]

MeshInit ==
    /\ socket = [l \in Links |-> FALSE]
    /\ client = [l \in Links |-> "none"]
    /\ server = [l \in Links |-> FALSE]
    /\ wire = [w \in Ways |-> <<>>]
    /\ seen = [n \in Relays |-> <<>>]
    /\ minted = [n \in Relays |-> 0]
    /\ sent = [a \in Attestations |-> "no"]
    /\ accepted = [n \in Relays |-> [a \in Attestations |-> 0]]
    /\ lost = FALSE /\ faults = 0

Inbound(n) == {l \in Links : l[2] = n /\ server[l]}
Outbound(n) == {l \in Links : l[1] = n /\ client[l] # "none"}

\* The end n of the link has an entry for its open socket.
Attached(l, n) == socket[l] /\ IF n = l[1] THEN client[l] = "live" ELSE server[l]

Whole == \A l \in Links : Attached(l, l[1]) /\ Attached(l, l[2])

Gossip == <<seen, minted, sent, accepted>>

-----------------------------------------------------------------------------
(* Connections.                                                            *)

\* The client's loop connects when it has no connection.
Connect(l) ==
    /\ ~socket[l] /\ client[l] # "live"
    /\ socket' = [socket EXCEPT ![l] = TRUE]
    /\ UNCHANGED <<client, server, wire, lost, faults>> /\ UNCHANGED Gossip

\* The client enters the peer, in place of the entry of an earlier connection.
Register(l) ==
    /\ socket[l] /\ client[l] # "live"
    /\ client' = [client EXCEPT ![l] = "live"]
    /\ UNCHANGED <<socket, server, wire, lost, faults>> /\ UNCHANGED Gossip

\* The server takes a connection while it has room, counting its own to its seeds.
Admit(l) ==
    /\ socket[l] /\ ~server[l]
    /\ Cardinality(Inbound(l[2])) + Cardinality(Outbound(l[2])) < MaxPeers
    /\ server' = [server EXCEPT ![l] = TRUE]
    /\ UNCHANGED <<socket, client, wire, lost, faults>> /\ UNCHANGED Gossip

\* The socket is closed: the server drops its entry, the client keeps it, and what was on
\* its way is lost.
Close(S) ==
    /\ socket' = [l \in Links |-> socket[l] /\ l \notin S]
    /\ server' = [l \in Links |-> server[l] /\ l \notin S]
    /\ wire' = [w \in Ways |-> IF w[1] \in S THEN <<>> ELSE wire[w]]

\* Without room it closes the socket the client has opened.
Reject(l) ==
    /\ socket[l] /\ ~server[l]
    /\ Cardinality(Inbound(l[2])) + Cardinality(Outbound(l[2])) >= MinPeers
    /\ Close({l})
    /\ client' = [client EXCEPT ![l] = "dead"]
    /\ UNCHANGED <<lost, faults>> /\ UNCHANGED Gossip

\* The client may have entered the peer it loses at once.
LinkFails(l) ==
    /\ socket[l] /\ faults < MaxFaults
    /\ faults' = faults + 1 /\ lost' = TRUE
    /\ Close({l})
    /\ \E entered \in {client[l] # "none", TRUE} :
        client' = [client EXCEPT ![l] = IF entered THEN "dead" ELSE "none"]
    /\ UNCHANGED Gossip

\* A node that stops or crashes forgets its peers and its deduplicator.
Restart(n) ==
    /\ faults < MaxFaults
    /\ faults' = faults + 1 /\ lost' = TRUE
    /\ Close({l \in Links : n \in {l[1], l[2]}})
    /\ client' = [l \in Links |-> IF l[1] = n THEN "none"
                                  ELSE IF l[2] = n /\ client[l] = "live" THEN "dead"
                                  ELSE client[l]]
    /\ seen' = [seen EXCEPT ![n] = <<>>]
    /\ UNCHANGED <<minted, sent, accepted>>

-----------------------------------------------------------------------------
(* Gossip.                                                                 *)

\* The least recently added id makes room for a new one.
Remember(ids, id) ==
    IF Len(ids) < Capacity THEN Append(ids, id) ELSE Append(Tail(ids), id)

\* The envelopes a node puts on the wire for its peers.  The entry of a closed socket gets
\* nothing.
Broadcast(wires, n, envelope, except) ==
    [w \in Ways |-> IF Sender(w) = n /\ Attached(w[1], n) /\ w[1] \notin except
                    THEN Append(wires[w], envelope) ELSE wires[w]]

\* Every announcement is an envelope with an id of its own.
Envelope(n, a, ttl) == [id |-> <<n, minted[n]>>, attestation |-> a, ttl |-> ttl]

\* A node announces the audit it has made.
Announce(n, a) ==
    /\ Origin[a] = n /\ sent[a] = "no"
    /\ sent' = [sent EXCEPT ![a] = IF Whole THEN "whole" ELSE "partly"]
    /\ wire' = Broadcast(wire, n, Envelope(n, a, Ttl), {})
    /\ seen' = [seen EXCEPT ![n] = Remember(@, Envelope(n, a, Ttl).id)]
    /\ minted' = [minted EXCEPT ![n] = @ + 1]
    /\ UNCHANGED <<socket, client, server, accepted, lost, faults>>

\* The next envelope an end of a link reads.
Arrives(w) == Attached(w[1], w[2]) /\ wire[w] # <<>>
Taken(w) == [wire EXCEPT ![w] = Tail(@)]

\* Mutant of IsNew: the deduplicator goes by what is announced.
IsNewAttestation(n, envelope) == accepted[n][envelope.attestation] = 0

IsNew(n, envelope) == envelope.id \notin ToSet(seen[n])

\* More messages than the limit within a second: the envelope is dropped unread.
Throttle(w) ==
    /\ Arrives(w) /\ faults < MaxFaults
    /\ faults' = faults + 1 /\ lost' = TRUE
    /\ wire' = Taken(w)
    /\ UNCHANGED <<socket, client, server>> /\ UNCHANGED Gossip

\* An id comes twice only from a node that is seed and client at once: every rebroadcast
\* has a new one.
Ignore(w) ==
    /\ Arrives(w) /\ ~IsNew(w[2], Head(wire[w]))
    /\ wire' = Taken(w)
    /\ UNCHANGED <<socket, client, server, lost, faults>> /\ UNCHANGED Gossip

\* More than half of the citations are not grounded.
Refuse(w) ==
    LET m == Head(wire[w]) IN
    /\ Arrives(w) /\ IsNew(w[2], m) /\ m.attestation \notin Grounded
    /\ wire' = Taken(w)
    /\ seen' = [seen EXCEPT ![w[2]] = Remember(@, m.id)]
    /\ UNCHANGED <<socket, client, server, minted, sent, accepted, lost, faults>>

\* Mutant of Except: the announcement goes back where it came from.
ExceptNobody(w) == {}

\* The peer an envelope came from is left out of its rebroadcast.
Except(w) == {w[1]}

\* The attestation is accepted and, while it has hops left, announced to the others.
Accept(w) ==
    LET m == Head(wire[w])
        n == w[2]
        again == Envelope(n, m.attestation, m.ttl - 1)
    IN
    /\ Arrives(w) /\ IsNew(n, m) /\ m.attestation \in Grounded
    /\ accepted' = [accepted EXCEPT ![n][m.attestation] = @ + 1]
    /\ IF m.ttl > 0
       THEN /\ wire' = Broadcast(Taken(w), n, again, Except(w))
            /\ seen' = [seen EXCEPT ![n] = Remember(Remember(@, m.id), again.id)]
            /\ minted' = [minted EXCEPT ![n] = @ + 1]
       ELSE /\ wire' = Taken(w)
            /\ seen' = [seen EXCEPT ![n] = Remember(@, m.id)]
            /\ UNCHANGED minted
    /\ UNCHANGED <<socket, client, server, sent, lost, faults>>

-----------------------------------------------------------------------------
Read(w) == Ignore(w) \/ Refuse(w) \/ Accept(w)

MeshNext ==
    \/ \E l \in Links : Connect(l) \/ Register(l) \/ Admit(l) \/ Reject(l) \/ LinkFails(l)
    \/ \E n \in Relays : Restart(n) \/ \E a \in Attestations : Announce(n, a)
    \/ \E w \in Ways : Read(w) \/ Throttle(w)

\* The event loop runs the reader of every open connection.
MeshSpec == MeshInit /\ [][MeshNext]_meshVars /\ \A w \in Ways : WF_meshVars(Read(w))

-----------------------------------------------------------------------------
Envelopes == [id: Relays \X Nat, attestation: Attestations, ttl: 0..Ttl]

MeshTypeOK ==
    /\ socket \in [Links -> BOOLEAN] /\ server \in [Links -> BOOLEAN]
    /\ client \in [Links -> {"none", "live", "dead"}]
    /\ wire \in [Ways -> Seq(Envelopes)]
    /\ seen \in [Relays -> Seq(Relays \X Nat)] /\ \A n \in Relays : Len(seen[n]) <= Capacity
    /\ minted \in [Relays -> Nat] /\ sent \in [Attestations -> {"no", "whole", "partly"}]
    /\ accepted \in [Relays -> [Attestations -> Nat]]
    /\ lost \in BOOLEAN /\ faults \in 0..MaxFaults

SumOf(f, S) == MapThenSumSet(LAMBDA x : f[x], S)

\* A walk never turns back on the link it took last.
Onward(w) == {v \in Ways : Sender(v) = w[2] /\ v[1] # w[1]}

\* The walks of at most k ways that begin with the way w and end at n.
Walks[k \in 0..(Ttl + 1)] ==
    [n \in Relays |-> [w \in Ways |->
        IF k = 0 THEN 0
        ELSE (IF w[2] = n THEN 1 ELSE 0) + SumOf(Walks[k - 1][n], Onward(w))]]

WalksTo(start, n) == SumOf(Walks[Ttl + 1][n], {w \in Ways : Sender(w) = start})

\* What bounds the work of a node is the hop count and the peer left out, not the
\* deduplicator: it accepts an attestation at most once for every walk from its origin,
\* whatever fails, reconnects, is forgotten or arrives twice.
WorkBounded ==
    \A n \in Relays, a \in Attestations : accepted[n][a] <= WalksTo(Origin[a], n)

\* An attestation announced while the whole mesh is connected, of which nothing is lost,
\* is accepted by every node within its hops.
Reaches ==
    [](~lost) => \A a \in Grounded, n \in Relays :
        sent[a] = "whole" /\ WalksTo(Origin[a], n) > 0 ~> accepted[n][a] > 0

-----------------------------------------------------------------------------
\* "LRU message deduplication preventing broadcast storms" (relay.py:7): a node accepts
\* an attestation once.
AcceptedOnce == \A n \in Relays, a \in Attestations : accepted[n][a] <= 1

\* "Return number of active connected peers" (relay.py:425).
CountsActivePeers ==
    \A n \in Relays : Cardinality(Inbound(n)) + Cardinality(Outbound(n)) <=
        Cardinality({l \in Links : socket[l] /\ n \in {l[1], l[2]}})
=============================================================================
