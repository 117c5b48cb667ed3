----------------------------- MODULE MCMeshRelay ------------------------------
(***************************************************************************)
(* Instances of MeshRelay for TLC: o, x and y are connected in a triangle, *)
(* z to x alone, so that z is reached over x, which itself is reached from *)
(* o directly and over y; or o and x are seeds of each other.              *)
(***************************************************************************)
EXTENDS MeshRelay

CONSTANTS o, x, y, z, sound, ungrounded

TriangleLinks == {<<o, x>>, <<o, y>>, <<x, y>>}
\* Two nodes that are seeds of each other, and a third.
MutualLinks == {<<o, x>>, <<x, o>>, <<x, y>>}

TailLinks == TriangleLinks \cup {<<z, x>>}

OriginIsO == [a \in Attestations |-> o]
=============================================================================
