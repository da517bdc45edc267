--------------------------- MODULE MCPeerTracker ---------------------------
(* Two peers and two torrents. *)
EXTENDS PeerTracker, TLC

CONSTANTS p1, p2, t1, t2

TwoPeers == {p1, p2}
TwoTorrents == {t1, t2}
Symmetry == Permutations(TwoPeers) \cup Permutations(TwoTorrents)
==============================================================================
