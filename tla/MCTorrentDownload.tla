------------------------- MODULE MCTorrentDownload -------------------------
(* Two peers and two pieces, of two blocks and of one. *)
EXTENDS TorrentDownload, TLC

CONSTANTS p1, p2     \* the peers

TwoPeers == {p1, p2}
TwoPieces == {0, 1}
Sizes == (0 :> 2 @@ 1 :> 1)
Holdings == (p1 :> {0, 1} @@ p2 :> {0})
OneBad == {p2}
OneLoyal == {p1}
Nobody == {}
==============================================================================
