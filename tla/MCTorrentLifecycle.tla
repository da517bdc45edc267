------------------------- MODULE MCTorrentLifecycle -------------------------
EXTENDS TorrentLifecycle

CONSTANT t1

OneTorrent == {t1}
OnePiece == {0}
=============================================================================
