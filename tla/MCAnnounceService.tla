------------------------- MODULE MCAnnounceService -------------------------
(* Two torrents, with trackers of their own or with one in common. *)
EXTENDS AnnounceService, TLC

CONSTANTS t1, t2, u1, u2, u3, p1, p2

TwoTorrents == {t1, t2}
ThreeUrls == {u1, u2, u3}
OneUrl == {u1}
TwoPeers == {p1, p2}
Separate == (t1 :> <<u1, u2>> @@ t2 :> <<u3>>)
Shared == (t1 :> <<u1>> @@ t2 :> <<u1>>)
==============================================================================
