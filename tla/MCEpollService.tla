--------------------------- MODULE MCEpollService ---------------------------
(* One peer that is connected to twice. *)
EXTENDS EpollService

CONSTANT p1

OnePeer == {p1}
=============================================================================
