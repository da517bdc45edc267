------------------------- MODULE MCQueueCoordinator -------------------------
(* All four waiting services, with a handful of pushes each. *)
EXTENDS QueueCoordinator

AllServices == {"BitTorrentManager", "PersistService", "DiskIOService", "AnnounceService"}
==============================================================================
