----------------------------- MODULE PeerTracker -----------------------------
(***************************************************************************)
(* Who gets connected for which torrent: PeerTracker and the handlers of   *)
(* BitTorrentManager that feed it and carry out its commands, over         *)
(* PeerService and the subscriptions of the epoll thread.                  *)
(*                                                                         *)
(* A handler of BitTorrentManager is one step, and so is one turn of the   *)
(* epoll thread on one request or one socket.  Requests to the epoll thread*)
(* and its events are kept per peer, in order: what is about different     *)
(* peers may overtake.  Sockets have numbers of their own; PeerFd compares *)
(* by peer, so pending is a set of peers.  Left out: the contents of       *)
(* messages, the timestamps and the two counters that are only displayed   *)
(* (PeersInfo::connected and the inactive peers).  hasConnectedBefore is   *)
(* true in just the entries that are CONNECTED.                            *)
(***************************************************************************)
EXTENDS Naturals, Sequences, FiniteSets

CONSTANTS Peers, Torrents,
          NoTorrent,
          MaxConnectedPeers, MaxPeersPerTorrent,
          MaxAnnounces,   \* bound on announces
          MaxFaults       \* bound on stops and removals, on hang-ups, bad messages
                          \* and failed writes, and on peers that are dropped

U16 == 65536          \* the numbers of a uint16_t are below

ASSUME PeersAssumption == IsFiniteSet(Peers)
ASSUME TorrentsAssumption == NoTorrent \notin Torrents
ASSUME LimitsAssumption == /\ MaxConnectedPeers \in 1 .. U16 - 1
                           /\ MaxPeersPerTorrent \in 1 .. U16 - 1
ASSUME BoundsAssumption == MaxAnnounces \in Nat /\ MaxFaults \in Nat

VARIABLES
    \* PeerTracker: peerMap (state and torrent of an entry), peersInfoMap
    \* (its keys and their active peers), activeTorrents, currConnectedPeers
    connState, peerTorrent, tracked, activePeers, activeTorrents, currConnectedPeers,
    \* BitTorrentManager
    torrents, complete, connections, toAnnounce,
    \* PeerService
    peerFds, lastFd,
    \* the queues to and from the epoll thread, and what it has subscribed
    toEpoll, events, subscribed, pending,
    \* history: the peers that were announced, those that were again, and those
    \* whose connect has failed
    announced, again, refused,
    \* bounds
    announces, faults

trackerVars == <<connState, peerTorrent, tracked, activePeers, activeTorrents, currConnectedPeers>>
managerVars == <<torrents, complete, connections, toAnnounce>>
serviceVars == <<peerFds, lastFd>>
epollVars == <<subscribed, pending>>
historyVars == <<announced, again>>
vars == <<trackerVars, managerVars, serviceVars, toEpoll, events, epollVars, historyVars, refused,
          announces, faults>>

NoFd == 0

Init == /\ connState = [p \in Peers |-> "ABSENT"] /\ peerTorrent = [p \in Peers |-> NoTorrent]
        /\ tracked = {} /\ activePeers = [t \in Torrents |-> {}]
        /\ activeTorrents = {} /\ currConnectedPeers = 0
        /\ torrents = {} /\ complete = {} /\ toAnnounce = {}
        /\ connections = [p \in Peers |-> NoTorrent]
        /\ peerFds = [p \in Peers |-> NoFd] /\ lastFd = [p \in Peers |-> NoFd]
        /\ toEpoll = [p \in Peers |-> <<>>] /\ events = [p \in Peers |-> <<>>]
        /\ subscribed = {} /\ pending = {}
        /\ announced = {} /\ again = {} /\ refused = {} /\ announces = 0 /\ faults = 0

------------------------------------------------------------------------------
(* PeerTracker::makeCommand, and handlePeerCommands on its commands.  The  *)
(* torrents of peersInfoMap are served in any order, each until it or the  *)
(* client is at its limit or no peer is left, with any peer that is not    *)
(* connected.                                                              *)

(* findNotConnectedPeer, which does not look at the torrent of the peer *)
NotConnected(state) == {p \in Peers : state[p] = "NOT_CONNECTED"}

(* How many peers a torrent has after the picks in pick. *)
Load(active, pick, t) == Cardinality(active[t]) + Cardinality({p \in DOMAIN pick : pick[p] = t})

HasRoomOffByOne(count) == count <= MaxConnectedPeers + 1    \* mutant: <= for <
HasRoom(count) == count <= MaxConnectedPeers

(* The assignments of peers to torrents that the loops can come to. *)
Picks(free, keys, active, count) ==
    {pick \in UNION {[S -> keys] : S \in SUBSET free} :
        LET chosen == DOMAIN pick
            served == {pick[p] : p \in chosen}
            short == {t \in keys : Load(active, pick, t) < MaxPeersPerTorrent}
        IN /\ chosen # {} => HasRoom(count + Cardinality(chosen))
           /\ \A t \in served : Load(active, pick, t) <= MaxPeersPerTorrent
           /\ Cardinality(served \cap short) <= 1
           /\ short # {} => chosen = free \/ ~HasRoom(count + Cardinality(chosen) + 1)}

(* requestAnnounce, for a torrent that was given no peer *)
AnnounceUnchecked(keys, active, pick) ==     \* mutant: activeTorrents is not asked
    {t \in keys : /\ \A p \in DOMAIN pick : pick[p] # t
                  /\ Cardinality(active[t]) < MaxPeersPerTorrent}
AnnounceRequests(keys, active, pick) ==
    {t \in keys \cap activeTorrents : /\ \A p \in DOMAIN pick : pick[p] # t
                                      /\ Cardinality(active[t]) < MaxPeersPerTorrent}

(* The commands for the picked peers, of which those in ok get connected,  *)
(* given these entries, active peers, count, connections, sockets and      *)
(* requests to the epoll thread.  A connect that fails is not reported     *)
(* back to the tracker.  A connect for a torrent without PieceStateManager *)
(* reads past the end of pieceMan; here it goes on with the torrent asked  *)
(* for.                                                                    *)
HandlePeerCommands(pick, ok, state, active, count, conns, fds, requests) ==
    LET tried == DOMAIN pick IN
    /\ connState' = [p \in Peers |-> IF p \in tried THEN "CONNECTING" ELSE state[p]]
    /\ currConnectedPeers' = (count + Cardinality(tried)) % U16
    /\ activePeers' = [t \in Torrents |-> active[t] \cup {p \in tried : pick[p] = t}]
    /\ connections' = [p \in Peers |-> IF p \in ok THEN pick[p] ELSE conns[p]]
    /\ lastFd' = [p \in Peers |-> IF p \in ok THEN lastFd[p] + 1 ELSE lastFd[p]]
    /\ peerFds' = [p \in Peers |-> IF p \in ok THEN lastFd[p] + 1
                                   ELSE IF p \in tried THEN NoFd ELSE fds[p]]
    /\ toEpoll' = [p \in Peers |-> IF p \in ok
                     THEN Append(requests[p], [op |-> "Subscribe", fd |-> lastFd[p] + 1])
                     ELSE requests[p]]
    /\ refused' = refused \cup (tried \ ok)

(* The whole of it, on a tracker with these entries, keys, active peers    *)
(* and count, and the announces asked for.                                 *)
MakeCommand(state, keys, active, count, conns, fds, requests, asked) ==
    \E pick \in Picks(NotConnected(state), keys, active, count) :
        /\ \E ok \in SUBSET DOMAIN pick :
              HandlePeerCommands(pick, ok, state, active, count, conns, fds, requests)
        /\ toAnnounce' = asked \cup AnnounceRequests(keys, active, pick)

(* What is left alone by a handler that makes no commands. *)
NoCommand == UNCHANGED <<toAnnounce, lastFd, refused>>

(* PeerService::disconnectClient, for each of some peers *)
Unsubscribing(gone) ==
    [p \in Peers |-> IF p \in gone /\ peerFds[p] # NoFd
                     THEN Append(toEpoll[p], [op |-> "UnSubscribe", fd |-> peerFds[p]])
                     ELSE toEpoll[p]]

------------------------------------------------------------------------------
(* BitTorrentManager: messages of the app.  The announce that a started or *)
(* resumed torrent asks for comes after its pieces and trackers are loaded.*)

StartTorrent(t) ==
    /\ t \notin torrents
    /\ torrents' = torrents \cup {t}
    /\ activeTorrents' = activeTorrents \cup {t}
    /\ tracked' = tracked \cup {t}
    /\ toAnnounce' = toAnnounce \cup {t}
    /\ UNCHANGED <<connState, peerTorrent, activePeers, currConnectedPeers, complete, connections,
                   serviceVars, toEpoll, events, epollVars, historyVars, refused, announces,
                   faults>>

ResumeTorrent(t) ==
    /\ t \in torrents \ (complete \cup activeTorrents)
    /\ activeTorrents' = activeTorrents \cup {t}
    /\ tracked' = tracked \cup {t}
    /\ toAnnounce' = toAnnounce \cup {t}
    /\ UNCHANGED <<connState, peerTorrent, activePeers, currConnectedPeers, torrents, complete,
                   connections, serviceVars, toEpoll, events, epollVars, historyVars, refused,
                   announces,
                   faults>>

(* PeerTracker::deactivateTorrent and the DISCONNECT commands it returns.  *)
(* activePeers keeps the peers until they are reported gone.               *)
Deactivate(t, leavers) ==
    /\ activeTorrents' = activeTorrents \ {t}
    /\ tracked' = tracked \cup {t}
    /\ toEpoll' = Unsubscribing(leavers)
    /\ UNCHANGED <<connState, peerTorrent, activePeers, currConnectedPeers, serviceVars, events,
                   epollVars, toAnnounce, historyVars, refused, announces>>

StopTorrent(t) ==
    /\ t \in activeTorrents /\ faults < MaxFaults
    /\ faults' = faults + 1
    /\ Deactivate(t, activePeers[t])
    /\ UNCHANGED <<torrents, complete, connections>>

(* peerCompletedTorrent: the peer of the last piece is disconnected twice. *)
CompleteTorrent(p) ==
    LET t == connections[p]  once == Unsubscribing(activePeers[t]) IN
    /\ t \in torrents \ complete
    /\ complete' = complete \cup {t}
    /\ activeTorrents' = activeTorrents \ {t}
    /\ tracked' = tracked \cup {t}
    /\ toEpoll' = IF peerFds[p] = NoFd THEN once
                  ELSE [once EXCEPT ![p] = Append(@, [op |-> "UnSubscribe", fd |-> peerFds[p]])]
    /\ UNCHANGED <<connState, peerTorrent, activePeers, currConnectedPeers, torrents, connections,
                   toAnnounce, serviceVars, events, epollVars, historyVars, refused, announces,
                   faults>>

RemoveTorrent(t) ==
    /\ t \in torrents /\ faults < MaxFaults
    /\ faults' = faults + 1
    /\ Deactivate(t, activePeers[t])
    /\ torrents' = torrents \ {t}
    /\ complete' = complete \ {t}
    /\ connections' = [p \in Peers |-> IF connections[p] = t THEN NoTorrent ELSE connections[p]]

(* disconnectPeer, on a peer that has nothing to offer or sent bad data *)
DropPeer(p) ==
    /\ connections[p] # NoTorrent /\ faults < MaxFaults
    /\ faults' = faults + 1
    /\ toEpoll' = Unsubscribing({p})
    /\ UNCHANGED <<trackerVars, managerVars, serviceVars, events, epollVars, historyVars,
                   refused, announces>>

(* process(Announce), PeerTracker::onAnnounce *)
Announce(t, found) ==
    LET new == {p \in found : connState[p] = "ABSENT"}
        state == [p \in Peers |-> IF p \in new THEN "NOT_CONNECTED" ELSE connState[p]]
    IN /\ t \in toAnnounce /\ announces < MaxAnnounces
       /\ peerTorrent' = [p \in Peers |-> IF p \in new THEN t ELSE peerTorrent[p]]
       /\ tracked' = tracked \cup {t}
       /\ MakeCommand(state, tracked', activePeers, currConnectedPeers, connections, peerFds,
                      toEpoll, toAnnounce \ {t})
       /\ announced' = announced \cup found
       /\ again' = again \cup (announced \cap found)
       /\ announces' = announces + 1
       /\ UNCHANGED <<activeTorrents, torrents, complete, events, epollVars, faults>>

------------------------------------------------------------------------------
(* BitTorrentManager: what PeerService::read makes of the epoll thread's   *)
(* events.                                                                 *)

NextEvent(p, kinds) == events[p] # <<>> /\ Head(events[p]) \in kinds

(* process(ConnectionEstablished), PeerTracker::onPeerConnect *)
Established(p) ==
    /\ NextEvent(p, {"Accepted"})
    /\ events' = [events EXCEPT ![p] = Tail(@)]
    /\ \/ /\ connections[p] = NoTorrent
          /\ UNCHANGED <<connState, activePeers, currConnectedPeers, connections, peerFds,
                         toEpoll>>
          /\ NoCommand
       \/ /\ connections[p] # NoTorrent /\ peerTorrent[p] \in activeTorrents
          /\ MakeCommand([connState EXCEPT ![p] = "CONNECTED"], tracked, activePeers,
                         currConnectedPeers, connections, peerFds, toEpoll, toAnnounce)
       \/ /\ connections[p] # NoTorrent /\ peerTorrent[p] \notin activeTorrents
          /\ connState' = [connState EXCEPT ![p] = "CONNECTED"]
          /\ UNCHANGED <<activePeers, currConnectedPeers, connections, peerFds, toEpoll>>
          /\ NoCommand
    /\ UNCHANGED <<peerTorrent, tracked, activeTorrents, torrents, complete, epollVars,
                   historyVars,
                   announces, faults>>

(* PeerService's part of a disconnection.  An error of a write or of a     *)
(* subscription asks the epoll thread to close, which will report back     *)
(* once more; bad data leave the socket as it is.                          *)
FdsAfter(p) == IF Head(events[p]) = "Closed" THEN [peerFds EXCEPT ![p] = NoFd] ELSE peerFds
RequestsAfter(p) == IF Head(events[p]) \in {"WriteFailed", "CtlError"} THEN Unsubscribing({p})
                    ELSE toEpoll

(* connections.erase(peer), peerMap.erase(peer) and --currConnectedPeers,  *)
(* a uint16_t                                                              *)
KeepConnection(p) == connections            \* mutant
EraseConnection(p) == [connections EXCEPT ![p] = NoTorrent]
ErasePeer(p) == [connState EXCEPT ![p] = "ABSENT"]
CountKept == currConnectedPeers             \* mutant
CountDown == (currConnectedPeers + U16 - 1) % U16

(* process(ConnectionDisconnected), PeerTracker::onPeerDisconnect.  The    *)
(* last test of onPeerDisconnect reads the entry it has just erased: it    *)
(* gets the torrent that was there or some other bytes.                    *)
Disconnected(p) ==
    LET t == peerTorrent[p]
        conns == EraseConnection(p)
        state == ErasePeer(p)
        active == [activePeers EXCEPT ![t] = @ \ {p}]
        count == CountDown
    IN /\ NextEvent(p, {"Closed", "WriteFailed", "CtlError", "Garbage"})
       /\ events' = [events EXCEPT ![p] = Tail(@)]
       /\ \/ /\ connState[p] = "ABSENT"
             /\ connections' = conns /\ peerFds' = FdsAfter(p) /\ toEpoll' = RequestsAfter(p)
             /\ UNCHANGED <<connState, peerTorrent, activePeers, currConnectedPeers>>
             /\ NoCommand
          \/ /\ connState[p] # "ABSENT"
             /\ peerTorrent' = [peerTorrent EXCEPT ![p] = NoTorrent]
             /\ \/ /\ t \in activeTorrents
                   /\ MakeCommand(state, tracked, active, count, conns, FdsAfter(p),
                                  RequestsAfter(p), toAnnounce)
                \/ /\ connState' = state /\ activePeers' = active /\ currConnectedPeers' = count
                   /\ connections' = conns /\ peerFds' = FdsAfter(p) /\ toEpoll' = RequestsAfter(p)
                   /\ NoCommand
       /\ UNCHANGED <<tracked, activeTorrents, torrents, complete, epollVars, historyVars,
                      announces,
                      faults>>

------------------------------------------------------------------------------
(* The epoll thread. *)

EpollSubscribes(p) ==
    /\ toEpoll[p] # <<>> /\ Head(toEpoll[p]).op = "Subscribe"
    /\ toEpoll' = [toEpoll EXCEPT ![p] = Tail(@)]
    /\ subscribed' = subscribed \cup {<<p, Head(toEpoll[p]).fd>>}
    /\ pending' = pending \cup {p}
    /\ UNCHANGED <<trackerVars, managerVars, serviceVars, events, historyVars, refused,
                   announces, faults>>

(* A socket that is not subscribed any more gives an error and, like any   *)
(* other, a close event.                                                   *)
EpollUnsubscribes(p) ==
    LET s == <<p, Head(toEpoll[p]).fd>> IN
    /\ toEpoll[p] # <<>> /\ Head(toEpoll[p]).op = "UnSubscribe"
    /\ toEpoll' = [toEpoll EXCEPT ![p] = Tail(@)]
    /\ events' = [events EXCEPT ![p] = @ \o IF s \in subscribed THEN <<"Closed">>
                                            ELSE <<"CtlError", "Closed">>]
    /\ subscribed' = subscribed \ {s} /\ pending' = pending \ {p}
    /\ UNCHANGED <<trackerVars, managerVars, serviceVars, historyVars, refused, announces,
                   faults>>

EpollAccepts(s) ==
    /\ s \in subscribed /\ s[1] \in pending
    /\ pending' = pending \ {s[1]}
    /\ events' = [events EXCEPT ![s[1]] = Append(@, "Accepted")]
    /\ UNCHANGED <<trackerVars, managerVars, serviceVars, toEpoll, subscribed, historyVars,
                   refused, announces,
                   faults>>

(* The peer hangs up, or the connection fails. *)

EpollCloses(s) ==
    /\ s \in subscribed /\ faults < MaxFaults
    /\ subscribed' = subscribed \ {s} /\ pending' = pending \ {s[1]}
    /\ events' = [events EXCEPT ![s[1]] = Append(@, "Closed")]
    /\ faults' = faults + 1
    /\ UNCHANGED <<trackerVars, managerVars, serviceVars, toEpoll, historyVars, refused,
                   announces>>

(* A message that does not parse, and a write that fails, which is not     *)
(* before the peer is accepted.                                            *)
EpollTrouble(s, kind) ==
    /\ s \in subscribed /\ faults < MaxFaults
    /\ kind = "WriteFailed" => s[1] \notin pending
    /\ events' = [events EXCEPT ![s[1]] = Append(@, kind)]
    /\ faults' = faults + 1
    /\ UNCHANGED <<trackerVars, managerVars, serviceVars, toEpoll, epollVars, historyVars,
                   refused, announces>>

------------------------------------------------------------------------------
AppStep(t) == StartTorrent(t) \/ ResumeTorrent(t) \/ StopTorrent(t) \/ RemoveTorrent(t)
ManagerStep(p) == CompleteTorrent(p) \/ DropPeer(p) \/ Established(p) \/ Disconnected(p)
EpollStep == \/ \E p \in Peers : EpollSubscribes(p) \/ EpollUnsubscribes(p)
             \/ \E s \in subscribed : EpollAccepts(s) \/ EpollCloses(s)
             \/ \E s \in subscribed, kind \in {"Garbage", "WriteFailed"} : EpollTrouble(s, kind)

Next == \/ \E t \in Torrents : AppStep(t) \/ \E found \in SUBSET Peers : Announce(t, found)
        \/ \E p \in Peers : ManagerStep(p)
        \/ EpollStep

Spec == Init /\ [][Next]_vars

------------------------------------------------------------------------------
(* Properties. *)

Sockets == Peers \X (Nat \ {NoFd})

(* Types; active torrents are in peersInfoMap, pending peers subscribed.   *)
TypeOK == /\ connState \in [Peers -> {"ABSENT", "NOT_CONNECTED", "CONNECTING", "CONNECTED"}]
          /\ peerTorrent \in [Peers -> Torrents \cup {NoTorrent}]
          /\ tracked \subseteq Torrents /\ activePeers \in [Torrents -> SUBSET Peers]
          /\ activeTorrents \subseteq tracked /\ currConnectedPeers \in 0 .. U16 - 1
          /\ torrents \subseteq Torrents /\ complete \subseteq torrents
          /\ connections \in [Peers -> Torrents \cup {NoTorrent}]
          /\ toAnnounce \subseteq Torrents
          /\ peerFds \in [Peers -> Nat] /\ lastFd \in [Peers -> Nat]
          /\ toEpoll \in [Peers -> Seq([op : {"Subscribe", "UnSubscribe"}, fd : Nat])]
          /\ events \in [Peers -> Seq({"Accepted", "Closed", "CtlError", "WriteFailed", "Garbage"})]
          /\ subscribed \subseteq Sockets /\ pending \subseteq {s[1] : s \in subscribed}
          /\ announced \subseteq Peers /\ again \subseteq announced /\ refused \subseteq Peers
          /\ announces \in Nat /\ faults \in Nat

Busy == {p \in Peers : connState[p] \in {"CONNECTING", "CONNECTED"}}
Connected == {p \in Peers : connections[p] # NoTorrent}
ConnectedTo(t) == {p \in Peers : connections[p] = t}
OnTheWay(p) == toEpoll[p] # <<>> \/ events[p] # <<>>

(* currConnectedPeers is the number of peers that are connected or being   *)
(* connected, through reports of a disconnection that come twice or late:  *)
(* it neither drifts nor goes below zero, until a peer is announced again. *)
(* No slot is lost for good: a peer that takes one has a connection, or a  *)
(* request or an event that will end it is on its way, unless its connect  *)
(* has failed.                                                             *)
Bookkeeping == /\ TypeOK
               /\ again = {} => currConnectedPeers = Cardinality(Busy)
               /\ \A p \in Busy \ refused : p \in Connected \/ OnTheWay(p)

(* No torrent has more connections than maxPeersPerTorrent, even when late *)
(* close events of an earlier connection of a peer hit its next one, and   *)
(* all of them have no more than maxConnectedPeers, whatever the           *)
(* interleaving of announces, connects and disconnects, until a peer is    *)
(* announced again.                                                        *)
Limits == /\ \A t \in Torrents : Cardinality(ConnectedTo(t)) <= MaxPeersPerTorrent
          /\ again = {} => Cardinality(Connected) <= MaxConnectedPeers

(* The tracker knows every connection under the torrent it is used for:    *)
(* stopping a torrent asks all its peers to go, and a connection that is   *)
(* established has its entry in peerMap.                                   *)
ConnectionsAreTracked ==
    \A p \in Connected : p \in Busy /\ p \in activePeers[connections[p]]

(* The assertion of handlePeerCommands: an announce is only asked for a    *)
(* torrent that BitTorrentManager has.                                     *)
AnnouncesKnown == [][toAnnounce' \ toAnnounce \subseteq torrents']_vars
==============================================================================
