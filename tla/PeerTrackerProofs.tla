-------------------------- MODULE PeerTrackerProofs --------------------------
(***************************************************************************)
(* The peer tracker keeps its limits and its books, for every number of    *)
(* peers, torrents, announces and faults and for all limits.               *)
(*                                                                         *)
(* makeCommand runs inside three handlers, on a tracker that the handler   *)
(* has already changed.  So the parts of the inductive invariant are       *)
(* operators on the state that makeCommand finds, and one lemma shows that *)
(* it keeps each of them.                                                  *)
(***************************************************************************)
EXTENDS PeerTracker, FiniteSetTheorems, SequenceTheorems, TLAPS

States == {"ABSENT", "NOT_CONNECTED", "CONNECTING", "CONNECTED"}
MaybeTorrent == Torrents \cup {NoTorrent}
Request == [op : {"Subscribe", "UnSubscribe"}, fd : Nat \ {NoFd}]
Event == {"Accepted", "Closed", "CtlError", "WriteFailed", "Garbage"}

(* The types of what makeCommand works on; requests carry sockets. *)
Typed(state, active, count, conns, fds, requests) ==
    /\ state \in [Peers -> States] /\ active \in [Torrents -> SUBSET Peers]
    /\ count \in 0 .. U16 - 1 /\ conns \in [Peers -> MaybeTorrent]
    /\ fds \in [Peers -> Nat] /\ requests \in [Peers -> Seq(Request)]

BusyIn(state) == {p \in Peers : state[p] \in {"CONNECTING", "CONNECTED"}}

(* ConnectionsAreTracked, and a connection has a socket. *)
TrackedIn(state, active, conns, fds) ==
    \A p \in Peers : conns[p] # NoTorrent =>
        /\ p \in BusyIn(state) /\ p \in active[conns[p]] /\ fds[p] # NoFd

(* No torrent has more active peers than it may. *)
RoomIn(active) == \A t \in Torrents : Cardinality(active[t]) <= MaxPeersPerTorrent

(* The count is right, and within its limit. *)
CountIn(state, count) == count = Cardinality(BusyIn(state)) /\ count <= MaxConnectedPeers

(* What is on the way for a peer will end its connection. *)
Ends(requests, evs) == \/ \E k \in 1 .. Len(requests) : requests[k].op = "UnSubscribe"
                       \/ \E k \in 1 .. Len(evs) : evs[k] # "Accepted"

(* A busy peer is connected, or about to be given up, or was refused. *)
EndsIn(state, conns, requests, evs, given) ==
    \A p \in BusyIn(state) \ given : conns[p] # NoTorrent \/ Ends(requests[p], evs[p])

(* Nothing has been done for a peer that was not announced or not tried yet. *)
FreshIn(state, conns, fds, requests, evs, subs, seen) ==
    \A p \in Peers :
        /\ p \notin seen => state[p] = "ABSENT"
        /\ p \notin seen \/ state[p] = "NOT_CONNECTED" =>
              /\ requests[p] = <<>> /\ evs[p] = <<>> /\ fds[p] = NoFd
              /\ conns[p] = NoTorrent /\ \A s \in subs : s[1] # p

------------------------------------------------------------------------------
(* makeCommand. *)

(* Arithmetic of a uint16_t: numbers below U16 are not changed by it. *)
LEMMA Modulus == /\ U16 \in Nat \ {0}
                 /\ \A n \in Nat : n % U16 \in 0 .. U16 - 1
                 /\ \A n \in 0 .. U16 - 1 : n % U16 = n /\ (n + U16) % U16 = n
<1>1. U16 \in Nat \ {0}
  BY DEF U16
<1>2. \A n \in Nat : n % U16 \in 0 .. U16 - 1
  BY <1>1
<1>3. \A n \in 0 .. U16 - 1 : n % U16 = n
  BY <1>1
<1>4. \A n \in 0 .. U16 - 1 : (n + U16) % U16 = n
  BY <1>1
<1>5. QED
  BY <1>1, <1>2, <1>3, <1>4

(* The limits of the client and of each torrent that is given a peer. *)
WithinLimits(tried, pick, keys, active, count) ==
    /\ tried # {} => count + Cardinality(tried) <= MaxConnectedPeers
    /\ \A t \in keys : {p \in tried : pick[p] = t} # {} =>
          Cardinality(active[t]) + Cardinality({p \in tried : pick[p] = t}) <= MaxPeersPerTorrent

(* makeCommand tries peers that are not connected, within the two limits,   *)
(* and asks for announces of active torrents only.                          *)
LEMMA CommandEffect ==
  ASSUME NEW state, NEW keys \in SUBSET Torrents, NEW active, NEW count, NEW conns, NEW fds,
         NEW requests, NEW asked,
         MakeCommand(state, keys, active, count, conns, fds, requests, asked)
  PROVE  /\ toAnnounce' \subseteq asked \cup activeTorrents
         /\ \E tried \in SUBSET NotConnected(state) :
            \E ok \in SUBSET tried, pick \in [tried -> keys] :
              /\ HandlePeerCommands(pick, ok, state, active, count, conns, fds, requests)
              /\ WithinLimits(tried, pick, keys, active, count)
<1>0. PICK pick \in Picks(NotConnected(state), keys, active, count) :
        /\ \E ok \in SUBSET DOMAIN pick :
              HandlePeerCommands(pick, ok, state, active, count, conns, fds, requests)
        /\ toAnnounce' = asked \cup AnnounceRequests(keys, active, pick)
  BY DEF MakeCommand
<1>1. PICK ok \in SUBSET DOMAIN pick :
         HandlePeerCommands(pick, ok, state, active, count, conns, fds, requests)
  BY <1>0
<1> DEFINE tried == DOMAIN pick
<1>2. /\ tried \in SUBSET NotConnected(state) /\ pick \in [tried -> keys]
      /\ tried # {} => count + Cardinality(tried) <= MaxConnectedPeers
      /\ \A t \in {pick[p] : p \in tried} : Load(active, pick, t) <= MaxPeersPerTorrent
  <2>1. pick \in UNION {[P -> keys] : P \in SUBSET NotConnected(state)}
    BY DEF Picks
  <2>2. PICK P \in SUBSET NotConnected(state) : pick \in [P -> keys]
    BY <2>1
  <2>3. QED
    BY <2>2 DEF Picks, HasRoom
<1>3. \A t \in keys : {p \in tried : pick[p] = t} # {} =>
                 Cardinality(active[t]) + Cardinality({p \in tried : pick[p] = t})
                    <= MaxPeersPerTorrent
  BY <1>2 DEF Load
<1>4. toAnnounce' \subseteq asked \cup activeTorrents
  BY <1>0 DEF AnnounceRequests
<1>5. WithinLimits(tried, pick, keys, active, count)
  BY <1>2, <1>3 DEF WithinLimits
<1>6. QED
  BY <1>1, <1>2, <1>4, <1>5

(* makeCommand keeps the types and each part of the invariant. *)
LEMMA CommandKeeps ==
  ASSUME NEW state, NEW keys \in SUBSET Torrents, NEW active, NEW count, NEW conns, NEW fds,
         NEW requests, NEW asked \in SUBSET Torrents,
         Typed(state, active, count, conns, fds, requests),
         lastFd \in [Peers -> Nat], refused \subseteq Peers, activeTorrents \subseteq Torrents,
         MakeCommand(state, keys, active, count, conns, fds, requests, asked)
  PROVE  /\ Typed(connState', activePeers', currConnectedPeers', connections', peerFds', toEpoll')
         /\ lastFd' \in [Peers -> Nat] /\ refused' \subseteq Peers
         /\ toAnnounce' \subseteq asked \cup activeTorrents
         /\ TrackedIn(state, active, conns, fds) =>
               TrackedIn(connState', activePeers', connections', peerFds')
         /\ RoomIn(active) => RoomIn(activePeers')
         /\ CountIn(state, count) => CountIn(connState', currConnectedPeers')
         /\ \A evs : EndsIn(state, conns, requests, evs, refused) =>
                        EndsIn(connState', connections', toEpoll', evs, refused')
         /\ \A evs, subs, seen : FreshIn(state, conns, fds, requests, evs, subs, seen) =>
                        FreshIn(connState', connections', peerFds', toEpoll', evs, subs, seen)
<1>0. /\ state \in [Peers -> States] /\ active \in [Torrents -> SUBSET Peers]
      /\ count \in 0 .. U16 - 1 /\ conns \in [Peers -> MaybeTorrent]
      /\ fds \in [Peers -> Nat] /\ requests \in [Peers -> Seq(Request)]
  BY DEF Typed
<1>1. PICK tried \in SUBSET NotConnected(state) : \E ok \in SUBSET tried, pick \in [tried -> keys] :
         /\ HandlePeerCommands(pick, ok, state, active, count, conns, fds, requests)
         /\ WithinLimits(tried, pick, keys, active, count)
  BY CommandEffect
<1>2. PICK ok \in SUBSET tried, pick \in [tried -> keys] :
         /\ HandlePeerCommands(pick, ok, state, active, count, conns, fds, requests)
         /\ WithinLimits(tried, pick, keys, active, count)
  BY <1>1
<1>3. /\ connState' = [p \in Peers |-> IF p \in tried THEN "CONNECTING" ELSE state[p]]
      /\ currConnectedPeers' = (count + Cardinality(tried)) % U16
      /\ activePeers' = [t \in Torrents |-> active[t] \cup {p \in tried : pick[p] = t}]
      /\ connections' = [p \in Peers |-> IF p \in ok THEN pick[p] ELSE conns[p]]
      /\ lastFd' = [p \in Peers |-> IF p \in ok THEN lastFd[p] + 1 ELSE lastFd[p]]
      /\ peerFds' = [p \in Peers |-> IF p \in ok THEN lastFd[p] + 1
                                     ELSE IF p \in tried THEN NoFd ELSE fds[p]]
      /\ toEpoll' = [p \in Peers |-> IF p \in ok
                       THEN Append(requests[p], [op |-> "Subscribe", fd |-> lastFd[p] + 1])
                       ELSE requests[p]]
      /\ refused' = refused \cup (tried \ ok)
  BY <1>2 DEF HandlePeerCommands
<1>4. /\ tried \subseteq Peers /\ \A p \in tried : state[p] = "NOT_CONNECTED"
      /\ IsFiniteSet(tried) /\ Cardinality(tried) \in Nat
  <2>1. tried \subseteq Peers /\ \A p \in tried : state[p] = "NOT_CONNECTED"
    BY DEF NotConnected
  <2>2. QED
    BY <2>1, PeersAssumption, FS_Subset, FS_CardinalityType
<1>5. \A p \in tried : pick[p] \in Torrents /\ pick[p] # NoTorrent
  BY TorrentsAssumption
<1>6. Typed(connState', activePeers', currConnectedPeers', connections', peerFds', toEpoll')
  <2>1. connState' \in [Peers -> States] /\ activePeers' \in [Torrents -> SUBSET Peers]
    BY <1>0, <1>3, <1>4 DEF States
  <2>2. currConnectedPeers' \in 0 .. U16 - 1
    <3>1. count \in Nat
      BY <1>0, Modulus
    <3>2. count + Cardinality(tried) \in Nat
      BY <1>4, <3>1
    <3>3. QED
      BY <1>3, <3>2, Modulus
  <2>3. connections' \in [Peers -> MaybeTorrent] /\ peerFds' \in [Peers -> Nat]
    BY <1>0, <1>3, <1>4, <1>5 DEF MaybeTorrent, NoFd
  <2>4. toEpoll' \in [Peers -> Seq(Request)]
    <3>1. \A p \in Peers : [op |-> "Subscribe", fd |-> lastFd[p] + 1] \in Request
      BY DEF Request, NoFd
    <3>2. QED
      BY <1>0, <1>3, <3>1
  <2>5. QED
    BY <2>1, <2>2, <2>3, <2>4 DEF Typed
<1>7. lastFd' \in [Peers -> Nat] /\ refused' \subseteq Peers
  BY <1>3, <1>4
<1>8. ASSUME TrackedIn(state, active, conns, fds)
      PROVE  TrackedIn(connState', activePeers', connections', peerFds')
  <2> SUFFICES ASSUME NEW p \in Peers, connections'[p] # NoTorrent
               PROVE  /\ p \in BusyIn(connState') /\ p \in activePeers'[connections'[p]]
                      /\ peerFds'[p] # NoFd
    BY DEF TrackedIn
  <2>1. CASE p \in ok
    BY <1>0, <1>3, <1>5, <2>1 DEF BusyIn, NoFd
  <2>2. CASE p \notin ok
    <3>1. conns[p] # NoTorrent /\ connections'[p] = conns[p] /\ conns[p] \in Torrents
      BY <1>0, <1>3, <2>2 DEF MaybeTorrent
    <3>2. p \in BusyIn(state) /\ p \in active[conns[p]] /\ fds[p] # NoFd
      BY <1>8, <3>1 DEF TrackedIn
    <3>3. p \notin tried
      BY <1>4, <3>2 DEF BusyIn
    <3>4. QED
      BY <1>3, <2>2, <3>1, <3>2, <3>3 DEF BusyIn
  <2>3. QED
    BY <2>1, <2>2
<1>9. ASSUME RoomIn(active) PROVE RoomIn(activePeers')
  <2> SUFFICES ASSUME NEW t \in Torrents PROVE Cardinality(activePeers'[t]) <= MaxPeersPerTorrent
    BY DEF RoomIn
  <2> DEFINE new == {p \in tried : pick[p] = t}
  <2>1. activePeers'[t] = active[t] \cup new /\ Cardinality(active[t]) <= MaxPeersPerTorrent
    BY <1>3, <1>9 DEF RoomIn
  <2>2. CASE new = {}
    BY <2>1, <2>2
  <2>3. CASE new # {}
    <3>1. t \in keys
      BY <2>3
    <3>2. Cardinality(active[t]) + Cardinality(new) <= MaxPeersPerTorrent
      BY <1>2, <2>3, <3>1 DEF WithinLimits
    <3>3. IsFiniteSet(active[t]) /\ IsFiniteSet(new)
      <4>1. active[t] \subseteq Peers /\ new \subseteq Peers
        BY <1>0, <1>4
      <4>2. QED
        BY <4>1, PeersAssumption, FS_Subset
    <3>4. /\ Cardinality(active[t] \cup new) =
               Cardinality(active[t]) + Cardinality(new) - Cardinality(active[t] \cap new)
          /\ IsFiniteSet(active[t] \cap new)
      BY <3>3, FS_Union, FS_Intersection
    <3>5. /\ Cardinality(active[t]) \in Nat /\ Cardinality(new) \in Nat
          /\ Cardinality(active[t] \cap new) \in Nat
      BY <3>3, <3>4, FS_CardinalityType
    <3>6. QED
      BY <2>1, <3>2, <3>4, <3>5, LimitsAssumption
  <2>4. QED
    BY <2>2, <2>3
<1>10. ASSUME CountIn(state, count) PROVE CountIn(connState', currConnectedPeers')
  <2>1. count = Cardinality(BusyIn(state)) /\ count <= MaxConnectedPeers
    BY <1>10 DEF CountIn
  <2>2. BusyIn(connState') = BusyIn(state) \cup tried /\ BusyIn(state) \cap tried = {}
    BY <1>0, <1>3, <1>4 DEF BusyIn
  <2>3. IsFiniteSet(BusyIn(state))
    BY PeersAssumption, FS_Subset DEF BusyIn
  <2>4. Cardinality(BusyIn(connState')) = count + Cardinality(tried)
    <3>1. Cardinality(BusyIn(state) \cup tried) =
            Cardinality(BusyIn(state)) + Cardinality(tried) - Cardinality(BusyIn(state) \cap tried)
      BY <1>4, <2>3, FS_Union
    <3>2. Cardinality(BusyIn(state) \cap tried) = 0
      BY <2>2, FS_EmptySet
    <3>3. QED
      BY <1>0, <1>4, <2>1, <2>2, <3>1, <3>2
  <2>5. count + Cardinality(tried) <= MaxConnectedPeers
    <3>1. CASE tried = {}
      BY <1>0, <2>1, <3>1, FS_EmptySet
    <3>2. QED
      BY <1>2, <3>1 DEF WithinLimits
  <2>6. (count + Cardinality(tried)) % U16 = count + Cardinality(tried)
    <3>1. U16 \in Nat /\ MaxConnectedPeers \in Nat /\ MaxConnectedPeers <= U16 - 1
      BY LimitsAssumption, Modulus
    <3>2. count \in Nat
      BY <1>0, <3>1
    <3>3. count + Cardinality(tried) \in 0 .. U16 - 1
      BY <1>4, <2>5, <3>1, <3>2
    <3>4. QED
      BY <3>3, Modulus
  <2>7. QED
    BY <1>3, <2>4, <2>5, <2>6 DEF CountIn
<1>11. ASSUME NEW evs, EndsIn(state, conns, requests, evs, refused)
       PROVE  EndsIn(connState', connections', toEpoll', evs, refused')
  <2> SUFFICES ASSUME NEW p \in BusyIn(connState') \ refused'
               PROVE  connections'[p] # NoTorrent \/ Ends(toEpoll'[p], evs[p])
    BY DEF EndsIn
  <2>1. p \in Peers
    BY DEF BusyIn
  <2>2. CASE p \in tried
    BY <1>3, <1>5, <2>1, <2>2
  <2>3. CASE p \notin tried
    <3>1. /\ p \in BusyIn(state) \ refused /\ connections'[p] = conns[p]
          /\ toEpoll'[p] = requests[p]
      BY <1>3, <2>1, <2>3 DEF BusyIn
    <3>2. QED
      BY <1>11, <3>1 DEF EndsIn
  <2>4. QED
    BY <2>2, <2>3
<1>12. ASSUME NEW evs, NEW subs, NEW seen,
              FreshIn(state, conns, fds, requests, evs, subs, seen)
       PROVE  FreshIn(connState', connections', peerFds', toEpoll', evs, subs, seen)
  <2> SUFFICES ASSUME NEW p \in Peers
               PROVE  /\ p \notin seen => connState'[p] = "ABSENT"
                      /\ p \notin seen \/ connState'[p] = "NOT_CONNECTED" =>
                            /\ toEpoll'[p] = <<>> /\ evs[p] = <<>> /\ peerFds'[p] = NoFd
                            /\ connections'[p] = NoTorrent /\ \A s \in subs : s[1] # p
    BY DEF FreshIn
  <2>1. CASE p \in tried
    BY <1>3, <1>4, <1>12, <2>1 DEF FreshIn
  <2>2. CASE p \notin tried
    <3>1. /\ connState'[p] = state[p] /\ connections'[p] = conns[p]
          /\ toEpoll'[p] = requests[p] /\ peerFds'[p] = fds[p]
      BY <1>3, <2>2
    <3>2. QED
      BY <1>12, <3>1 DEF FreshIn
  <2>3. QED
    BY <2>1, <2>2
<1>13. QED
  BY <1>6, <1>7, <1>8, <1>9, <1>10, <1>11, <1>12, CommandEffect

------------------------------------------------------------------------------
(* The invariant, and what the handlers do to its parts. *)

RestTyped ==
    /\ peerTorrent \in [Peers -> MaybeTorrent]
    /\ tracked \subseteq Torrents /\ activeTorrents \subseteq tracked
    /\ torrents \subseteq Torrents /\ complete \subseteq torrents
    /\ toAnnounce \subseteq Torrents /\ lastFd \in [Peers -> Nat]
    /\ events \in [Peers -> Seq(Event)]
    /\ subscribed \subseteq Sockets /\ pending \subseteq {s[1] : s \in subscribed}
    /\ announced \subseteq Peers /\ again \subseteq announced /\ refused \subseteq Peers
    /\ announces \in Nat /\ faults \in Nat

Books ==
    /\ Typed(connState, activePeers, currConnectedPeers, connections, peerFds, toEpoll)
    /\ RestTyped
    /\ TrackedIn(connState, activePeers, connections, peerFds)
    /\ RoomIn(activePeers)
    /\ EndsIn(connState, connections, toEpoll, events, refused)
    /\ activeTorrents \subseteq torrents
    /\ again = {} =>
          /\ CountIn(connState, currConnectedPeers)
          /\ FreshIn(connState, connections, peerFds, toEpoll, events, subscribed, announced)

(* More requests or events do not take back that a connection will end, and *)
(* neither does the epoll thread's taking a Subscribe or the manager's      *)
(* taking an Accepted.                                                      *)
LEMMA EndsGrow ==
  ASSUME NEW q \in Seq(Request), NEW e \in Seq(Event), NEW r \in Request, NEW x \in Event
  PROVE  /\ Ends(q, e) => Ends(Append(q, r), e) /\ Ends(q, Append(e, x))
         /\ r.op = "UnSubscribe" => Ends(Append(q, r), e)
         /\ x # "Accepted" => Ends(q, Append(e, x))
         /\ q # <<>> /\ Head(q).op = "Subscribe" /\ Ends(q, e) => Ends(Tail(q), e)
         /\ e # <<>> /\ Head(e) = "Accepted" /\ Ends(q, e) => Ends(q, Tail(e))
<1>1. /\ Len(Append(q, r)) = Len(q) + 1 /\ Append(q, r)[Len(q) + 1] = r
      /\ \A k \in 1 .. Len(q) : Append(q, r)[k] = q[k] /\ k \in 1 .. Len(q) + 1
      /\ Len(q) + 1 \in 1 .. Len(q) + 1
  OBVIOUS
<1>2. /\ Len(Append(e, x)) = Len(e) + 1 /\ Append(e, x)[Len(e) + 1] = x
      /\ \A k \in 1 .. Len(e) : Append(e, x)[k] = e[k] /\ k \in 1 .. Len(e) + 1
      /\ Len(e) + 1 \in 1 .. Len(e) + 1
  OBVIOUS
<1>3. ASSUME q # <<>>, Head(q).op = "Subscribe", NEW k \in 1 .. Len(q), q[k].op = "UnSubscribe"
      PROVE  k - 1 \in 1 .. Len(Tail(q)) /\ Tail(q)[k - 1] = q[k]
  <2>1. k # 1
    BY <1>3
  <2>2. QED
    BY <1>3, <2>1
<1>4. ASSUME e # <<>>, Head(e) = "Accepted", NEW k \in 1 .. Len(e), e[k] # "Accepted"
      PROVE  k - 1 \in 1 .. Len(Tail(e)) /\ Tail(e)[k - 1] = e[k]
  <2>1. k # 1
    BY <1>4
  <2>2. QED
    BY <1>4, <2>1
<1>5. Ends(q, e) => Ends(Append(q, r), e) /\ Ends(q, Append(e, x))
  BY <1>1, <1>2 DEF Ends
<1>6. /\ r.op = "UnSubscribe" => Ends(Append(q, r), e)
      /\ x # "Accepted" => Ends(q, Append(e, x))
  BY <1>1, <1>2 DEF Ends
<1>7. q # <<>> /\ Head(q).op = "Subscribe" /\ Ends(q, e) => Ends(Tail(q), e)
  BY <1>3 DEF Ends
<1>8. e # <<>> /\ Head(e) = "Accepted" /\ Ends(q, e) => Ends(q, Tail(e))
  BY <1>4 DEF Ends
<1>9. QED
  BY <1>5, <1>6, <1>7, <1>8

(* Requests that were only added to, for peers with a socket. *)
Grown(requests) ==
    /\ requests \in [Peers -> Seq(Request)]
    /\ \A p \in Peers : /\ peerFds[p] = NoFd => requests[p] = toEpoll[p]
                        /\ Ends(toEpoll[p], events[p]) => Ends(requests[p], events[p])

(* disconnectClient adds an UnSubscribe for each peer that has a socket. *)
LEMMA UnsubscribingEffect ==
  ASSUME Books, NEW gone
  PROVE  /\ Grown(Unsubscribing(gone))
         /\ \A p \in Peers : p \in gone /\ peerFds[p] # NoFd =>
                                Ends(Unsubscribing(gone)[p], events[p])
         /\ \A p \in Peers \ gone : Unsubscribing(gone)[p] = toEpoll[p]
<1>1. /\ toEpoll \in [Peers -> Seq(Request)] /\ events \in [Peers -> Seq(Event)]
      /\ peerFds \in [Peers -> Nat]
  BY DEF Books, Typed, RestTyped
<1>2. ASSUME NEW p \in Peers, peerFds[p] # NoFd
      PROVE  LET r == [op |-> "UnSubscribe", fd |-> peerFds[p]] IN
             /\ Append(toEpoll[p], r) \in Seq(Request)
             /\ Ends(Append(toEpoll[p], r), events[p])
  <2> DEFINE r == [op |-> "UnSubscribe", fd |-> peerFds[p]]
  <2>1. r \in Request /\ r.op = "UnSubscribe"
    BY <1>1, <1>2 DEF Request
  <2>2. toEpoll[p] \in Seq(Request) /\ events[p] \in Seq(Event) /\ "Closed" \in Event
    BY <1>1 DEF Event
  <2> HIDE DEF r
  <2>3. Append(toEpoll[p], r) \in Seq(Request) /\ Ends(Append(toEpoll[p], r), events[p])
    BY <2>1, <2>2, EndsGrow
  <2>4. QED
    BY <2>3 DEF r
<1>3. Unsubscribing(gone) \in [Peers -> Seq(Request)]
  BY <1>1, <1>2 DEF Unsubscribing
<1>4. QED
  BY <1>2, <1>3 DEF Unsubscribing, Grown

(* A step that does something for one peer, which is not fresh any more. *)
LEMMA FreshElsewhere ==
  ASSUME NEW state, NEW conns, NEW fds, NEW requests, NEW evs, NEW subs, NEW seen,
         NEW state2, NEW conns2, NEW fds2, NEW requests2, NEW evs2, NEW subs2,
         FreshIn(state, conns, fds, requests, evs, subs, seen),
         NEW p \in Peers, p \in seen, state2[p] # "NOT_CONNECTED",
         \A q \in Peers \ {p} : /\ state2[q] = state[q] /\ conns2[q] = conns[q] /\ fds2[q] = fds[q]
                                /\ requests2[q] = requests[q] /\ evs2[q] = evs[q],
         \A s \in subs2 : s \in subs \/ s[1] = p
  PROVE  FreshIn(state2, conns2, fds2, requests2, evs2, subs2, seen)
<1>1. ASSUME NEW q \in Peers, q # p
      PROVE  /\ q \notin seen => state2[q] = "ABSENT"
             /\ q \notin seen \/ state2[q] = "NOT_CONNECTED" =>
                   /\ requests2[q] = <<>> /\ evs2[q] = <<>> /\ fds2[q] = NoFd
                   /\ conns2[q] = NoTorrent /\ \A s \in subs2 : s[1] # q
  BY <1>1 DEF FreshIn
<1>2. QED
  BY <1>1 DEF FreshIn

(* A peer for which something is on its way has been announced and tried. *)
LEMMA NotFresh ==
  ASSUME Books, again = {}, NEW p \in Peers,
         toEpoll[p] # <<>> \/ events[p] # <<>> \/ \E s \in subscribed : s[1] = p
  PROVE  p \in announced /\ connState[p] # "NOT_CONNECTED"
BY DEF Books, FreshIn

(* The handlers that only ask for disconnections, and may drop connections  *)
(* whose peers they have asked to go.                                       *)
LEMMA GrownKeeps ==
  ASSUME Books, Grown(toEpoll'), connections' \in [Peers -> MaybeTorrent],
         \A p \in Peers : \/ connections'[p] = connections[p]
                          \/ connections'[p] = NoTorrent /\ Ends(toEpoll'[p], events[p]),
         RestTyped', activeTorrents' \subseteq torrents',
         UNCHANGED <<connState, activePeers, currConnectedPeers, peerFds, events, subscribed,
                     announced, again, refused>>
  PROVE  Books'
<1>1. /\ Typed(connState, activePeers, currConnectedPeers, connections, peerFds, toEpoll)
      /\ TrackedIn(connState, activePeers, connections, peerFds)
      /\ EndsIn(connState, connections, toEpoll, events, refused)
  BY DEF Books
<1>2. Typed(connState, activePeers, currConnectedPeers, connections', peerFds, toEpoll')
  BY <1>1 DEF Typed, Grown
<1>3. TrackedIn(connState, activePeers, connections', peerFds)
  BY <1>1 DEF TrackedIn
<1>4. EndsIn(connState, connections', toEpoll', events, refused)
  <2> SUFFICES ASSUME NEW p \in BusyIn(connState) \ refused
               PROVE  connections'[p] # NoTorrent \/ Ends(toEpoll'[p], events[p])
    BY DEF EndsIn
  <2>1. p \in Peers
    BY DEF BusyIn
  <2>2. connections[p] # NoTorrent \/ Ends(toEpoll[p], events[p])
    BY <1>1 DEF EndsIn
  <2>3. QED
    BY <2>1, <2>2 DEF Grown
<1>5. ASSUME again = {}
      PROVE  FreshIn(connState, connections', peerFds, toEpoll', events, subscribed, announced)
  <2>1. FreshIn(connState, connections, peerFds, toEpoll, events, subscribed, announced)
    BY <1>5 DEF Books
  <2>2. QED
    BY <2>1 DEF FreshIn, Grown
<1>6. QED
  BY <1>2, <1>3, <1>4, <1>5 DEF Books

(* A started or resumed torrent. *)
LEMMA AppKeeps ==
  ASSUME Books, NEW t \in Torrents, StartTorrent(t) \/ ResumeTorrent(t)
  PROVE  Books'
<1>1. /\ UNCHANGED <<connState, peerTorrent, activePeers, currConnectedPeers, complete, connections,
                     peerFds, lastFd, toEpoll, events, subscribed, pending, announced, again,
                     refused, announces, faults>>
      /\ activeTorrents' = activeTorrents \cup {t} /\ tracked' = tracked \cup {t}
      /\ toAnnounce' = toAnnounce \cup {t} /\ torrents' = torrents \cup {t}
  BY DEF StartTorrent, ResumeTorrent, serviceVars, epollVars, historyVars
<1>2. RestTyped'
  BY <1>1 DEF Books, RestTyped
<1>3. QED
  BY <1>1, <1>2 DEF Books

(* stop, remove, completion and a dropped peer *)
LEMMA LeavingKeeps ==
  ASSUME Books,
         \/ \E t \in Torrents : StopTorrent(t) \/ RemoveTorrent(t)
         \/ \E p \in Peers : CompleteTorrent(p) \/ DropPeer(p)
  PROVE  Books'
<1>0. /\ RestTyped /\ toEpoll \in [Peers -> Seq(Request)] /\ peerFds \in [Peers -> Nat]
      /\ connections \in [Peers -> MaybeTorrent] /\ activePeers \in [Torrents -> SUBSET Peers]
      /\ activeTorrents \subseteq torrents
      /\ TrackedIn(connState, activePeers, connections, peerFds)
  BY DEF Books, Typed
<1>1. ASSUME NEW t \in Torrents, StopTorrent(t) PROVE Books'
  <2>1. /\ activeTorrents' = activeTorrents \ {t} /\ tracked' = tracked \cup {t}
        /\ toEpoll' = Unsubscribing(activePeers[t]) /\ faults' = faults + 1
        /\ UNCHANGED <<connState, peerTorrent, activePeers, currConnectedPeers, peerFds, lastFd,
                       events, subscribed, pending, toAnnounce, announced, again, refused,
                       announces, torrents, complete, connections>>
    BY <1>1 DEF StopTorrent, Deactivate, serviceVars, epollVars, historyVars
  <2>2. RestTyped' /\ activeTorrents' \subseteq torrents'
    BY <1>0, <2>1 DEF RestTyped
  <2>3. Grown(toEpoll')
    BY <2>1, UnsubscribingEffect
  <2>4. QED
    BY <1>0, <2>1, <2>2, <2>3, GrownKeeps
<1>2. ASSUME NEW t \in Torrents, RemoveTorrent(t) PROVE Books'
  <2>1. /\ activeTorrents' = activeTorrents \ {t} /\ tracked' = tracked \cup {t}
        /\ toEpoll' = Unsubscribing(activePeers[t]) /\ faults' = faults + 1
        /\ torrents' = torrents \ {t} /\ complete' = complete \ {t}
        /\ connections' = [p \in Peers |-> IF connections[p] = t THEN NoTorrent ELSE connections[p]]
        /\ UNCHANGED <<connState, peerTorrent, activePeers, currConnectedPeers, peerFds, lastFd,
                       events, subscribed, pending, toAnnounce, announced, again, refused,
                       announces>>
    BY <1>2 DEF RemoveTorrent, Deactivate, serviceVars, epollVars, historyVars
  <2>2. RestTyped' /\ activeTorrents' \subseteq torrents'
    BY <1>0, <2>1 DEF RestTyped
  <2>3. Grown(toEpoll')
    BY <2>1, UnsubscribingEffect
  <2>4. ASSUME NEW p \in Peers
        PROVE  \/ connections'[p] = connections[p]
               \/ connections'[p] = NoTorrent /\ Ends(toEpoll'[p], events[p])
    <3>1. CASE connections[p] = t
      <4>1. t # NoTorrent
        BY TorrentsAssumption
      <4>2. p \in activePeers[t] /\ peerFds[p] # NoFd
        BY <1>0, <3>1, <4>1 DEF TrackedIn
      <4>3. Ends(toEpoll'[p], events[p])
        BY <2>1, <4>2, UnsubscribingEffect
      <4>4. QED
        BY <2>1, <3>1, <4>3
    <3>2. CASE connections[p] # t
      BY <2>1, <3>2
    <3>3. QED
      BY <3>1, <3>2
  <2>5. connections' \in [Peers -> MaybeTorrent]
    BY <1>0, <2>1 DEF MaybeTorrent
  <2>6. QED
    BY <2>1, <2>2, <2>3, <2>4, <2>5, GrownKeeps
<1>3. ASSUME NEW p \in Peers, CompleteTorrent(p) PROVE Books'
  <2> DEFINE t == connections[p]
             once == Unsubscribing(activePeers[t])
             r == [op |-> "UnSubscribe", fd |-> peerFds[p]]
  <2>1. /\ t \in torrents /\ complete' = complete \cup {t}
        /\ activeTorrents' = activeTorrents \ {t} /\ tracked' = tracked \cup {t}
        /\ toEpoll' = IF peerFds[p] = NoFd THEN once ELSE [once EXCEPT ![p] = Append(@, r)]
        /\ UNCHANGED <<connState, peerTorrent, activePeers, currConnectedPeers, peerFds, lastFd,
                       events, subscribed, pending, toAnnounce, announced, again, refused,
                       announces, torrents, connections, faults>>
    BY <1>3 DEF CompleteTorrent, serviceVars, epollVars, historyVars
  <2>2. RestTyped' /\ activeTorrents' \subseteq torrents'
    BY <1>0, <2>1 DEF RestTyped
  <2>3. Grown(once)
    BY UnsubscribingEffect
  <2>4. CASE peerFds[p] = NoFd
    BY <1>0, <2>1, <2>2, <2>3, <2>4, GrownKeeps
  <2>5. CASE peerFds[p] # NoFd
    <3>1. r \in Request /\ once[p] \in Seq(Request) /\ events[p] \in Seq(Event) /\ "Closed" \in Event
      BY <1>0, <2>3, <2>5 DEF Request, Grown, RestTyped, Event
    <3>2. Append(once[p], r) \in Seq(Request)
      BY <3>1
    <3>3. Ends(once[p], events[p]) => Ends(Append(once[p], r), events[p])
      BY <3>1, EndsGrow
    <3>4. toEpoll' = [once EXCEPT ![p] = Append(@, r)]
      BY <2>1, <2>5
    <3> HIDE DEF once, r
    <3>5. Grown(toEpoll')
      BY <2>3, <2>5, <3>2, <3>3, <3>4 DEF Grown
    <3>6. QED
      BY <1>0, <2>1, <2>2, <3>5, GrownKeeps
  <2>6. QED
    BY <2>4, <2>5
<1>4. ASSUME NEW p \in Peers, DropPeer(p) PROVE Books'
  <2>1. /\ toEpoll' = Unsubscribing({p}) /\ faults' = faults + 1
        /\ UNCHANGED <<connState, peerTorrent, tracked, activePeers, activeTorrents,
                       currConnectedPeers, peerFds, lastFd, events, subscribed, pending,
                       toAnnounce, announced, again, refused, announces, torrents, complete,
                       connections>>
    BY <1>4 DEF DropPeer, trackerVars, managerVars, serviceVars, epollVars, historyVars
  <2>2. RestTyped' /\ activeTorrents' \subseteq torrents'
    BY <1>0, <2>1 DEF RestTyped
  <2>3. Grown(toEpoll')
    BY <2>1, UnsubscribingEffect
  <2>4. QED
    BY <1>0, <2>1, <2>2, <2>3, GrownKeeps
<1>5. QED
  BY <1>1, <1>2, <1>3, <1>4

(* A handler that makes commands on a tracker in which the invariant holds  *)
(* keeps it.                                                                *)
LEMMA CommandBooks ==
  ASSUME Books, NEW state, NEW active, NEW count, NEW conns, NEW fds, NEW requests,
         NEW asked \in SUBSET Torrents,
         MakeCommand(state, tracked', active, count, conns, fds, requests, asked),
         Typed(state, active, count, conns, fds, requests),
         TrackedIn(state, active, conns, fds), RoomIn(active),
         EndsIn(state, conns, requests, events', refused),
         again' = {} => /\ CountIn(state, count)
                        /\ FreshIn(state, conns, fds, requests, events', subscribed', announced'),
         peerTorrent' \in [Peers -> MaybeTorrent], events' \in [Peers -> Seq(Event)],
         tracked \subseteq tracked', tracked' \subseteq Torrents,
         announced' \subseteq Peers, again' \subseteq announced', announces' \in Nat,
         UNCHANGED <<activeTorrents, torrents, complete, subscribed, pending, faults>>
  PROVE  Books' /\ toAnnounce' \subseteq asked \cup activeTorrents
<1>1. /\ lastFd \in [Peers -> Nat] /\ refused \subseteq Peers /\ activeTorrents \subseteq tracked
      /\ activeTorrents \subseteq Torrents /\ tracked' \in SUBSET Torrents
      /\ activeTorrents \subseteq torrents
  BY DEF Books, RestTyped
<1>2. /\ Typed(connState', activePeers', currConnectedPeers', connections', peerFds', toEpoll')
      /\ lastFd' \in [Peers -> Nat] /\ refused' \subseteq Peers
      /\ toAnnounce' \subseteq asked \cup activeTorrents
      /\ TrackedIn(connState', activePeers', connections', peerFds') /\ RoomIn(activePeers')
      /\ CountIn(state, count) => CountIn(connState', currConnectedPeers')
      /\ EndsIn(connState', connections', toEpoll', events', refused')
  BY <1>1, CommandKeeps
<1>3. FreshIn(state, conns, fds, requests, events', subscribed', announced') =>
        FreshIn(connState', connections', peerFds', toEpoll', events', subscribed', announced')
  BY <1>1, CommandKeeps
<1>4. RestTyped'
  BY <1>1, <1>2 DEF Books, RestTyped
<1>5. QED
  BY <1>1, <1>2, <1>3, <1>4 DEF Books

(* An announce: the peers it adds are not connected, and nothing has been   *)
(* done for them unless they were announced before.                         *)
LEMMA AnnounceKeeps ==
  ASSUME Books, NEW t \in Torrents, NEW found \in SUBSET Peers, Announce(t, found)
  PROVE  Books' /\ toAnnounce' \subseteq toAnnounce \cup activeTorrents
<1> DEFINE new == {p \in found : connState[p] = "ABSENT"}
           state == [p \in Peers |-> IF p \in new THEN "NOT_CONNECTED" ELSE connState[p]]
<1>1. /\ peerTorrent' = [p \in Peers |-> IF p \in new THEN t ELSE peerTorrent[p]]
      /\ tracked' = tracked \cup {t}
      /\ MakeCommand(state, tracked', activePeers, currConnectedPeers, connections, peerFds,
                     toEpoll, toAnnounce \ {t})
      /\ announced' = announced \cup found /\ again' = again \cup (announced \cap found)
      /\ announces' = announces + 1
      /\ UNCHANGED <<activeTorrents, torrents, complete, events, subscribed, pending, faults>>
  BY DEF Announce, epollVars
<1>2. /\ Typed(connState, activePeers, currConnectedPeers, connections, peerFds, toEpoll)
      /\ RestTyped /\ connState \in [Peers -> States]
      /\ TrackedIn(connState, activePeers, connections, peerFds) /\ RoomIn(activePeers)
      /\ EndsIn(connState, connections, toEpoll, events, refused)
  BY DEF Books, Typed
<1>3. /\ state \in [Peers -> States] /\ BusyIn(state) = BusyIn(connState)
      /\ \A p \in Peers : state[p] = IF p \in new THEN "NOT_CONNECTED" ELSE connState[p]
  BY <1>2 DEF States, BusyIn
<1>4. ASSUME again' = {}
      PROVE  /\ CountIn(state, currConnectedPeers)
             /\ FreshIn(state, connections, peerFds, toEpoll, events', subscribed', announced')
  <2>1. again = {} /\ announced \cap found = {}
    BY <1>1, <1>4
  <2>2. /\ CountIn(connState, currConnectedPeers)
        /\ FreshIn(connState, connections, peerFds, toEpoll, events, subscribed, announced)
    BY <2>1 DEF Books
  <2>3. CountIn(state, currConnectedPeers)
    BY <1>3, <2>2 DEF CountIn
  <2>4. ASSUME NEW p \in Peers
        PROVE  /\ p \notin announced' => p \notin announced /\ state[p] = connState[p]
               /\ p \notin announced' \/ state[p] = "NOT_CONNECTED" =>
                     p \notin announced \/ connState[p] = "NOT_CONNECTED"
    BY <1>1, <1>3, <2>1
  <2> HIDE DEF state, new
  <2>5. FreshIn(state, connections, peerFds, toEpoll, events, subscribed, announced')
    BY <2>2, <2>4 DEF FreshIn
  <2>6. QED
    BY <1>1, <2>3, <2>5
<1> HIDE DEF state
<1>5. Typed(state, activePeers, currConnectedPeers, connections, peerFds, toEpoll)
  BY <1>2, <1>3 DEF Typed
<1>6. TrackedIn(state, activePeers, connections, peerFds)
  BY <1>2, <1>3 DEF TrackedIn
<1>7. EndsIn(state, connections, toEpoll, events', refused)
  BY <1>1, <1>2, <1>3 DEF EndsIn
<1>8. /\ peerTorrent' \in [Peers -> MaybeTorrent] /\ events' \in [Peers -> Seq(Event)]
      /\ tracked \subseteq tracked' /\ tracked' \subseteq Torrents
      /\ announced' \subseteq Peers /\ again' \subseteq announced' /\ announces' \in Nat
      /\ toAnnounce \ {t} \in SUBSET Torrents
  BY <1>1, <1>2 DEF RestTyped, MaybeTorrent
<1>9. Books' /\ toAnnounce' \subseteq (toAnnounce \ {t}) \cup activeTorrents
  BY <1>1, <1>2, <1>4, <1>5, <1>6, <1>7, <1>8, CommandBooks
<1>10. QED
  BY <1>9

(* An accepted connection was connecting or connected already. *)
LEMMA EstablishedKeeps ==
  ASSUME Books, NEW p \in Peers, Established(p)
  PROVE  Books' /\ toAnnounce' \subseteq toAnnounce \cup activeTorrents
<1> DEFINE state == [connState EXCEPT ![p] = "CONNECTED"]
<1>1. /\ events[p] # <<>> /\ Head(events[p]) = "Accepted"
      /\ events' = [events EXCEPT ![p] = Tail(@)]
      /\ UNCHANGED <<peerTorrent, tracked, activeTorrents, torrents, complete, subscribed, pending,
                     announced, again, announces, faults>>
  BY DEF Established, NextEvent, epollVars, historyVars
<1>2. /\ Typed(connState, activePeers, currConnectedPeers, connections, peerFds, toEpoll)
      /\ RestTyped /\ connState \in [Peers -> States] /\ toEpoll \in [Peers -> Seq(Request)]
      /\ TrackedIn(connState, activePeers, connections, peerFds) /\ RoomIn(activePeers)
      /\ EndsIn(connState, connections, toEpoll, events, refused)
      /\ activeTorrents \subseteq torrents
  BY DEF Books, Typed
<1>3. events \in [Peers -> Seq(Event)] /\ events' \in [Peers -> Seq(Event)]
  <2>1. events \in [Peers -> Seq(Event)]
    BY <1>2 DEF RestTyped
  <2>2. Tail(events[p]) \in Seq(Event)
    BY <1>1, <2>1
  <2>3. QED
    BY <1>1, <2>1, <2>2
<1>4. EndsIn(connState, connections, toEpoll, events', refused)
  <2> SUFFICES ASSUME NEW q \in BusyIn(connState) \ refused
               PROVE  connections[q] # NoTorrent \/ Ends(toEpoll[q], events'[q])
    BY DEF EndsIn
  <2>1. q \in Peers /\ (connections[q] # NoTorrent \/ Ends(toEpoll[q], events[q]))
    BY <1>2 DEF EndsIn, BusyIn
  <2>2. CASE q = p
    <3>1. /\ toEpoll[p] \in Seq(Request) /\ events[p] \in Seq(Event) /\ events'[p] = Tail(events[p])
          /\ [op |-> "Subscribe", fd |-> 1] \in Request /\ "Closed" \in Event
      BY <1>1, <1>2, <1>3 DEF Request, Event, NoFd
    <3>2. Ends(toEpoll[p], events[p]) => Ends(toEpoll[p], Tail(events[p]))
      BY <1>1, <3>1, EndsGrow
    <3>3. QED
      BY <2>1, <2>2, <3>1, <3>2
  <2>3. CASE q # p
    BY <1>1, <1>3, <2>1, <2>3
  <2>4. QED
    BY <2>2, <2>3
<1>5. ASSUME again = {}
      PROVE  /\ CountIn(connState, currConnectedPeers)
             /\ FreshIn(connState, connections, peerFds, toEpoll, events', subscribed, announced)
             /\ FreshIn(state, connections, peerFds, toEpoll, events', subscribed, announced)
  <2>1. /\ CountIn(connState, currConnectedPeers)
        /\ FreshIn(connState, connections, peerFds, toEpoll, events, subscribed, announced)
    BY <1>5 DEF Books
  <2>2. p \in announced /\ connState[p] # "NOT_CONNECTED"
    BY <1>1, <1>5, NotFresh
  <2>3. /\ state[p] # "NOT_CONNECTED"
        /\ \A q \in Peers \ {p} : state[q] = connState[q] /\ events'[q] = events[q]
    BY <1>1, <1>2, <1>3
  <2> HIDE DEF state
  <2>4. FreshIn(connState, connections, peerFds, toEpoll, events', subscribed, announced)
    BY <2>1, <2>2, <2>3, FreshElsewhere
  <2>5. FreshIn(state, connections, peerFds, toEpoll, events', subscribed, announced)
    BY <2>1, <2>2, <2>3, FreshElsewhere
  <2>6. QED
    BY <2>1, <2>4, <2>5
<1>6. CASE /\ connections[p] = NoTorrent
           /\ UNCHANGED <<connState, activePeers, currConnectedPeers, connections, peerFds, toEpoll>>
           /\ NoCommand
  <2>1. UNCHANGED <<toAnnounce, lastFd, refused>>
    BY <1>6 DEF NoCommand
  <2>2. RestTyped'
    BY <1>1, <1>2, <1>3, <2>1 DEF RestTyped
  <2>3. QED
    BY <1>1, <1>2, <1>4, <1>5, <1>6, <2>1, <2>2 DEF Books
<1>7. ASSUME connections[p] # NoTorrent
      PROVE  /\ BusyIn(state) = BusyIn(connState)
             /\ Typed(state, activePeers, currConnectedPeers, connections, peerFds, toEpoll)
             /\ TrackedIn(state, activePeers, connections, peerFds)
             /\ EndsIn(state, connections, toEpoll, events', refused)
             /\ CountIn(connState, currConnectedPeers) => CountIn(state, currConnectedPeers)
  <2>1. p \in BusyIn(connState)
    BY <1>2, <1>7 DEF TrackedIn
  <2>2. BusyIn(state) = BusyIn(connState) /\ state \in [Peers -> States]
    BY <1>2, <2>1 DEF BusyIn, States
  <2> HIDE DEF state
  <2>3. /\ Typed(state, activePeers, currConnectedPeers, connections, peerFds, toEpoll)
        /\ TrackedIn(state, activePeers, connections, peerFds)
    BY <1>2, <2>2 DEF Typed, TrackedIn
  <2>4. EndsIn(state, connections, toEpoll, events', refused)
    BY <1>4, <2>2 DEF EndsIn
  <2>5. QED
    BY <2>2, <2>3, <2>4 DEF CountIn
<1>8. CASE /\ connections[p] # NoTorrent /\ connState' = state /\ NoCommand
           /\ UNCHANGED <<activePeers, currConnectedPeers, connections, peerFds, toEpoll>>
  <2>1. UNCHANGED <<toAnnounce, lastFd, refused>>
    BY <1>8 DEF NoCommand
  <2>2. RestTyped'
    BY <1>1, <1>2, <1>3, <2>1 DEF RestTyped
  <2> HIDE DEF state
  <2>3. QED
    BY <1>1, <1>2, <1>5, <1>7, <1>8, <2>1, <2>2 DEF Books
<1>9. CASE /\ connections[p] # NoTorrent
           /\ MakeCommand(state, tracked, activePeers, currConnectedPeers, connections, peerFds,
                          toEpoll, toAnnounce)
  <2> HIDE DEF state
  <2>1. /\ peerTorrent' \in [Peers -> MaybeTorrent] /\ tracked' \subseteq Torrents
        /\ announced' \subseteq Peers /\ again' \subseteq announced' /\ announces' \in Nat
        /\ toAnnounce \in SUBSET Torrents /\ tracked \subseteq tracked'
    BY <1>1, <1>2 DEF RestTyped
  <2>2. MakeCommand(state, tracked', activePeers, currConnectedPeers, connections, peerFds, toEpoll,
                    toAnnounce)
    BY <1>1, <1>9
  <2>3. again' = {} =>
          /\ CountIn(state, currConnectedPeers)
          /\ FreshIn(state, connections, peerFds, toEpoll, events', subscribed', announced')
    BY <1>1, <1>5, <1>7, <1>9
  <2>4. QED
    BY <1>1, <1>2, <1>3, <1>7, <1>9, <2>1, <2>2, <2>3, CommandBooks
<1>10. QED
  BY <1>6, <1>8, <1>9 DEF Established

(* A report that a connection is gone: the peer's entry, if it has one, its *)
(* connection and its place among the active peers go with it.              *)
LEMMA GoneEffect ==
  ASSUME Books, NEW p \in Peers, NextEvent(p, {"Closed", "WriteFailed", "CtlError", "Garbage"})
  PROVE  LET state == ErasePeer(p)
             active == [activePeers EXCEPT ![peerTorrent[p]] = @ \ {p}]
             conns == EraseConnection(p)
             evs == [events EXCEPT ![p] = Tail(@)]
         IN /\ Typed(state, active, CountDown, conns, FdsAfter(p), RequestsAfter(p))
            /\ evs \in [Peers -> Seq(Event)]
            /\ TrackedIn(state, active, conns, FdsAfter(p)) /\ RoomIn(active)
            /\ TrackedIn(state, activePeers, conns, FdsAfter(p))
            /\ EndsIn(state, conns, RequestsAfter(p), evs, refused)
            /\ again = {} =>
                  /\ connState[p] # "ABSENT" => CountIn(state, CountDown)
                  /\ FreshIn(state, conns, FdsAfter(p), RequestsAfter(p), evs, subscribed, announced)
<1> DEFINE state == ErasePeer(p)
           active == [activePeers EXCEPT ![peerTorrent[p]] = @ \ {p}]
           conns == EraseConnection(p)
           fds == FdsAfter(p)
           requests == RequestsAfter(p)
           evs == [events EXCEPT ![p] = Tail(@)]
<1>1. /\ connState \in [Peers -> States] /\ activePeers \in [Torrents -> SUBSET Peers]
      /\ currConnectedPeers \in 0 .. U16 - 1 /\ connections \in [Peers -> MaybeTorrent]
      /\ peerFds \in [Peers -> Nat] /\ toEpoll \in [Peers -> Seq(Request)]
      /\ events \in [Peers -> Seq(Event)] /\ events[p] # <<>>
      /\ TrackedIn(connState, activePeers, connections, peerFds) /\ RoomIn(activePeers)
      /\ EndsIn(connState, connections, toEpoll, events, refused)
  BY DEF Books, Typed, RestTyped, NextEvent
<1>2. /\ state \in [Peers -> States] /\ state[p] = "ABSENT"
      /\ \A q \in Peers \ {p} : state[q] = connState[q]
  BY <1>1 DEF ErasePeer, States
<1>3. /\ conns \in [Peers -> MaybeTorrent] /\ conns[p] = NoTorrent
      /\ \A q \in Peers \ {p} : conns[q] = connections[q]
  BY <1>1 DEF EraseConnection, MaybeTorrent
<1>4. fds \in [Peers -> Nat] /\ \A q \in Peers \ {p} : fds[q] = peerFds[q]
  BY <1>1 DEF FdsAfter, NoFd
<1>5. requests \in [Peers -> Seq(Request)] /\ \A q \in Peers \ {p} : requests[q] = toEpoll[q]
  <2>1. /\ Unsubscribing({p}) \in [Peers -> Seq(Request)]
        /\ \A q \in Peers \ {p} : Unsubscribing({p})[q] = toEpoll[q]
    BY UnsubscribingEffect DEF Grown
  <2>2. QED
    BY <1>1, <2>1 DEF RequestsAfter
<1>6. evs \in [Peers -> Seq(Event)] /\ \A q \in Peers \ {p} : evs[q] = events[q]
  <2>1. Tail(events[p]) \in Seq(Event)
    BY <1>1
  <2>2. QED
    BY <1>1, <2>1
<1>7. /\ active \in [Torrents -> SUBSET Peers]
      /\ \A t \in Torrents : /\ active[t] \subseteq activePeers[t]
                             /\ \A q \in Peers \ {p} : q \in activePeers[t] => q \in active[t]
  BY <1>1
<1>8. CountDown \in 0 .. U16 - 1
  <2>1. currConnectedPeers + U16 - 1 \in Nat
    BY <1>1, Modulus
  <2>2. QED
    BY <2>1, Modulus DEF CountDown
<1>9. RoomIn(active)
  <2> SUFFICES ASSUME NEW t \in Torrents PROVE Cardinality(active[t]) <= MaxPeersPerTorrent
    BY DEF RoomIn
  <2>1. IsFiniteSet(activePeers[t])
    BY <1>1, PeersAssumption, FS_Subset
  <2> HIDE DEF active
  <2>2. /\ IsFiniteSet(active[t]) /\ Cardinality(active[t]) <= Cardinality(activePeers[t])
    BY <1>7, <2>1, FS_Subset
  <2>3. Cardinality(active[t]) \in Nat /\ Cardinality(activePeers[t]) \in Nat
    BY <2>1, <2>2, FS_CardinalityType
  <2>4. Cardinality(activePeers[t]) <= MaxPeersPerTorrent
    BY <1>1 DEF RoomIn
  <2>5. QED
    BY <2>2, <2>3, <2>4, LimitsAssumption
<1>10. BusyIn(state) = BusyIn(connState) \ {p}
  BY <1>2 DEF BusyIn
<1>11. ASSUME again = {}, connState[p] # "ABSENT" PROVE CountIn(state, CountDown)
  <2>1. connState[p] # "NOT_CONNECTED"
    BY <1>1, <1>11, NotFresh
  <2>2. p \in BusyIn(connState)
    <3>1. connState[p] \in States
      BY <1>1
    <3>2. QED
      BY <1>11, <2>1, <3>1 DEF BusyIn, States
  <2>3. currConnectedPeers = Cardinality(BusyIn(connState)) /\ currConnectedPeers <= MaxConnectedPeers
    BY <1>11 DEF Books, CountIn
  <2>4. IsFiniteSet(BusyIn(connState))
    BY PeersAssumption, FS_Subset DEF BusyIn
  <2>5. Cardinality(BusyIn(connState) \ {p}) = Cardinality(BusyIn(connState)) - 1
    BY <2>2, <2>4, FS_RemoveElement
  <2>6. IsFiniteSet(BusyIn(connState) \ {p}) /\ Cardinality(BusyIn(connState) \ {p}) \in Nat
    BY <2>4, FS_RemoveElement, FS_CardinalityType
  <2>7. currConnectedPeers - 1 \in 0 .. U16 - 1
    <3>1. U16 \in Nat /\ currConnectedPeers \in Nat /\ currConnectedPeers <= U16 - 1
      BY <1>1, Modulus
    <3>2. currConnectedPeers - 1 \in Nat
      BY <2>3, <2>5, <2>6
    <3>3. QED
      BY <3>1, <3>2
  <2>8. CountDown = currConnectedPeers - 1
    <3>1. currConnectedPeers + U16 - 1 = (currConnectedPeers - 1) + U16
      BY <1>1, Modulus
    <3>2. ((currConnectedPeers - 1) + U16) % U16 = currConnectedPeers - 1
      BY <2>7, Modulus
    <3>3. QED
      BY <3>1, <3>2 DEF CountDown
  <2>9. QED
    BY <1>1, <1>10, <2>3, <2>5, <2>8, LimitsAssumption, Modulus DEF CountIn
<1> HIDE DEF state, active, conns, fds, requests, evs
<1>12. Typed(state, active, CountDown, conns, fds, requests)
  BY <1>2, <1>3, <1>4, <1>5, <1>7, <1>8 DEF Typed
<1>13. TrackedIn(state, active, conns, fds) /\ TrackedIn(state, activePeers, conns, fds)
  <2> SUFFICES ASSUME NEW q \in Peers, conns[q] # NoTorrent
               PROVE  /\ q \in BusyIn(state) /\ q \in active[conns[q]] /\ fds[q] # NoFd
                      /\ q \in activePeers[conns[q]]
    BY DEF TrackedIn
  <2>1. q # p
    BY <1>3
  <2>2. conns[q] = connections[q] /\ conns[q] \in Torrents /\ fds[q] = peerFds[q]
    BY <1>3, <1>4, <2>1 DEF MaybeTorrent
  <2>3. q \in BusyIn(connState) /\ q \in activePeers[conns[q]] /\ peerFds[q] # NoFd
    BY <1>1, <2>2 DEF TrackedIn
  <2>4. QED
    BY <1>7, <1>10, <2>1, <2>2, <2>3
<1>14. EndsIn(state, conns, requests, evs, refused)
  <2> SUFFICES ASSUME NEW q \in BusyIn(state) \ refused
               PROVE  conns[q] # NoTorrent \/ Ends(requests[q], evs[q])
    BY DEF EndsIn
  <2>1. q \in Peers \ {p} /\ q \in BusyIn(connState) \ refused
    BY <1>10 DEF BusyIn
  <2>2. connections[q] # NoTorrent \/ Ends(toEpoll[q], events[q])
    BY <1>1, <2>1 DEF EndsIn
  <2>3. QED
    BY <1>3, <1>5, <1>6, <2>1, <2>2
<1>15. ASSUME again = {}
       PROVE  FreshIn(state, conns, fds, requests, evs, subscribed, announced)
  <2>1. FreshIn(connState, connections, peerFds, toEpoll, events, subscribed, announced)
    BY <1>15 DEF Books
  <2>2. p \in announced
    BY <1>1, <1>15, NotFresh
  <2>3. state[p] # "NOT_CONNECTED"
    BY <1>2
  <2>4. \A q \in Peers \ {p} :
          /\ state[q] = connState[q] /\ conns[q] = connections[q] /\ fds[q] = peerFds[q]
          /\ requests[q] = toEpoll[q] /\ evs[q] = events[q]
    BY <1>2, <1>3, <1>4, <1>5, <1>6
  <2>5. \A s \in subscribed : s \in subscribed \/ s[1] = p
    OBVIOUS
  <2>6. QED
    BY <2>1, <2>2, <2>3, <2>4, <2>5, FreshElsewhere
<1>16. QED
  BY <1>6, <1>9, <1>11, <1>12, <1>13, <1>14, <1>15
     DEF state, active, conns, fds, requests, evs

(* A report of a disconnection, on time, late or repeated. *)
LEMMA DisconnectedKeeps ==
  ASSUME Books, NEW p \in Peers, Disconnected(p)
  PROVE  Books' /\ toAnnounce' \subseteq toAnnounce \cup activeTorrents
<1> DEFINE state == ErasePeer(p)
           active == [activePeers EXCEPT ![peerTorrent[p]] = @ \ {p}]
           conns == EraseConnection(p)
<1>1. /\ NextEvent(p, {"Closed", "WriteFailed", "CtlError", "Garbage"})
      /\ events' = [events EXCEPT ![p] = Tail(@)]
      /\ UNCHANGED <<tracked, activeTorrents, torrents, complete, subscribed, pending, announced,
                     again, announces, faults>>
  BY DEF Disconnected, epollVars, historyVars
<1>2. /\ Typed(state, active, CountDown, conns, FdsAfter(p), RequestsAfter(p))
      /\ events' \in [Peers -> Seq(Event)]
      /\ TrackedIn(state, active, conns, FdsAfter(p)) /\ RoomIn(active)
      /\ TrackedIn(state, activePeers, conns, FdsAfter(p))
      /\ EndsIn(state, conns, RequestsAfter(p), events', refused)
      /\ again = {} =>
            /\ connState[p] # "ABSENT" => CountIn(state, CountDown)
            /\ FreshIn(state, conns, FdsAfter(p), RequestsAfter(p), events', subscribed, announced)
  BY <1>1, GoneEffect
<1>3. /\ RestTyped /\ RoomIn(activePeers) /\ activeTorrents \subseteq torrents
      /\ connState \in [Peers -> States] /\ peerTorrent \in [Peers -> MaybeTorrent]
      /\ activePeers \in [Torrents -> SUBSET Peers] /\ currConnectedPeers \in 0 .. U16 - 1
  BY DEF Books, Typed, RestTyped
<1>4. CASE /\ connState[p] = "ABSENT"
           /\ connections' = conns /\ peerFds' = FdsAfter(p) /\ toEpoll' = RequestsAfter(p)
           /\ UNCHANGED <<connState, peerTorrent, activePeers, currConnectedPeers>>
           /\ NoCommand
  <2>1. state = connState
    BY <1>3, <1>4 DEF ErasePeer
  <2>2. UNCHANGED <<toAnnounce, lastFd, refused>>
    BY <1>4 DEF NoCommand
  <2>3. RestTyped'
    BY <1>1, <1>2, <1>3, <1>4, <2>2 DEF RestTyped
  <2>4. Typed(connState', activePeers', currConnectedPeers', connections', peerFds', toEpoll')
    BY <1>2, <1>3, <1>4 DEF Typed
  <2> HIDE DEF state, active, conns
  <2>5. again = {} => CountIn(connState, currConnectedPeers)
    BY DEF Books
  <2>6. QED
    BY <1>1, <1>2, <1>3, <1>4, <2>1, <2>2, <2>3, <2>4, <2>5 DEF Books
<1>5. ASSUME connState[p] # "ABSENT", peerTorrent' = [peerTorrent EXCEPT ![p] = NoTorrent]
      PROVE  peerTorrent' \in [Peers -> MaybeTorrent]
  BY <1>3, <1>5 DEF MaybeTorrent
<1>6. CASE /\ connState[p] # "ABSENT" /\ peerTorrent' = [peerTorrent EXCEPT ![p] = NoTorrent]
           /\ connState' = state /\ activePeers' = active /\ currConnectedPeers' = CountDown
           /\ connections' = conns /\ peerFds' = FdsAfter(p) /\ toEpoll' = RequestsAfter(p)
           /\ NoCommand
  <2>1. UNCHANGED <<toAnnounce, lastFd, refused>>
    BY <1>6 DEF NoCommand
  <2>2. RestTyped'
    BY <1>1, <1>2, <1>3, <1>5, <1>6, <2>1 DEF RestTyped
  <2> HIDE DEF state, active, conns
  <2>3. QED
    BY <1>1, <1>2, <1>3, <1>6, <2>1, <2>2 DEF Books
<1>7. CASE /\ connState[p] # "ABSENT" /\ peerTorrent' = [peerTorrent EXCEPT ![p] = NoTorrent]
           /\ MakeCommand(state, tracked, active, CountDown, conns, FdsAfter(p), RequestsAfter(p),
                          toAnnounce)
  <2> HIDE DEF state, active, conns
  <2>1. /\ peerTorrent' \in [Peers -> MaybeTorrent] /\ tracked' \subseteq Torrents
        /\ announced' \subseteq Peers /\ again' \subseteq announced' /\ announces' \in Nat
        /\ toAnnounce \in SUBSET Torrents /\ tracked \subseteq tracked'
    BY <1>1, <1>3, <1>5, <1>7 DEF RestTyped
  <2>2. MakeCommand(state, tracked', active, CountDown, conns, FdsAfter(p), RequestsAfter(p),
                    toAnnounce)
    BY <1>1, <1>7
  <2>3. again' = {} =>
          /\ CountIn(state, CountDown)
          /\ FreshIn(state, conns, FdsAfter(p), RequestsAfter(p), events', subscribed', announced')
    BY <1>1, <1>2, <1>7
  <2>4. QED
    BY <1>1, <1>2, <2>1, <2>2, <2>3, CommandBooks
<1>8. QED
  BY <1>4, <1>6, <1>7 DEF Disconnected

(* A turn of the epoll thread for a peer that it knows. *)
LEMMA EpollBooks ==
  ASSUME Books, NEW p \in Peers,
         toEpoll[p] # <<>> \/ events[p] # <<>> \/ \E s \in subscribed : s[1] = p,
         toEpoll' \in [Peers -> Seq(Request)], events' \in [Peers -> Seq(Event)],
         \A q \in Peers \ {p} : toEpoll'[q] = toEpoll[q] /\ events'[q] = events[q],
         Ends(toEpoll[p], events[p]) => Ends(toEpoll'[p], events'[p]),
         \A s \in subscribed' : s \in subscribed \/ s[1] = p,
         subscribed' \subseteq Sockets, pending' \subseteq {s[1] : s \in subscribed'},
         faults' \in Nat,
         UNCHANGED <<trackerVars, managerVars, serviceVars, historyVars, refused, announces>>
  PROVE  Books' /\ UNCHANGED <<toAnnounce, torrents>>
<1>0. UNCHANGED <<connState, peerTorrent, tracked, activePeers, activeTorrents, currConnectedPeers,
                  torrents, complete, connections, toAnnounce, peerFds, lastFd, announced, again,
                  refused, announces>>
  BY DEF trackerVars, managerVars, serviceVars, historyVars
<1>1. Typed(connState', activePeers', currConnectedPeers', connections', peerFds', toEpoll')
  BY <1>0 DEF Books, Typed
<1>2. RestTyped'
  BY <1>0 DEF Books, RestTyped
<1>3. EndsIn(connState, connections, toEpoll', events', refused)
  <2> SUFFICES ASSUME NEW q \in BusyIn(connState) \ refused
               PROVE  connections[q] # NoTorrent \/ Ends(toEpoll'[q], events'[q])
    BY DEF EndsIn
  <2>1. q \in Peers /\ (connections[q] # NoTorrent \/ Ends(toEpoll[q], events[q]))
    BY DEF Books, EndsIn, BusyIn
  <2>2. QED
    BY <2>1
<1>4. ASSUME again = {}
      PROVE  FreshIn(connState, connections, peerFds, toEpoll', events', subscribed', announced)
  <2>1. FreshIn(connState, connections, peerFds, toEpoll, events, subscribed, announced)
    BY <1>4 DEF Books
  <2>2. p \in announced /\ connState[p] # "NOT_CONNECTED"
    BY <1>4, NotFresh
  <2>3. QED
    BY <2>1, <2>2, FreshElsewhere
<1>5. QED
  BY <1>0, <1>1, <1>2, <1>3, <1>4 DEF Books

(* A turn that adds one event about a peer and takes nothing from the queue *)
(* of requests.                                                             *)
LEMMA EventBooks ==
  ASSUME Books, NEW s \in subscribed, NEW x \in Event,
         events' = [events EXCEPT ![s[1]] = Append(@, x)],
         subscribed' \subseteq subscribed, pending' \subseteq {r[1] : r \in subscribed'},
         faults' \in Nat,
         UNCHANGED <<trackerVars, managerVars, serviceVars, toEpoll, historyVars, refused,
                     announces>>
  PROVE  Books' /\ UNCHANGED <<toAnnounce, torrents>>
<1>1. /\ subscribed \subseteq Sockets /\ events \in [Peers -> Seq(Event)]
      /\ toEpoll \in [Peers -> Seq(Request)]
  BY DEF Books, RestTyped, Typed
<1>2. PICK p \in Peers : p = s[1]
  BY <1>1 DEF Sockets
<1>3. Append(events[p], x) \in Seq(Event)
  BY <1>1
<1>4. /\ events' \in [Peers -> Seq(Event)] /\ events'[p] = Append(events[p], x)
      /\ \A q \in Peers \ {p} : events'[q] = events[q]
  BY <1>1, <1>2, <1>3
<1>5. Ends(toEpoll[p], events[p]) => Ends(toEpoll[p], Append(events[p], x))
  <2>1. /\ toEpoll[p] \in Seq(Request) /\ events[p] \in Seq(Event)
        /\ [op |-> "Subscribe", fd |-> 1] \in Request
    BY <1>1 DEF Request, NoFd
  <2>2. QED
    BY <2>1, EndsGrow
<1>6. /\ \E r \in subscribed : r[1] = p
      /\ \A r \in subscribed' : r \in subscribed \/ r[1] = p
      /\ subscribed' \subseteq Sockets
  BY <1>1, <1>2
<1>7. Ends(toEpoll[p], events[p]) => Ends(toEpoll'[p], events'[p])
  BY <1>4, <1>5
<1>8. /\ toEpoll' \in [Peers -> Seq(Request)]
      /\ \A q \in Peers \ {p} : toEpoll'[q] = toEpoll[q] /\ events'[q] = events[q]
  BY <1>1, <1>4
<1>9. QED
  BY <1>4, <1>6, <1>7, <1>8, EpollBooks

(* What the epoll thread reports of an UnSubscribe ends the connection. *)
LEMMA ClosedAtEnd ==
  ASSUME NEW e \in Seq(Event), NEW q, NEW r, r = <<"Closed">> \/ r = <<"CtlError", "Closed">>
  PROVE  e \o r \in Seq(Event) /\ Ends(q, e \o r)
<1>1. "Closed" \in Event /\ "CtlError" \in Event /\ Len(e) \in Nat
  BY DEF Event
<1>2. CASE r = <<"Closed">>
  <2>1. r \in Seq(Event) /\ Len(r) = 1 /\ r[1] = "Closed"
    BY <1>1, <1>2
  <2>2. /\ e \o r \in Seq(Event) /\ Len(e \o r) = Len(e) + 1 /\ (e \o r)[Len(e) + 1] = "Closed"
    <3>1. Len(e) + 1 \in 1 .. Len(e) + Len(r) /\ (Len(e) + 1) - Len(e) = 1
      BY <1>1, <2>1
    <3>2. ~(Len(e) + 1 <= Len(e))
      BY <1>1
    <3>3. QED
      BY <2>1, <3>1, <3>2, ConcatProperties
  <2>3. Len(e) + 1 \in 1 .. Len(e \o r)
    BY <1>1, <2>2
  <2>4. QED
    BY <2>2, <2>3 DEF Ends
<1>3. CASE r = <<"CtlError", "Closed">>
  <2>1. r \in Seq(Event) /\ Len(r) = 2 /\ r[2] = "Closed"
    BY <1>1, <1>3
  <2>2. /\ e \o r \in Seq(Event) /\ Len(e \o r) = Len(e) + 2 /\ (e \o r)[Len(e) + 2] = "Closed"
    <3>1. Len(e) + 2 \in 1 .. Len(e) + Len(r) /\ (Len(e) + 2) - Len(e) = 2
      BY <1>1, <2>1
    <3>2. ~(Len(e) + 2 <= Len(e))
      BY <1>1
    <3>3. /\ e \o r \in Seq(Event) /\ Len(e \o r) = Len(e) + Len(r)
          /\ \A i \in 1 .. Len(e) + Len(r) :
                (e \o r)[i] = IF i <= Len(e) THEN e[i] ELSE r[i - Len(e)]
      BY <2>1, ConcatProperties
    <3>4. (e \o r)[Len(e) + 2] = r[2]
      BY <3>1, <3>2, <3>3
    <3>5. QED
      BY <2>1, <3>3, <3>4
  <2>3. Len(e) + 2 \in 1 .. Len(e \o r)
    BY <1>1, <2>2
  <2>4. QED
    BY <2>2, <2>3 DEF Ends
<1>4. QED
  BY <1>2, <1>3

(* The steps of the epoll thread. *)
LEMMA EpollKeeps ==
  ASSUME Books, EpollStep
  PROVE  Books' /\ UNCHANGED <<toAnnounce, torrents>>
<1>0. /\ toEpoll \in [Peers -> Seq(Request)] /\ events \in [Peers -> Seq(Event)]
      /\ subscribed \subseteq Sockets /\ pending \subseteq {s[1] : s \in subscribed}
      /\ faults \in Nat
  BY DEF Books, Typed, RestTyped
<1>1. ASSUME NEW p \in Peers, toEpoll[p] # <<>>
      PROVE  /\ Head(toEpoll[p]) \in Request /\ Tail(toEpoll[p]) \in Seq(Request)
             /\ <<p, Head(toEpoll[p]).fd>> \in Sockets
             /\ [toEpoll EXCEPT ![p] = Tail(@)] \in [Peers -> Seq(Request)]
  <2>1. toEpoll[p] \in Seq(Request)
    BY <1>0
  <2>2. Head(toEpoll[p]) \in Request /\ Tail(toEpoll[p]) \in Seq(Request)
    BY <1>1, <2>1
  <2>3. Head(toEpoll[p]).fd \in Nat \ {NoFd}
    BY <2>2 DEF Request
  <2>4. QED
    BY <1>0, <2>2, <2>3 DEF Sockets
<1>2. ASSUME NEW p \in Peers, EpollSubscribes(p)
      PROVE  Books' /\ UNCHANGED <<toAnnounce, torrents>>
  <2> DEFINE socket == <<p, Head(toEpoll[p]).fd>>
  <2>1. /\ toEpoll[p] # <<>> /\ Head(toEpoll[p]).op = "Subscribe"
        /\ toEpoll' = [toEpoll EXCEPT ![p] = Tail(@)]
        /\ subscribed' = subscribed \cup {socket} /\ pending' = pending \cup {p}
        /\ UNCHANGED <<trackerVars, managerVars, serviceVars, events, historyVars, refused,
                       announces, faults>>
    BY <1>2 DEF EpollSubscribes
  <2>2. /\ toEpoll' \in [Peers -> Seq(Request)] /\ socket \in Sockets /\ socket[1] = p
        /\ toEpoll'[p] = Tail(toEpoll[p]) /\ \A q \in Peers \ {p} : toEpoll'[q] = toEpoll[q]
    BY <1>0, <1>1, <2>1
  <2>3. Ends(toEpoll[p], events[p]) => Ends(Tail(toEpoll[p]), events[p])
    <3>1. /\ toEpoll[p] \in Seq(Request) /\ events[p] \in Seq(Event)
          /\ [op |-> "Subscribe", fd |-> 1] \in Request /\ "Closed" \in Event
      BY <1>0 DEF Request, Event, NoFd
    <3>2. QED
      BY <2>1, <3>1, EndsGrow
  <2> HIDE DEF socket
  <2>4. subscribed' \subseteq Sockets /\ \A s \in subscribed' : s \in subscribed \/ s[1] = p
    BY <1>0, <2>1, <2>2
  <2>5. pending' \subseteq {s[1] : s \in subscribed'}
    BY <1>0, <2>1, <2>2
  <2>6. /\ events' \in [Peers -> Seq(Event)] /\ faults' \in Nat
        /\ \A q \in Peers \ {p} : toEpoll'[q] = toEpoll[q] /\ events'[q] = events[q]
        /\ Ends(toEpoll[p], events[p]) => Ends(toEpoll'[p], events'[p])
    BY <1>0, <2>1, <2>2, <2>3
  <2>7. QED
    BY <2>1, <2>2, <2>4, <2>5, <2>6, EpollBooks
<1>3. ASSUME NEW p \in Peers, EpollUnsubscribes(p)
      PROVE  Books' /\ UNCHANGED <<toAnnounce, torrents>>
  <2> DEFINE socket == <<p, Head(toEpoll[p]).fd>>
             reports == IF socket \in subscribed THEN <<"Closed">> ELSE <<"CtlError", "Closed">>
  <2>1. /\ toEpoll[p] # <<>>
        /\ toEpoll' = [toEpoll EXCEPT ![p] = Tail(@)]
        /\ events' = [events EXCEPT ![p] = @ \o reports]
        /\ subscribed' = subscribed \ {socket} /\ pending' = pending \ {p}
        /\ UNCHANGED <<trackerVars, managerVars, serviceVars, historyVars, refused, announces,
                       faults>>
    BY <1>3 DEF EpollUnsubscribes
  <2>2. /\ toEpoll' \in [Peers -> Seq(Request)] /\ socket[1] = p
        /\ toEpoll'[p] = Tail(toEpoll[p]) /\ \A q \in Peers \ {p} : toEpoll'[q] = toEpoll[q]
    BY <1>0, <1>1, <2>1
  <2>3. events[p] \in Seq(Event) /\ (reports = <<"Closed">> \/ reports = <<"CtlError", "Closed">>)
    BY <1>0
  <2> HIDE DEF socket, reports
  <2>4. events[p] \o reports \in Seq(Event) /\ Ends(toEpoll'[p], events[p] \o reports)
    BY <2>3, ClosedAtEnd
  <2>5. /\ events' \in [Peers -> Seq(Event)] /\ events'[p] = events[p] \o reports
        /\ \A q \in Peers \ {p} : events'[q] = events[q]
    BY <1>0, <2>1, <2>4
  <2>6. Ends(toEpoll'[p], events'[p])
    BY <2>4, <2>5
  <2>7. /\ subscribed' \subseteq Sockets /\ \A s \in subscribed' : s \in subscribed \/ s[1] = p
        /\ pending' \subseteq {s[1] : s \in subscribed'} /\ faults' \in Nat
    BY <1>0, <2>1, <2>2
  <2>8. \A q \in Peers \ {p} : toEpoll'[q] = toEpoll[q] /\ events'[q] = events[q]
    BY <2>2, <2>5
  <2>9. QED
    BY <2>1, <2>2, <2>5, <2>6, <2>7, <2>8, EpollBooks
<1>4. ASSUME NEW s \in subscribed, EpollAccepts(s)
      PROVE  Books' /\ UNCHANGED <<toAnnounce, torrents>>
  <2>1. /\ events' = [events EXCEPT ![s[1]] = Append(@, "Accepted")]
        /\ pending' = pending \ {s[1]}
        /\ UNCHANGED <<trackerVars, managerVars, serviceVars, toEpoll, subscribed, historyVars,
                       refused, announces, faults>>
    BY <1>4 DEF EpollAccepts
  <2>2. /\ subscribed' \subseteq subscribed /\ pending' \subseteq {r[1] : r \in subscribed'}
        /\ faults' \in Nat /\ "Accepted" \in Event
    BY <1>0, <2>1 DEF Event
  <2>3. QED
    BY <2>1, <2>2, EventBooks
<1>5. ASSUME NEW s \in subscribed, EpollCloses(s)
      PROVE  Books' /\ UNCHANGED <<toAnnounce, torrents>>
  <2>1. /\ events' = [events EXCEPT ![s[1]] = Append(@, "Closed")]
        /\ subscribed' = subscribed \ {s} /\ pending' = pending \ {s[1]} /\ faults' = faults + 1
        /\ UNCHANGED <<trackerVars, managerVars, serviceVars, toEpoll, historyVars, refused,
                       announces>>
    BY <1>5 DEF EpollCloses
  <2>2. /\ subscribed' \subseteq subscribed /\ pending' \subseteq {r[1] : r \in subscribed'}
        /\ faults' \in Nat /\ "Closed" \in Event
    BY <1>0, <2>1 DEF Event
  <2>3. QED
    BY <2>1, <2>2, EventBooks
<1>6. ASSUME NEW s \in subscribed, NEW kind \in {"Garbage", "WriteFailed"}, EpollTrouble(s, kind)
      PROVE  Books' /\ UNCHANGED <<toAnnounce, torrents>>
  <2>1. /\ events' = [events EXCEPT ![s[1]] = Append(@, kind)] /\ faults' = faults + 1
        /\ UNCHANGED <<trackerVars, managerVars, serviceVars, toEpoll, subscribed, pending,
                       historyVars, refused, announces>>
    BY <1>6 DEF EpollTrouble, epollVars
  <2>2. /\ subscribed' \subseteq subscribed /\ pending' \subseteq {r[1] : r \in subscribed'}
        /\ faults' \in Nat /\ kind \in Event
    BY <1>0, <2>1 DEF Event
  <2>3. QED
    BY <2>1, <2>2, EventBooks
<1>7. QED
  BY <1>2, <1>3, <1>4, <1>5, <1>6 DEF EpollStep

------------------------------------------------------------------------------
(* The theorems. *)

(* The client starts with empty books. *)
LEMMA BooksInit == Init => Books
<1> SUFFICES ASSUME Init PROVE Books
  OBVIOUS
<1>1. Cardinality({}) = 0 /\ BusyIn(connState) = {}
  BY FS_EmptySet DEF Init, BusyIn
<1>2. Typed(connState, activePeers, currConnectedPeers, connections, peerFds, toEpoll)
  BY Modulus DEF Init, Typed, States, MaybeTorrent, NoFd
<1>3. RestTyped
  BY DEF Init, RestTyped, MaybeTorrent, NoFd, Sockets
<1>4. /\ TrackedIn(connState, activePeers, connections, peerFds)
      /\ EndsIn(connState, connections, toEpoll, events, refused)
  BY <1>1 DEF Init, TrackedIn, EndsIn
<1>5. RoomIn(activePeers) /\ CountIn(connState, currConnectedPeers)
  <2>1. MaxConnectedPeers >= 0 /\ MaxPeersPerTorrent >= 0
    BY LimitsAssumption, Modulus
  <2>2. QED
    BY <1>1, <2>1 DEF Init, RoomIn, CountIn
<1>6. FreshIn(connState, connections, peerFds, toEpoll, events, subscribed, announced)
  BY DEF Init, FreshIn
<1>7. QED
  BY <1>2, <1>3, <1>4, <1>5, <1>6 DEF Books, Init

(* Every step keeps the books, and asks announces only for known torrents. *)
LEMMA BooksNext ==
  ASSUME Books, [Next]_vars
  PROVE  Books' /\ toAnnounce' \ toAnnounce \subseteq torrents'
<1>1. ASSUME NEW t \in Torrents, AppStep(t)
      PROVE  Books' /\ toAnnounce' \ toAnnounce \subseteq torrents'
  <2>1. CASE StartTorrent(t) \/ ResumeTorrent(t)
    BY <2>1, AppKeeps DEF StartTorrent, ResumeTorrent
  <2>2. CASE StopTorrent(t) \/ RemoveTorrent(t)
    BY <2>2, LeavingKeeps DEF StopTorrent, RemoveTorrent, Deactivate
  <2>3. QED
    BY <1>1, <2>1, <2>2 DEF AppStep
<1>2. ASSUME NEW t \in Torrents, NEW found \in SUBSET Peers, Announce(t, found)
      PROVE  Books' /\ toAnnounce' \ toAnnounce \subseteq torrents'
  <2>1. Books' /\ toAnnounce' \subseteq toAnnounce \cup activeTorrents
    BY <1>2, AnnounceKeeps
  <2>2. torrents' = torrents /\ activeTorrents \subseteq torrents
    BY <1>2 DEF Announce, Books
  <2>3. QED
    BY <2>1, <2>2
<1>3. ASSUME NEW p \in Peers, ManagerStep(p)
      PROVE  Books' /\ toAnnounce' \ toAnnounce \subseteq torrents'
  <2>1. CASE CompleteTorrent(p) \/ DropPeer(p)
    BY <2>1, LeavingKeeps DEF CompleteTorrent, DropPeer, managerVars
  <2>2. CASE Established(p) \/ Disconnected(p)
    <3>1. Books' /\ toAnnounce' \subseteq toAnnounce \cup activeTorrents
      BY <2>2, EstablishedKeeps, DisconnectedKeeps
    <3>2. torrents' = torrents
      BY <2>2 DEF Established, Disconnected
    <3>3. activeTorrents \subseteq torrents
      BY DEF Books
    <3>4. QED
      BY <3>1, <3>2, <3>3
  <2>3. QED
    BY <1>3, <2>1, <2>2 DEF ManagerStep
<1>4. CASE EpollStep
  BY <1>4, EpollKeeps
<1>5. CASE UNCHANGED vars
  BY <1>5 DEF vars, trackerVars, managerVars, serviceVars, epollVars, historyVars, Books, RestTyped
<1>6. QED
  BY <1>1, <1>2, <1>3, <1>4, <1>5 DEF Next

(* The books imply what the runs check. *)
LEMMA BooksImply == Books => Bookkeeping /\ Limits /\ ConnectionsAreTracked
<1> SUFFICES ASSUME Books PROVE Bookkeeping /\ Limits /\ ConnectionsAreTracked
  OBVIOUS
<1>0. /\ connState \in [Peers -> States] /\ activePeers \in [Torrents -> SUBSET Peers]
      /\ currConnectedPeers \in 0 .. U16 - 1 /\ connections \in [Peers -> MaybeTorrent]
      /\ peerFds \in [Peers -> Nat] /\ toEpoll \in [Peers -> Seq(Request)] /\ RestTyped
      /\ TrackedIn(connState, activePeers, connections, peerFds) /\ RoomIn(activePeers)
      /\ BusyIn(connState) = Busy
  BY DEF Books, Typed, BusyIn, Busy
<1>1. ConnectionsAreTracked
  BY <1>0 DEF ConnectionsAreTracked, Connected, TrackedIn
<1>2. TypeOK
  <2>1. toEpoll \in [Peers -> Seq([op : {"Subscribe", "UnSubscribe"}, fd : Nat])]
    <3>1. Request \subseteq [op : {"Subscribe", "UnSubscribe"}, fd : Nat]
      BY DEF Request
    <3>2. ASSUME NEW p \in Peers
          PROVE  toEpoll[p] \in Seq([op : {"Subscribe", "UnSubscribe"}, fd : Nat])
      <4>1. toEpoll[p] \in Seq(Request)
        BY <1>0
      <4> DEFINE s == toEpoll[p]
                 R == [op : {"Subscribe", "UnSubscribe"}, fd : Nat]
      <4>a. s \in Seq(Request) /\ Request \subseteq R
        BY <3>1, <4>1
      <4> HIDE DEF s, R
      <4>b. Len(s) \in Nat /\ s \in [1 .. Len(s) -> Request]
        BY <4>a, LenProperties
      <4>c. Len(s) \in Nat /\ s \in [1 .. Len(s) -> R]
        BY <4>a, <4>b
      <4>2. s \in Seq(R)
        BY <4>c
      <4>3. QED
        BY <4>2 DEF s, R
    <3>3. QED
      BY <1>0, <3>2
  <2>2. QED
    BY <1>0, <2>1 DEF TypeOK, RestTyped, States, MaybeTorrent, Event
<1>3. ASSUME NEW p \in Busy \ refused PROVE p \in Connected \/ OnTheWay(p)
  <2>1. p \in Peers /\ (connections[p] # NoTorrent \/ Ends(toEpoll[p], events[p]))
    BY <1>0 DEF Books, EndsIn, Busy
  <2>2. toEpoll[p] \in Seq(Request) /\ events[p] \in Seq(Event)
    BY <1>0, <2>1 DEF RestTyped
  <2>3. Ends(toEpoll[p], events[p]) => toEpoll[p] # <<>> \/ events[p] # <<>>
    BY <2>2 DEF Ends
  <2>4. QED
    BY <2>1, <2>3 DEF Connected, OnTheWay
<1>4. again = {} => currConnectedPeers = Cardinality(Busy) /\ currConnectedPeers <= MaxConnectedPeers
  BY <1>0 DEF Books, CountIn
<1>5. ASSUME NEW t \in Torrents PROVE Cardinality(ConnectedTo(t)) <= MaxPeersPerTorrent
  <2>1. ConnectedTo(t) \subseteq activePeers[t]
    BY <1>0, TorrentsAssumption DEF ConnectedTo, TrackedIn
  <2>2. IsFiniteSet(activePeers[t])
    BY <1>0, PeersAssumption, FS_Subset
  <2>3. IsFiniteSet(ConnectedTo(t)) /\ Cardinality(ConnectedTo(t)) <= Cardinality(activePeers[t])
    BY <2>1, <2>2, FS_Subset
  <2>4. Cardinality(ConnectedTo(t)) \in Nat /\ Cardinality(activePeers[t]) \in Nat
    BY <2>2, <2>3, FS_CardinalityType
  <2>5. Cardinality(activePeers[t]) <= MaxPeersPerTorrent
    BY <1>0 DEF RoomIn
  <2>6. QED
    BY <2>3, <2>4, <2>5, LimitsAssumption
<1>6. ASSUME again = {} PROVE Cardinality(Connected) <= MaxConnectedPeers
  <2>1. Connected \subseteq Busy
    BY <1>1 DEF ConnectionsAreTracked
  <2>2. IsFiniteSet(Busy)
    BY PeersAssumption, FS_Subset DEF Busy
  <2>3. IsFiniteSet(Connected) /\ Cardinality(Connected) <= Cardinality(Busy)
    BY <2>1, <2>2, FS_Subset
  <2>4. Cardinality(Connected) \in Nat /\ Cardinality(Busy) \in Nat
    BY <2>2, <2>3, FS_CardinalityType
  <2>5. QED
    BY <1>4, <1>6, <2>3, <2>4, LimitsAssumption
<1>7. QED
  BY <1>1, <1>2, <1>3, <1>4, <1>5, <1>6 DEF Bookkeeping, Limits

(* The invariant holds in every reachable state. *)
LEMMA BooksAlways == Spec => []Books
BY BooksInit, BooksNext, PTL DEF Spec

(* currConnectedPeers is the number of busy peers until one is announced    *)
(* again, and every busy peer that was not refused is connected or has a    *)
(* request or an event on its way: PeerTracker's count never drifts, through *)
(* repeated and late reports of a disconnection.                             *)
THEOREM CountNeverDrifts == Spec => []Bookkeeping
BY BooksAlways, BooksImply, PTL

(* No torrent has more connections than maxPeersPerTorrent, and, until a    *)
(* peer is announced again, the client no more than maxConnectedPeers.      *)
THEOREM LimitsHold == Spec => []Limits
BY BooksAlways, BooksImply, PTL

(* Every connection of BitTorrentManager is in the tracker, busy and active *)
(* for its torrent.                                                         *)
THEOREM TrackerKnowsConnections == Spec => []ConnectionsAreTracked
BY BooksAlways, BooksImply, PTL

(* The assertion of handlePeerCommands: announces are only asked for        *)
(* torrents that BitTorrentManager has.                                     *)
THEOREM OnlyKnownAnnounced == Spec => AnnouncesKnown
<1>1. Books /\ [Next]_vars => [toAnnounce' \ toAnnounce \subseteq torrents']_vars
  BY BooksNext
<1>2. QED
  BY <1>1, BooksAlways, PTL DEF Spec, AnnouncesKnown
==============================================================================
