-------------------------- MODULE EpollServiceProofs --------------------------
(***************************************************************************)
(* No request of PeerService is left lying, and no socket is lost, for any *)
(* number of peers, connections and calls.                                 *)
(*                                                                         *)
(* The first rests on counting: epoll owes the queue as many bytes of the  *)
(* pipe as there are requests in it (Enough).  The second rests on who     *)
(* owns a connection: until its end is reported it is PeerService's, and   *)
(* the end is reported once (Owned).                                       *)
(***************************************************************************)
EXTENDS EpollService, FiniteSetTheorems, SequenceTheorems, WellFoundedInduction, TLAPS

Conns == [peer : Peers, fd : Nat, nth : Nat]
Request == [type : {"Subscribe", "UnSubscribe", "WriteEvent"}, conn : Conns]
           \cup [type : {"Deactivate"}]
EventTypes == Messages \cup {"accepted", "written", "notWritten", "subscribed", "ctlError", "closed"}
PeerEvent == [type : EventTypes, peer : Peers]
Event == PeerEvent \cup [type : {"epollError"}]
Batch == [kind : {"error"}] \cup [kind : {"none"}, notified : BOOLEAN]
         \cup [kind : {"end", "out"} \cup Messages, conn : Conns, notified : BOOLEAN]

Typed ==
    /\ peerFds \subseteq Conns /\ open \subseteq Conns /\ IsFiniteSet(open)
    /\ subscribed \subseteq Conns /\ writable \subseteq Conns
    /\ requests \in Seq(Request) /\ events \in Seq(Event)
    /\ pipe \in Nat /\ connects \in Nat /\ batch \in Batch
    /\ pc = "events" => batch.kind # "error"
    /\ pc = "unsubscribe" => batch.kind = "end"

(* The bytes that BitTorrentManager has yet to write, and that the batch   *)
(* will read.                                                              *)
Coming == IF turn \in {"notify", "shutdown"} THEN 1 ELSE 0
Read1 == IF batch.notified THEN 1 ELSE 0

Enough ==
    /\ pc \in {"requests", "events"} /\ batch.kind # "error" => Read1 <= pipe
    /\ pc \in {"wait", "unsubscribe"} => Len(requests) <= pipe + Coming
    /\ pc = "events" => Len(requests) + Read1 <= pipe + Coming

(* A connection lives until it is closed or its end is reported. *)
Live == IF pc = "unsubscribe" THEN open \ {batch.conn} ELSE open
Ended(p) == [type |-> "closed", peer |-> p]
Closed == {p \in Peers : Reported("closed", p)}
Once == \A p \in Peers : \A i, j \in 1 .. Len(events) :
            events[i] = Ended(p) /\ events[j] = Ended(p) => i = j
Kept(c) == c.peer \in timestamps \/ Requested("UnSubscribe", c)

Owned ==
    /\ pc = "unsubscribe" => batch.conn \in open
    /\ \A c, d \in open : c.fd = d.fd => c = d
    /\ \A c, d \in peerFds : c.peer = d.peer => c = d
    /\ Live \subseteq peerFds
    /\ \A c \in Live : c.peer \notin Closed
    /\ \A p \in Closed : PeerFd(p) # {}
    /\ Once
    /\ \A c \in peerFds : c.peer \in Closed \/ (c \in Live /\ Kept(c))

Works == state = "Active" /\ odd = {}
Sockets == Typed /\ Enough /\ (Works => Owned)

------------------------------------------------------------------------------
(* Sequences: what is in them, and how often. *)
AtMostOnce(s, x) == \A i, j \in 1 .. Len(s) : s[i] = x /\ s[j] = x => i = j

(* What is in a sequence. *)
LEMMA InRange ==
  ASSUME NEW S, NEW s \in Seq(S), NEW x
  PROVE  x \in Range(s) <=> \E i \in 1 .. Len(s) : s[i] = x
BY DEF Range

(* Appending an element. *)
LEMMA Appending ==
  ASSUME NEW S, NEW s \in Seq(S), NEW e \in S, NEW x
  PROVE  /\ Append(s, e) \in Seq(S) /\ Len(Append(s, e)) = Len(s) + 1
         /\ x \in Range(Append(s, e)) <=> x \in Range(s) \/ x = e
         /\ AtMostOnce(s, x) /\ (x = e => x \notin Range(s)) => AtMostOnce(Append(s, e), x)
<1> DEFINE a == Append(s, e)
           n == Len(s)
<1>1. a \in Seq(S) /\ Len(a) = n + 1 /\ n \in Nat /\ a[n + 1] = e /\ (\A i \in 1 .. n : a[i] = s[i])
  OBVIOUS
<1> HIDE DEF a
<1>2. x \in Range(a) <=> \E i \in 1 .. n + 1 : a[i] = x
  BY <1>1, InRange
<1>3. x \in Range(s) <=> \E i \in 1 .. n : s[i] = x
  BY InRange
<1>4. \A i \in 1 .. n + 1 : i = n + 1 \/ i \in 1 .. n
  BY <1>1
<1>5. n + 1 \in 1 .. n + 1 /\ \A i \in 1 .. n : i \in 1 .. n + 1
  BY <1>1
<1> HIDE DEF n
<1>6. x \in Range(a) <=> x \in Range(s) \/ x = e
  BY <1>1, <1>2, <1>3, <1>4, <1>5
<1>7. ASSUME AtMostOnce(s, x), x = e => x \notin Range(s) PROVE AtMostOnce(a, x)
  <2>1. \A i \in 1 .. n : x = e => s[i] # x
    BY <1>3, <1>7
  <2>2. \A i, j \in 1 .. n : s[i] = x /\ s[j] = x => i = j
    BY <1>7 DEF AtMostOnce, n
  <2>3. ASSUME NEW i \in 1 .. n + 1, NEW j \in 1 .. n + 1, a[i] = x, a[j] = x PROVE i = j
    BY <1>1, <1>4, <2>1, <2>2, <2>3
  <2>4. QED
    BY <1>1, <2>3 DEF AtMostOnce
<1>8. QED
  BY <1>1, <1>6, <1>7 DEF a, n

(* Taking the first element. *)
LEMMA Taking ==
  ASSUME NEW S, NEW s \in Seq(S), s # <<>>, NEW x
  PROVE  /\ Tail(s) \in Seq(S) /\ Len(Tail(s)) = Len(s) - 1 /\ Head(s) \in S /\ Len(s) \in Nat \ {0}
         /\ x \in Range(s) <=> x \in Range(Tail(s)) \/ x = Head(s)
         /\ AtMostOnce(s, x) => AtMostOnce(Tail(s), x) /\ (x = Head(s) => x \notin Range(Tail(s)))
<1> DEFINE t == Tail(s)
           n == Len(s)
           m == n - 1
<1>1. /\ t \in Seq(S) /\ Len(t) = m /\ n \in Nat \ {0} /\ Head(s) = s[1] /\ s[1] \in S
      /\ \A i \in 1 .. m : t[i] = s[i + 1]
  OBVIOUS
<1> HIDE DEF t
<1>2. x \in Range(t) <=> \E i \in 1 .. m : t[i] = x
  BY <1>1, InRange
<1>3. x \in Range(s) <=> \E i \in 1 .. n : s[i] = x
  BY InRange
<1> HIDE DEF n
<1>4. \A i \in 1 .. n : i = 1 \/ (i - 1 \in 1 .. m /\ (i - 1) + 1 = i)
  BY <1>1
<1>5. 1 \in 1 .. n /\ \A i \in 1 .. m : i + 1 \in 1 .. n /\ i + 1 # 1
  BY <1>1
<1>6. x \in Range(s) <=> x \in Range(t) \/ x = Head(s)
  <2>1. ASSUME NEW i \in 1 .. n, s[i] = x PROVE x \in Range(t) \/ x = Head(s)
    BY <1>1, <1>2, <1>4, <2>1
  <2>2. ASSUME x \in Range(t) \/ x = Head(s) PROVE \E i \in 1 .. n : s[i] = x
    BY <1>1, <1>2, <1>5, <2>2
  <2>3. QED
    BY <1>3, <2>1, <2>2
<1>7. ASSUME AtMostOnce(s, x) PROVE AtMostOnce(t, x) /\ (x = Head(s) => x \notin Range(t))
  <2>1. \A i, j \in 1 .. n : s[i] = x /\ s[j] = x => i = j
    BY <1>7 DEF AtMostOnce, n
  <2>2. ASSUME NEW i \in 1 .. m, NEW j \in 1 .. m, t[i] = x, t[j] = x PROVE i = j
    <3>1. i + 1 = j + 1
      BY <1>1, <1>5, <2>1, <2>2
    <3>2. QED
      BY <3>1
  <2>3. ASSUME x = Head(s), NEW i \in 1 .. m PROVE t[i] # x
    BY <1>1, <1>5, <2>1, <2>3
  <2>4. QED
    BY <1>1, <1>2, <2>2, <2>3 DEF AtMostOnce
<1>8. QED
  BY <1>1, <1>6, <1>7 DEF t, n

(* Two elements are appended one after the other. *)
LEMMA ConcatOne ==
  ASSUME NEW S, NEW s \in Seq(S), NEW a \in S
  PROVE  s \o <<a>> = Append(s, a)
<1>1. s \o <<a>> \in Seq(S) /\ Append(s, a) \in Seq(S)
  OBVIOUS
<1>2. Len(s \o <<a>>) = Len(s) + 1 /\ Len(Append(s, a)) = Len(s) + 1
  OBVIOUS
<1>3. \A i \in 1 .. Len(s) + 1 : (s \o <<a>>)[i] = Append(s, a)[i]
  OBVIOUS
<1>4. QED
  BY <1>1, <1>2, <1>3, SeqEqual

(* Two events that are appended at once are appended one after the other.  *)
LEMMA ConcatTwo ==
  ASSUME NEW S, NEW s \in Seq(S), NEW a \in S, NEW b \in S
  PROVE  s \o <<a, b>> = Append(Append(s, a), b)
<1>1. s \o <<a, b>> \in Seq(S) /\ Append(Append(s, a), b) \in Seq(S)
  OBVIOUS
<1>2. Len(s \o <<a, b>>) = Len(s) + 2 /\ Len(Append(Append(s, a), b)) = Len(s) + 2
  OBVIOUS
<1>3. \A i \in 1 .. Len(s) + 2 : (s \o <<a, b>>)[i] = Append(Append(s, a), b)[i]
  OBVIOUS
<1>4. QED
  BY <1>1, <1>2, <1>3, SeqEqual

------------------------------------------------------------------------------
(* Descriptors. *)

(* A non-empty set of numbers has a smallest. *)
LEMMA Smallest ==
  ASSUME NEW K \in SUBSET Nat, K # {}
  PROVE  Min(K) \in K
<1>1. PICK k \in K : \A j \in K : ~(<<j, k>> \in OpToRel(<, Nat))
  BY NatLessThanWellFounded, WFMin
<1>2. \A j \in K : ~(j < k)
  BY <1>1 DEF OpToRel
<1>3. \A j \in K : k =< j
  BY <1>2
<1>4. QED
  BY <1>3 DEF Min

(* The kernel's descriptor is one that no open socket has: there are more  *)
(* to choose from than sockets.                                            *)
LEMMA FreeFd ==
  ASSUME Typed
  PROVE  LowestFd \in Nat /\ \A c \in open : c.fd # LowestFd
<1> DEFINE fds == {c.fd : c \in open}
           n == Cardinality(open)
           f == [c \in open |-> c.fd]
<1>1. IsFiniteSet(open) /\ n \in Nat
  BY FS_CardinalityType DEF Typed
<1>2. IsFiniteSet(fds) /\ Cardinality(fds) <= n
  <2>1. f \in [open -> fds] /\ \A t \in fds : \E c \in open : f[c] = t
    OBVIOUS
  <2>2. f \in Surjection(open, fds)
    BY <2>1 DEF Surjection
  <2> HIDE DEF fds, f
  <2>3. IsFiniteSet(fds) /\ Cardinality(fds) <= Cardinality(open)
    BY <1>1, <2>2, FS_Surjection
  <2>4. QED
    BY <2>3
<1> HIDE DEF fds, n
<1>3. Cardinality(1 .. n + 1) = n + 1 /\ IsFiniteSet(1 .. n + 1)
  <2>1. n + 1 \in Nat /\ 1 <= n + 1 /\ (n + 1) - 1 + 1 = n + 1
    BY <1>1
  <2>2. QED
    BY <2>1, FS_Interval
<1>4. ~(1 .. n + 1 \subseteq fds)
  <2>1. SUFFICES ASSUME 1 .. n + 1 \subseteq fds PROVE FALSE
    OBVIOUS
  <2>2. Cardinality(1 .. n + 1) <= Cardinality(fds)
    BY <1>2, <2>1, FS_Subset
  <2>3. Cardinality(fds) \in Nat
    BY <1>2, FS_CardinalityType
  <2>4. QED
    BY <1>1, <1>2, <1>3, <2>2, <2>3
<1>5. LowestFd = Min((1 .. n + 1) \ fds)
  BY DEF LowestFd, fds, n
<1>6. (1 .. n + 1) \ fds \in SUBSET Nat /\ (1 .. n + 1) \ fds # {}
  BY <1>1, <1>4
<1>7. LowestFd \in (1 .. n + 1) \ fds
  BY <1>5, <1>6, Smallest
<1>8. LowestFd \in Nat /\ LowestFd \notin fds
  BY <1>6, <1>7
<1>9. QED
  BY <1>8 DEF fds

------------------------------------------------------------------------------
(* Types, and the bytes of the pipe. *)

(* Requests and events that are pushed. *)
LEMMA Made ==
  /\ \A c \in Conns : \A x \in {"Subscribe", "UnSubscribe", "WriteEvent"} :
        [type |-> x, conn |-> c] \in Request
  /\ [type |-> "Deactivate"] \in Request /\ [type |-> "epollError"] \in Event
  /\ \A p \in Peers : \A x \in EventTypes : [type |-> x, peer |-> p] \in Event
  /\ \A c \in Conns : c.peer \in Peers /\ c.fd \in Nat
  /\ \A done \in BOOLEAN : Ctl(done) \in {"subscribed", "ctlError"}
BY DEF Request, Event, PeerEvent, Conns, Ctl

(* A step of BitTorrentManager that pushes a request is about to notify. *)
LEMMA BtmPushes ==
  ASSUME Typed, Enough, UNCHANGED <<pipe, pc, batch>>, Coming = 0,
         \/ \E r \in Request : requests' = Append(requests, r) /\ Coming' = 1
         \/ requests' = requests /\ Coming' = 0
  PROVE  requests' \in Seq(Request) /\ Enough'
<1>1. requests \in Seq(Request) /\ pipe \in Nat /\ Len(requests) \in Nat /\ Read1 \in {0, 1}
  BY DEF Typed, Read1
<1>2. requests' \in Seq(Request) /\ Len(requests') <= Len(requests) + Coming'
      /\ Coming' \in {0, 1} /\ Len(requests') \in Nat
  <2>1. ASSUME NEW r \in Request, requests' = Append(requests, r), Coming' = 1
        PROVE  requests' \in Seq(Request) /\ Len(requests') = Len(requests) + 1
    BY <1>1, <2>1
  <2>2. QED
    BY <1>1, <2>1
<1>3. Read1' = Read1
  BY DEF Read1
<1>4. /\ pc \in {"wait", "unsubscribe"} => Len(requests) <= pipe
      /\ pc = "events" => Len(requests) + Read1 <= pipe
      /\ pc \in {"requests", "events"} /\ batch.kind # "error" => Read1 <= pipe
  BY <1>1 DEF Enough
<1> HIDE DEF Coming, Read1
<1>5. Len(requests) <= pipe => Len(requests') <= pipe + Coming'
  BY <1>1, <1>2
<1>6. Len(requests) + Read1 <= pipe => Len(requests') + Read1 <= pipe + Coming'
  BY <1>1, <1>2
<1>7. QED
  BY <1>2, <1>3, <1>4, <1>5, <1>6 DEF Enough

(* A connection of PeerService that is asked to end. *)
LEMMA Disconnecting ==
  ASSUME Typed, NEW p, NEW mute, DisconnectClient(p, mute)
  PROVE  \/ \E c \in PeerFd(p) : /\ requests' = Append(requests, [type |-> "UnSubscribe", conn |-> c])
                                 /\ [type |-> "UnSubscribe", conn |-> c] \in Request /\ Coming' = 1
         \/ PeerFd(p) = {} /\ requests' = requests /\ Coming' = 0
<1>1. \A c \in PeerFd(p) : c \in Conns
  BY DEF Typed, PeerFd
<1>2. CASE PeerFd(p) # {} /\ turn' = "notify" /\ \E c \in PeerFd(p) : Requests("UnSubscribe", c)
  <2>1. PICK c \in PeerFd(p) : Requests("UnSubscribe", c)
    BY <1>2
  <2>2. Coming' = 1
    BY <1>2 DEF Coming
  <2>3. [type |-> "UnSubscribe", conn |-> c] \in Request
    BY <1>1, Made
  <2>4. requests' = Append(requests, [type |-> "UnSubscribe", conn |-> c])
    BY <2>1 DEF Requests
  <2>5. QED
    BY <2>2, <2>3, <2>4
<1>3. CASE PeerFd(p) = {} /\ TurnEnds(mute) /\ UNCHANGED requests
  BY <1>3 DEF TurnEnds, Coming
<1>4. QED
  BY <1>2, <1>3 DEF DisconnectClient

(* The steps of BitTorrentManager's thread. *)
LEMMA BtmTyped ==
  ASSUME Typed, Enough,
         Notify \/ Read \/ ActivityCheck \/ RequestStats \/ Shutdown \/ \E p \in Peers : Calls(p)
  PROVE  Typed' /\ Enough'
<1> USE DEF btmVars, epollVars, watchVars
<1>1. /\ requests \in Seq(Request) /\ events \in Seq(Event) /\ peerFds \subseteq Conns
      /\ open \subseteq Conns /\ IsFiniteSet(open) /\ pipe \in Nat /\ connects \in Nat
  BY DEF Typed
<1>2. ASSUME UNCHANGED <<pipe, pc, batch, subscribed, writable, events, open, connects>>,
             peerFds' \subseteq peerFds, requests' \in Seq(Request)
      PROVE  Typed'
  BY <1>1, <1>2 DEF Typed
<1>3. CASE Notify
  <2>1. /\ pipe' = pipe + 1 /\ Coming = 1
        /\ UNCHANGED <<peerFds, requests, events, pc, batch, subscribed, writable, open, connects>>
    BY <1>3 DEF Notify, Coming
  <2>2. Coming' \in {0, 1} /\ Read1 \in {0, 1} /\ Read1' = Read1 /\ Len(requests) \in Nat
    BY <1>1, <2>1 DEF Coming, Read1
  <2>3. pipe' + Coming' >= pipe + Coming /\ pipe' \in Nat /\ pipe' >= pipe
    <3>1. pipe \in Nat /\ pipe' = pipe + 1 /\ Coming = 1 /\ Coming' \in {0, 1}
      BY <1>1, <2>1, <2>2
    <3>2. pipe' \in Nat /\ pipe' >= pipe /\ pipe' >= pipe + 1
      BY <3>1
    <3>3. CASE Coming' = 0
      BY <3>1, <3>2, <3>3
    <3>4. CASE Coming' = 1
      BY <3>1, <3>2, <3>4
    <3>5. QED
      BY <3>1, <3>2, <3>3, <3>4
  <2>4. Typed'
    BY <2>1, <2>3 DEF Typed
  <2> HIDE DEF Coming, Read1
  <2>5. /\ pc \in {"wait", "unsubscribe"} => Len(requests) <= pipe' + Coming'
        /\ pc = "events" => Len(requests) + Read1 <= pipe' + Coming'
        /\ pc \in {"requests", "events"} /\ batch.kind # "error" => Read1 <= pipe'
    BY <1>1, <2>1, <2>2, <2>3 DEF Enough
  <2>6. QED
    BY <2>1, <2>2, <2>4, <2>5 DEF Enough
<1>4. CASE Read
  <2>1. /\ UNCHANGED <<pipe, pc, batch, subscribed, writable, open, connects>>
        /\ events' = Tail(events) /\ events # <<>> /\ turn = "idle"
    BY <1>4 DEF Read
  <2>2. Coming = 0
    BY <2>1 DEF Coming
  <2>3. events' \in Seq(Event)
    BY <1>1, <2>1, Taking
  <2>4. /\ peerFds' \subseteq peerFds
        /\ \/ \E r \in Request : requests' = Append(requests, r) /\ Coming' = 1
           \/ requests' = requests /\ Coming' = 0
    <3> DEFINE e == Head(events)
               q == e.peer
    <3>1. CASE /\ e.type \in {"message", "accepted", "written"}
               /\ Heard(q) /\ TurnEnds(silent \ {q})
               /\ UNCHANGED <<peerFds, tracked, requests>>
      BY <3>1 DEF TurnEnds, Coming
    <3>2. CASE /\ e.type \in {"keepAlive", "subscribed"} /\ TurnEnds(silent)
               /\ UNCHANGED <<btmVars, requests>>
      BY <3>2 DEF TurnEnds, Coming
    <3>3. CASE /\ e.type = "garbled" /\ TurnEnds(silent)
               /\ tracked' = tracked \ {q}
               /\ UNCHANGED <<peerFds, timestamps, silent, requests>>
      BY <3>3 DEF TurnEnds, Coming
    <3>4. CASE /\ e.type \in {"notWritten", "ctlError"}
               /\ tracked' = tracked \ {q} /\ DisconnectClient(q, silent)
               /\ UNCHANGED <<peerFds, timestamps, silent>>
      BY <3>4, Disconnecting
    <3>5. CASE /\ e.type = "closed"
               /\ tracked' = tracked \ {q} /\ OnClientDisconnect(q) /\ TurnEnds(silent')
               /\ UNCHANGED requests
      BY <3>5 DEF TurnEnds, Coming, OnClientDisconnect
    <3>6. QED
      BY <1>4, <3>1, <3>2, <3>3, <3>4, <3>5 DEF Read
  <2>5. requests' \in Seq(Request) /\ Enough'
    BY <2>1, <2>2, <2>4, BtmPushes
  <2>6. Typed'
    BY <2>1, <2>3, <2>4, <2>5 DEF Typed
  <2>7. QED
    BY <2>5, <2>6
<1>5. CASE ActivityCheck
  <2>1. /\ UNCHANGED <<pipe, pc, batch, subscribed, writable, events, open, connects, peerFds>>
        /\ turn = "check"
    BY <1>5 DEF ActivityCheck
  <2>2. \E p \in silent : DisconnectClient(p, silent \ {p})
    BY <1>5 DEF ActivityCheck
  <2>3. \/ \E r \in Request : requests' = Append(requests, r) /\ Coming' = 1
        \/ requests' = requests /\ Coming' = 0
    BY <2>2, Disconnecting
  <2>4. Coming = 0
    BY <2>1 DEF Coming
  <2>5. QED
    BY <1>2, <2>1, <2>3, <2>4, BtmPushes
<1>6. CASE RequestStats
  <2>1. /\ UNCHANGED <<pipe, pc, batch, subscribed, writable, events, open, connects, peerFds, requests>>
        /\ Coming = 0 /\ Coming' = 0
    BY <1>6 DEF RequestStats, Coming
  <2>2. QED
    BY <1>1, <1>2, <2>1, BtmPushes
<1>7. CASE Shutdown
  <2>1. /\ UNCHANGED <<pipe, pc, batch, subscribed, writable, events, open, connects, peerFds>>
        /\ requests' = Append(requests, [type |-> "Deactivate"]) /\ Coming = 0 /\ Coming' = 1
    BY <1>7 DEF Shutdown, Coming
  <2>2. [type |-> "Deactivate"] \in Request
    BY Made
  <2>3. QED
    BY <1>2, <2>1, <2>2, BtmPushes
<1>8. ASSUME NEW p \in Peers, Connect(p) PROVE Typed' /\ Enough'
  <2> DEFINE c == [peer |-> p, fd |-> LowestFd, nth |-> connects]
  <2>1. /\ UNCHANGED <<pipe, pc, batch, subscribed, writable, events>>
        /\ peerFds' = (peerFds \ PeerFd(p)) \cup {c} /\ open' = open \cup {c}
        /\ requests' = Append(requests, [type |-> "Subscribe", conn |-> c])
        /\ connects' = connects + 1 /\ Coming = 0 /\ Coming' = 1
    BY <1>8 DEF Connect, Requests, Coming
  <2>2. c \in Conns
    BY <1>1, FreeFd DEF Conns
  <2> HIDE DEF c
  <2>3. [type |-> "Subscribe", conn |-> c] \in Request
    BY <2>2, Made
  <2>4. requests' \in Seq(Request) /\ Enough'
    BY <2>1, <2>3, BtmPushes
  <2>5. IsFiniteSet(open')
    BY <1>1, <2>1, FS_AddElement
  <2>6. connects' \in Nat
    BY <1>1, <2>1
  <2>7. Typed'
    BY <1>1, <2>1, <2>2, <2>4, <2>5, <2>6 DEF Typed
  <2>8. QED
    BY <2>4, <2>7
<1>9. ASSUME NEW p \in Peers, Write(p) PROVE Typed' /\ Enough'
  <2>1. /\ UNCHANGED <<pipe, pc, batch, subscribed, writable, events, open, connects, peerFds>>
        /\ Coming = 0 /\ Coming' = 1
    BY <1>9 DEF Write, Coming
  <2>2. PICK c \in PeerFd(p) : requests' = Append(requests, [type |-> "WriteEvent", conn |-> c])
    BY <1>9 DEF Write, Requests
  <2>3. c \in Conns
    BY <1>1 DEF PeerFd
  <2>4. [type |-> "WriteEvent", conn |-> c] \in Request
    BY <2>3, Made
  <2>5. QED
    BY <1>2, <2>1, <2>2, <2>4, BtmPushes
<1>10. ASSUME NEW p \in Peers, Disconnect(p) PROVE Typed' /\ Enough'
  <2>1. /\ UNCHANGED <<pipe, pc, batch, subscribed, writable, events, open, connects, peerFds>>
        /\ Coming = 0 /\ DisconnectClient(p, silent)
    BY <1>10 DEF Disconnect, Coming
  <2>2. \/ \E r \in Request : requests' = Append(requests, r) /\ Coming' = 1
        \/ requests' = requests /\ Coming' = 0
    BY <2>1, Disconnecting
  <2>3. QED
    BY <1>2, <2>1, <2>2, BtmPushes
<1>11. ASSUME NEW p \in Peers, ConnectFails(p) \/ TenSecondsPass(p) PROVE Typed' /\ Enough'
  <2>1. /\ UNCHANGED <<pipe, pc, batch, subscribed, writable, events, open, connects, requests, turn>>
        /\ peerFds' \subseteq peerFds
    BY <1>11 DEF ConnectFails, TenSecondsPass
  <2>2. Typed'
    BY <1>1, <1>2, <2>1
  <2>3. QED
    BY <2>1, <2>2 DEF Enough, Coming, Read1
<1>12. QED
  BY <1>3, <1>4, <1>5, <1>6, <1>7, <1>8, <1>9, <1>10, <1>11 DEF Calls

(* The steps of epoll's thread: what it pushes, removes and waits for. *)
LEMMA EpollTyped ==
  ASSUME Typed, Enough, Wait \/ Epoll
  PROVE  Typed' /\ Enough'
<1> USE DEF btmVars, epollVars, watchVars
<1>1. /\ requests \in Seq(Request) /\ events \in Seq(Event) /\ peerFds \subseteq Conns
      /\ open \subseteq Conns /\ IsFiniteSet(open) /\ pipe \in Nat /\ connects \in Nat
      /\ subscribed \subseteq Conns /\ writable \subseteq Conns /\ batch \in Batch
      /\ Len(requests) \in Nat /\ Coming \in {0, 1} /\ Read1 \in {0, 1}
  BY DEF Typed, Coming, Read1
<1>2. Nothing \in Batch /\ Nothing.kind = "none" /\ ~Nothing.notified
  BY DEF Batch, Nothing
<1>3. CASE Wait
  <2>1. /\ UNCHANGED <<peerFds, open, subscribed, writable, requests, events, pipe, connects, turn>>
        /\ pc' = "requests"
    BY <1>3 DEF Wait
  <2>2. batch' \in Batch /\ (batch'.kind # "error" => Read1' <= pipe)
    <3>1. CASE batch' = [kind |-> "error"]
      BY <3>1 DEF Batch
    <3>2. CASE pipe > 0 /\ batch' = [kind |-> "none", notified |-> TRUE]
      BY <1>1, <3>2 DEF Batch, Read1
    <3>3. ASSUME NEW e \in SocketEvents,
                 batch' = [kind |-> e.kind, conn |-> e.conn, notified |-> pipe > 0]
          PROVE  batch' \in Batch /\ Read1' <= pipe
      <4>1. e.kind \in {"end", "out"} \cup Messages /\ e.conn \in Conns
        BY <1>1 DEF SocketEvents
      <4>2. (pipe > 0) \in BOOLEAN
        OBVIOUS
      <4>3. batch' \in Batch
        BY <3>3, <4>1, <4>2 DEF Batch
      <4>4. batch'.notified = (pipe > 0)
        BY <3>3
      <4>5. Read1' = IF pipe > 0 THEN 1 ELSE 0
        BY <4>4 DEF Read1
      <4>6. Read1' <= pipe
        <5>1. pipe > 0 \/ pipe = 0
          BY <1>1
        <5>2. CASE pipe > 0
          BY <1>1, <4>5, <5>2
        <5>3. CASE pipe = 0
          BY <1>1, <4>5, <5>3
        <5>4. QED
          BY <5>1, <5>2, <5>3
      <4>7. QED
        BY <4>3, <4>6
    <3>4. QED
      BY <1>3, <3>1, <3>2, <3>3 DEF Wait
  <2>3. Typed'
    BY <2>1, <2>2 DEF Typed
  <2>4. Enough'
    BY <2>1, <2>2 DEF Enough
  <2>5. QED
    BY <2>3, <2>4
<1>4. CASE Ends
  <2>1. /\ UNCHANGED <<peerFds, open, subscribed, writable, requests, pipe, connects, turn>>
        /\ pc' = "ended" /\ batch' = Nothing
    BY <1>4 DEF Ends
  <2>2. events' \in Seq(Event)
    <3>1. [type |-> "epollError"] \in Event
      BY Made
    <3>2. events' = events \/ events' = Append(events, [type |-> "epollError"])
      BY <1>4 DEF Ends
    <3>3. QED
      BY <1>1, <3>1, <3>2, AppendProperties
  <2>3. QED
    BY <1>1, <1>2, <2>1, <2>2 DEF Typed, Enough
<1>5. CASE RequestsTaken
  <2>1. /\ UNCHANGED <<peerFds, open, subscribed, writable, requests, events, pipe, connects, turn, batch>>
        /\ pc = "requests" /\ pc' = "events" /\ requests = <<>> /\ batch.kind # "error"
    BY <1>5 DEF RequestsTaken
  <2>2. Typed'
    BY <2>1 DEF Typed
  <2>3. Len(requests) = 0 /\ Read1' = Read1 /\ Coming' = Coming
    BY <2>1 DEF Read1, Coming
  <2>4. Read1 <= pipe
    BY <2>1 DEF Enough
  <2>5. Len(requests) + Read1 <= pipe + Coming
    BY <1>1, <2>3, <2>4
  <2>6. QED
    BY <2>1, <2>2, <2>3, <2>4, <2>5 DEF Enough
<1>6. CASE TakeRequest
  <2> DEFINE r == Head(requests)
  <2>1. /\ UNCHANGED <<peerFds, turn, pipe, pc, batch, connects>>
        /\ pc = "requests" /\ requests # <<>> /\ requests' = Tail(requests)
    BY <1>6 DEF TakeRequest
  <2>2. requests' \in Seq(Request) /\ r \in Request
    BY <1>1, <2>1, Taking
  <2>3. r.type # "Deactivate" => r.conn \in Conns
    BY <2>2 DEF Request
  <2>4. \A c \in Conns : SameFd(c) \subseteq Conns
    BY <1>1 DEF SameFd
  <2> HIDE DEF r
  <2>5. /\ events' \in Seq(Event) /\ open' \subseteq Conns /\ IsFiniteSet(open')
        /\ subscribed' \subseteq Conns /\ writable' \subseteq Conns
    <3>1. CASE r.type = "Subscribe" /\ Subscribe(r.conn)
      <4>1. r.conn \in Conns
        BY <2>3, <3>1
      <4>2. \E done \in BOOLEAN : events' = Append(events, [type |-> Ctl(done), peer |-> r.conn.peer])
        BY <3>1 DEF Subscribe, Pushes
      <4>3. events' \in Seq(Event)
        <5>1. \A done \in BOOLEAN : [type |-> Ctl(done), peer |-> r.conn.peer] \in Event
          BY <4>1, Made DEF EventTypes
        <5>2. QED
          BY <1>1, <4>2, <5>1, AppendProperties
      <4>4. open' = open /\ subscribed' \subseteq subscribed \cup {r.conn}
            /\ writable' \subseteq writable \cup {r.conn}
        BY <3>1 DEF Subscribe
      <4>5. QED
        BY <1>1, <4>1, <4>3, <4>4
    <3>2. CASE /\ r.type = "UnSubscribe" /\ Unsubscribe(r.conn)
               /\ events' = events \o <<[type |-> Ctl(SameFd(r.conn) # {}), peer |-> r.conn.peer],
                                        [type |-> "closed", peer |-> r.conn.peer]>>
      <4>1. r.conn \in Conns
        BY <2>3, <3>2
      <4>2. events' \in Seq(Event)
        <5>1. /\ [type |-> Ctl(SameFd(r.conn) # {}), peer |-> r.conn.peer] \in Event
              /\ [type |-> "closed", peer |-> r.conn.peer] \in Event
          BY <4>1, Made DEF EventTypes
        <5> DEFINE a == [type |-> Ctl(SameFd(r.conn) # {}), peer |-> r.conn.peer]
                   b == [type |-> "closed", peer |-> r.conn.peer]
        <5>2. a \in Event /\ b \in Event /\ events' = events \o <<a, b>>
          BY <3>2, <5>1
        <5> HIDE DEF a, b
        <5>3. QED
          BY <1>1, <5>2
      <4>3. open' \subseteq open /\ subscribed' \subseteq subscribed /\ writable' \subseteq writable
        BY <3>2 DEF Unsubscribe
      <4>4. IsFiniteSet(open')
        BY <1>1, <4>3, FS_Subset
      <4>5. QED
        BY <1>1, <4>2, <4>3, <4>4
    <3>3. CASE r.type = "Deactivate" /\ UNCHANGED <<events, watchVars, open>>
      BY <1>1, <3>3
    <3>4. CASE /\ r.type = "WriteEvent"
               /\ writable' = writable \cup SameFd(r.conn)
               /\ UNCHANGED <<events, subscribed, open>>
      BY <1>1, <2>3, <2>4, <3>4
    <3>5. QED
      BY <1>6, <3>1, <3>2, <3>3, <3>4 DEF TakeRequest, r
  <2>6. Typed'
    BY <1>1, <2>1, <2>2, <2>5 DEF Typed
  <2>7. Enough'
    BY <2>1 DEF Enough, Read1
  <2>8. QED
    BY <2>6, <2>7
<1>7. CASE HandleBatch
  <2>1. /\ UNCHANGED <<peerFds, turn, requests, open, connects>>
        /\ pc = "events" /\ pipe' = ReadsNotification
    BY <1>7 DEF HandleBatch
  <2>2. Read1 <= pipe /\ Len(requests) + Read1 <= pipe + Coming /\ Coming' = Coming
    BY <2>1 DEF Enough, Typed, Coming
  <2>3. pipe' \in Nat /\ Len(requests) <= pipe' + Coming
    <3>1. pipe' = pipe - Read1
      BY <1>1, <2>1 DEF ReadsNotification, Read1
    <3>2. QED
      BY <1>1, <2>2, <3>1
  <2>4. /\ events' \in Seq(Event) /\ subscribed' \subseteq Conns /\ writable' \subseteq Conns
        /\ \/ pc' = "wait" /\ batch' = Nothing
           \/ pc' = "unsubscribe" /\ batch' = batch /\ batch.kind = "end"
    <3>0. ASSUME batch.kind \in {"end", "out"} \cup Messages
          PROVE  batch.conn \in Conns
      BY <1>1, <3>0 DEF Batch, Messages
    <3>1. CASE Waits /\ UNCHANGED <<events, watchVars>>
      BY <1>1, <3>1 DEF Waits
    <3>2. CASE /\ batch.kind \in Messages \/ batch.kind = "end"
               /\ Pushes(IF batch.kind = "end" THEN "closed" ELSE batch.kind, batch.conn.peer)
               /\ UNCHANGED watchVars
               /\ \/ Waits
                  \/ pc' = "unsubscribe" /\ batch' = batch /\ batch.kind = "end"
      <4> DEFINE x == IF batch.kind = "end" THEN "closed" ELSE batch.kind
                 e == [type |-> x, peer |-> batch.conn.peer]
      <4>1. batch.conn \in Conns /\ x \in EventTypes
        BY <3>0, <3>2 DEF EventTypes
      <4>2. e \in Event
        BY <4>1, Made
      <4>3. events' = Append(events, e)
        BY <3>2 DEF Pushes
      <4> HIDE DEF e
      <4>4. events' \in Seq(Event)
        BY <1>1, <4>2, <4>3, AppendProperties
      <4>5. QED
        BY <1>1, <3>2, <4>4 DEF Waits
    <3>3. CASE batch.kind = "out" /\ Out(batch.conn) /\ Waits
      <4> DEFINE q == batch.conn.peer
                 accepted == IF q \in pending THEN <<[type |-> "accepted", peer |-> q]>> ELSE <<>>
      <4>1. batch.conn \in Conns /\ q \in Peers
        BY <3>0, <3>3, Made
      <4>2. /\ [type |-> "accepted", peer |-> q] \in Event /\ [type |-> "written", peer |-> q] \in Event
            /\ [type |-> "notWritten", peer |-> q] \in Event
        BY <4>1, Made DEF EventTypes
      <4>3. accepted \in Seq(Event)
        BY <4>2
      <4>4. \/ events' = events \o accepted
            \/ events' = events \o accepted \o <<[type |-> "written", peer |-> q]>>
            \/ events' = events \o accepted \o <<[type |-> "notWritten", peer |-> q]>>
        BY <3>3 DEF Out
      <4> HIDE DEF accepted
      <4>5. events' \in Seq(Event)
        <5>1. events \o accepted \in Seq(Event)
          BY <1>1, <4>3
        <5>2. <<[type |-> "written", peer |-> q]>> \in Seq(Event)
              /\ <<[type |-> "notWritten", peer |-> q]>> \in Seq(Event)
          BY <4>2
        <5>3. QED
          BY <4>4, <5>1, <5>2, ConcatProperties
      <4>6. subscribed' = subscribed /\ writable' \subseteq writable
        BY <3>3 DEF Out
      <4>7. QED
        BY <1>1, <3>3, <4>5, <4>6 DEF Waits
    <3>4. QED
      BY <1>7, <3>1, <3>2, <3>3 DEF HandleBatch, Messages
  <2>5. batch' \in Batch
    BY <1>1, <1>2, <2>4
  <2>6. Typed'
    BY <1>1, <2>1, <2>3, <2>4, <2>5 DEF Typed
  <2>7. Enough'
    BY <2>1, <2>2, <2>3, <2>4 DEF Enough
  <2>8. QED
    BY <2>6, <2>7
<1>8. CASE CloseSocket
  <2>1. /\ UNCHANGED <<peerFds, turn, requests, pipe, connects>>
        /\ pc = "unsubscribe" /\ pc' = "wait" /\ batch' = Nothing
        /\ Unsubscribe(batch.conn) /\ Pushes(Ctl(SameFd(batch.conn) # {}), batch.conn.peer)
    BY <1>8 DEF CloseSocket, Waits
  <2>2. batch.conn \in Conns
    BY <1>1, <2>1 DEF Typed, Batch, Messages
  <2>3. events' \in Seq(Event)
    <3> DEFINE e == [type |-> Ctl(SameFd(batch.conn) # {}), peer |-> batch.conn.peer]
    <3>1. e \in Event
      BY <2>2, Made DEF EventTypes
    <3>2. events' = Append(events, e)
      BY <2>1 DEF Pushes
    <3> HIDE DEF e
    <3>3. QED
      BY <1>1, <3>1, <3>2, AppendProperties
  <2>4. open' \subseteq open /\ subscribed' \subseteq subscribed /\ writable' \subseteq writable
    BY <2>1 DEF Unsubscribe
  <2>5. IsFiniteSet(open')
    BY <1>1, <2>4, FS_Subset
  <2>6. Typed'
    BY <1>1, <1>2, <2>1, <2>3, <2>4, <2>5 DEF Typed
  <2>7. Enough'
    BY <2>1 DEF Enough, Coming
  <2>8. QED
    BY <2>6, <2>7
<1>9. QED
  BY <1>3, <1>4, <1>5, <1>6, <1>7, <1>8 DEF Epoll

------------------------------------------------------------------------------
(* Who owns a connection. *)

(* What is pushed to and taken from the events changes Closed and Once     *)
(* only if it is the end of a connection.                                  *)
LEMMA PushEvent ==
  ASSUME Typed, NEW e \in Event, events' = Append(events, e), Once,
         \A p \in Peers : e = Ended(p) => p \notin Closed
  PROVE  Once' /\ Closed' = Closed \cup {p \in Peers : e = Ended(p)}
<1>1. events \in Seq(Event)
  BY DEF Typed
<1>2. \A p \in Peers : Reported("closed", p) <=> Ended(p) \in Range(events)
  BY DEF Reported, Ended
<1>3. \A p \in Peers : Reported("closed", p)' <=> Ended(p) \in Range(events')
  BY DEF Reported, Ended
<1>4. ASSUME NEW p \in Peers
      PROVE  /\ Ended(p) \in Range(events') <=> Ended(p) \in Range(events) \/ Ended(p) = e
             /\ AtMostOnce(events', Ended(p))
  <2>1. AtMostOnce(events, Ended(p))
    BY DEF Once, AtMostOnce
  <2>2. Ended(p) = e => Ended(p) \notin Range(events)
    BY <1>2 DEF Closed
  <2>3. QED
    BY <1>1, <2>1, <2>2, Appending
<1>5. Once'
  BY <1>4 DEF Once, AtMostOnce, Ended
<1>6. Closed' = Closed \cup {p \in Peers : e = Ended(p)}
  BY <1>2, <1>3, <1>4 DEF Closed
<1>7. QED
  BY <1>5, <1>6

(* An event that BitTorrentManager reads is no longer on its way, and no    *)
(* end is then on its way twice.                                           *)
LEMMA TakeEvent ==
  ASSUME Typed, events # <<>>, events' = Tail(events), Once
  PROVE  Once' /\ Closed' = Closed \ {p \in Peers : Head(events) = Ended(p)}
<1>1. events \in Seq(Event)
  BY DEF Typed
<1>2. \A p \in Peers : Reported("closed", p) <=> Ended(p) \in Range(events)
  BY DEF Reported, Ended
<1>3. \A p \in Peers : Reported("closed", p)' <=> Ended(p) \in Range(events')
  BY DEF Reported, Ended
<1>4. ASSUME NEW p \in Peers
      PROVE  /\ Ended(p) \in Range(events) <=> Ended(p) \in Range(events') \/ Ended(p) = Head(events)
             /\ Ended(p) = Head(events) => Ended(p) \notin Range(events')
             /\ AtMostOnce(events', Ended(p))
  <2>1. AtMostOnce(events, Ended(p))
    BY DEF Once, AtMostOnce
  <2>2. QED
    BY <1>1, <2>1, Taking
<1>5. Once'
  BY <1>4 DEF Once, AtMostOnce, Ended
<1>6. Closed' = Closed \ {p \in Peers : Head(events) = Ended(p)}
  BY <1>2, <1>3, <1>4 DEF Closed
<1>7. QED
  BY <1>5, <1>6

(* Two ends are the same if they are of the same peer. *)
LEMMA EndedFacts ==
  /\ \A p, r \in Peers : Ended(p) = Ended(r) => p = r
  /\ \A p, r \in Peers : \A x : x # "closed" => [type |-> x, peer |-> r] # Ended(p)
  /\ \A p \in Peers : [type |-> "epollError"] # Ended(p)
  /\ \A p \in Peers : Ended(p) \in Event /\ Ended(p).type = "closed" /\ Ended(p).peer = p
BY DEF Ended, Event, PeerEvent, EventTypes

(* An event that is no end is pushed. *)
LEMMA PushOther ==
  ASSUME Typed, Once, NEW p \in Peers, NEW x \in EventTypes \ {"closed"},
         events' = Append(events, [type |-> x, peer |-> p])
  PROVE  Once' /\ Closed' = Closed
<1> DEFINE e == [type |-> x, peer |-> p]
<1>1. e \in Event /\ \A r \in Peers : e # Ended(r)
  BY Made, EndedFacts
<1> HIDE DEF e
<1>2. events' = Append(events, e)
  BY DEF e
<1>3. QED
  BY <1>1, <1>2, PushEvent

(* A request that is pushed or taken, and the requests to end. *)
LEMMA PushRequest ==
  ASSUME Typed, NEW r \in Request, requests' = Append(requests, r)
  PROVE  \A c : /\ Requested("UnSubscribe", c) => Requested("UnSubscribe", c)'
                /\ r = [type |-> "UnSubscribe", conn |-> c] => Requested("UnSubscribe", c)'
<1>1. requests \in Seq(Request)
  BY DEF Typed
<1>2. \A x : x \in Range(requests') <=> x \in Range(requests) \/ x = r
  BY <1>1, Appending
<1>3. QED
  BY <1>2 DEF Requested

(* The requests behind the one that epoll takes stay in the queue.         *)
LEMMA TakenRequest ==
  ASSUME Typed, requests # <<>>, requests' = Tail(requests)
  PROVE  \A c : Requested("UnSubscribe", c) /\ Head(requests) # [type |-> "UnSubscribe", conn |-> c]
                   => Requested("UnSubscribe", c)'
<1>1. requests \in Seq(Request)
  BY DEF Typed
<1>2. \A x : x \in Range(requests) <=> x \in Range(requests') \/ x = Head(requests)
  BY <1>1, Taking
<1>3. QED
  BY <1>2 DEF Requested

(* A step that leaves connections, their ends, and what keeps them alone. *)
LEMMA OwnedStays ==
  ASSUME Typed, Owned, UNCHANGED <<open, peerFds, Live, Closed>>, Once',
         pc' = "unsubscribe" => batch'.conn \in open',
         \A c \in peerFds : Kept(c) => Kept(c)'
  PROVE  Owned'
<1>1. \A p : PeerFd(p)' = PeerFd(p)
  BY DEF PeerFd
<1>2. \A c \in peerFds : c.peer \in Closed \/ (c \in Live /\ Kept(c)')
  BY DEF Owned
<1>3. QED
  BY <1>1, <1>2 DEF Owned

(* The end of a live connection is reported: by the only event for it. *)
LEMMA EndReported ==
  ASSUME Typed, Owned, NEW c \in Live, peerFds' = peerFds, open' \subseteq open,
         pc' = "unsubscribe" => batch'.conn \in open',
         Live' = Live \ {c}, Once', Closed' = Closed \cup {c.peer},
         \A d \in peerFds : d # c /\ Kept(d) => Kept(d)'
  PROVE  Owned'
<1>1. \A p : PeerFd(p)' = PeerFd(p)
  BY DEF PeerFd
<1>2. Live \subseteq peerFds /\ c \in peerFds
  BY DEF Owned
<1>3. ASSUME NEW d \in Live' PROVE d.peer \notin Closed'
  <2>1. d \in peerFds /\ d # c /\ d \in Live
    BY <1>2
  <2>2. d.peer # c.peer
    BY <1>2, <2>1 DEF Owned
  <2>3. QED
    BY <2>1, <2>2 DEF Owned
<1>4. ASSUME NEW p \in Closed' PROVE PeerFd(p)' # {}
  <2>1. c \in PeerFd(c.peer)
    BY <1>2 DEF PeerFd
  <2>2. QED
    BY <1>1, <2>1 DEF Owned
<1>5. ASSUME NEW d \in peerFds PROVE d.peer \in Closed' \/ (d \in Live' /\ Kept(d)')
  <2>1. CASE d = c
    BY <2>1
  <2>2. CASE d # c
    BY <2>2 DEF Owned
  <2>3. QED
    BY <2>1, <2>2
<1>6. QED
  BY <1>2, <1>3, <1>4, <1>5 DEF Owned

(* A new connection. *)
LEMMA ConnectOwned ==
  ASSUME Typed, Works => Owned, NEW p \in Peers, Connect(p), Works'
  PROVE  Owned'
<1>0. PICK c : c = [peer |-> p, fd |-> LowestFd, nth |-> connects]
  OBVIOUS
<1>1. /\ peerFds' = (peerFds \ PeerFd(p)) \cup {c} /\ open' = open \cup {c}
      /\ requests' = Append(requests, [type |-> "Subscribe", conn |-> c])
      /\ timestamps' = timestamps \cup {p} /\ UNCHANGED <<events, pc, batch>>
      /\ odd' = IF PeerFd(p) = {} THEN odd ELSE odd \cup {"replaced"}
      /\ state' = state
  BY <1>0 DEF Connect, Requests
<1>2. PeerFd(p) = {} /\ Owned
  BY <1>1 DEF Works
<1>3. c \in Conns /\ c.peer = p /\ \A d \in open : d.fd # c.fd
  BY <1>0, FreeFd DEF Typed, Conns
<1>4. [type |-> "Subscribe", conn |-> c] \in Request
  BY <1>3, Made
<1>5. peerFds' = peerFds \cup {c} /\ c \notin open
  BY <1>1, <1>2, <1>3
<1>6. UNCHANGED <<Closed, Once>>
  BY <1>1 DEF Closed, Once, Reported, Ended
<1>7. Live' = Live \cup {c}
  BY <1>1, <1>2, <1>5 DEF Live, Owned
<1>8. \A d \in Conns : Kept(d) => Kept(d)'
  BY <1>1, <1>4, PushRequest DEF Kept
<1>9. p \notin Closed /\ \A d \in peerFds : d.peer # p
  BY <1>2 DEF Owned, PeerFd
<1>10. Kept(c)'
  BY <1>1, <1>3 DEF Kept
<1>11. \A x, d \in open' : x.fd = d.fd => x = d
  BY <1>1, <1>2, <1>3 DEF Owned
<1>12. \A x, d \in peerFds' : x.peer = d.peer => x = d
  BY <1>2, <1>3, <1>5, <1>9 DEF Owned
<1>13. Live' \subseteq peerFds' /\ \A d \in Live' : d.peer \notin Closed'
  BY <1>2, <1>3, <1>5, <1>6, <1>7, <1>9 DEF Owned
<1>14. \A x \in Closed' : PeerFd(x)' # {}
  <2>1. \A x : PeerFd(x) \subseteq PeerFd(x)'
    BY <1>5 DEF PeerFd
  <2>2. QED
    BY <1>2, <1>6, <2>1 DEF Owned
<1>15. \A d \in peerFds' : d.peer \in Closed' \/ (d \in Live' /\ Kept(d)')
  <2>1. \A d \in peerFds : d \in Conns
    BY DEF Typed
  <2>2. QED
    BY <1>2, <1>5, <1>6, <1>7, <1>8, <1>10, <2>1 DEF Owned
<1>16. pc' = "unsubscribe" => batch'.conn \in open'
  BY <1>1, <1>2 DEF Owned
<1>17. Once'
  BY <1>2, <1>6 DEF Owned
<1>18. QED
  BY <1>11, <1>12, <1>13, <1>14, <1>15, <1>16, <1>17 DEF Owned

(* PeerService reads an event. *)
LEMMA ReadOwned ==
  ASSUME Typed, Works => Owned, Read, Works'
  PROVE  Owned'
<1> USE DEF btmVars, epollVars, watchVars
<1> DEFINE e == Head(events)
           q == e.peer
<1>1. /\ events # <<>> /\ events' = Tail(events)
      /\ UNCHANGED <<open, pc, batch, odd, state>>
  BY DEF Read
<1>2. Owned
  BY <1>1 DEF Works
<1>3. e \in Event /\ events \in Seq(Event)
  BY <1>1, Taking DEF Typed
<1>4. Once' /\ Closed' = Closed \ {p \in Peers : e = Ended(p)}
  BY <1>1, <1>2, TakeEvent DEF Owned
<1>5. Live' = Live /\ (pc' = "unsubscribe" => batch'.conn \in open')
  BY <1>1, <1>2 DEF Live, Owned
<1>6. ASSUME e.type # "closed" PROVE Closed' = Closed
  <2>1. ASSUME NEW p \in Peers PROVE e # Ended(p)
    <3> HIDE DEF e
    <3>1. QED
      BY <1>6, EndedFacts
  <2>2. QED
    BY <1>4, <2>1
<1>7. ASSUME UNCHANGED <<peerFds, requests>>, timestamps \subseteq timestamps', e.type # "closed"
      PROVE  Owned'
  <2>1. \A c \in peerFds : Kept(c) => Kept(c)'
    BY <1>7 DEF Kept, Requested
  <2>2. QED
    BY <1>1, <1>2, <1>4, <1>5, <1>6, <1>7, <2>1, OwnedStays
<1>8. CASE /\ e.type \in {"message", "accepted", "written"}
           /\ Heard(q) /\ UNCHANGED <<peerFds, tracked, requests>>
  BY <1>7, <1>8 DEF Heard
<1>9. CASE e.type \in {"keepAlive", "subscribed"} /\ UNCHANGED <<btmVars, requests>>
  BY <1>7, <1>9
<1>10. CASE e.type = "garbled" /\ UNCHANGED <<peerFds, timestamps, silent, requests>>
  BY <1>7, <1>10
<1>11. CASE /\ e.type \in {"notWritten", "ctlError"} /\ DisconnectClient(q, silent)
            /\ UNCHANGED <<peerFds, timestamps, silent>>
  <2>1. \/ requests' = requests
        \/ \E r \in Request : requests' = Append(requests, r)
    BY <1>11, Disconnecting
  <2>2. \A c \in peerFds : Kept(c) => Kept(c)'
    <3>1. CASE requests' = requests
      BY <1>11, <3>1 DEF Kept, Requested
    <3>2. ASSUME NEW r \in Request, requests' = Append(requests, r)
          PROVE  \A c \in peerFds : Kept(c) => Kept(c)'
      BY <1>11, <3>2, PushRequest DEF Kept
    <3>3. QED
      BY <2>1, <3>1, <3>2
  <2>3. QED
    BY <1>1, <1>2, <1>4, <1>5, <1>6, <1>11, <2>2, OwnedStays
<1>12. CASE e.type = "closed" /\ OnClientDisconnect(q) /\ UNCHANGED requests
  <2>1. q \in Peers /\ e = Ended(q)
    <3>1. e \in PeerEvent
      BY <1>3, <1>12 DEF Event
    <3>2. QED
      BY <1>12, <3>1 DEF PeerEvent, Ended
  <2> HIDE DEF q
  <2>2. Closed' = Closed \ {q}
    BY <1>4, <2>1, EndedFacts
  <2>3. q \in Closed
    <3>1. e \in Range(events)
      BY <1>1, <1>3, Taking
    <3>2. QED
      BY <2>1, <3>1 DEF Closed, Reported, Ended
  <2>4. peerFds' = peerFds \ PeerFd(q) /\ timestamps \ {q} \subseteq timestamps'
    BY <1>12 DEF OnClientDisconnect
  <2>5. \A d \in Live : d \in peerFds /\ d.peer \notin Closed /\ d.peer # q
    BY <1>2, <2>3 DEF Owned
  <2>6. Live' \subseteq peerFds'
    BY <1>5, <2>4, <2>5 DEF PeerFd
  <2>7. \A x \in Closed' : PeerFd(x)' # {}
    <3>1. ASSUME NEW x \in Closed' PROVE PeerFd(x)' # {}
      <4>1. x # q /\ PeerFd(x) # {}
        BY <1>2, <2>2 DEF Owned
      <4>2. PeerFd(x)' = PeerFd(x)
        BY <2>4, <4>1 DEF PeerFd
      <4>3. QED
        BY <4>1, <4>2
    <3>2. QED
      BY <3>1
  <2>8. ASSUME NEW d \in peerFds' PROVE d.peer \in Closed' \/ (d \in Live' /\ Kept(d)')
    <3>1. d \in peerFds /\ d.peer # q
      BY <2>4 DEF PeerFd
    <3>2. Kept(d) => Kept(d)'
      BY <1>12, <2>4, <3>1 DEF Kept, Requested
    <3>3. QED
      BY <1>2, <1>5, <2>2, <3>1, <3>2 DEF Owned
  <2>9. QED
    BY <1>1, <1>2, <1>4, <1>5, <2>2, <2>4, <2>5, <2>6, <2>7, <2>8 DEF Owned
<1>13. QED
  BY <1>8, <1>9, <1>10, <1>11, <1>12 DEF Read

(* The other steps of BitTorrentManager's thread. *)
LEMMA BtmOwned ==
  ASSUME Typed, Works => Owned, Works',
         Notify \/ Read \/ ActivityCheck \/ RequestStats \/ Shutdown \/ \E p \in Peers : Calls(p)
  PROVE  Owned'
<1> USE DEF btmVars, epollVars, watchVars
<1>1. ASSUME UNCHANGED <<peerFds, open, pc, batch, odd, state, events>>,
             \/ requests' = requests
             \/ \E r \in Request : requests' = Append(requests, r),
             \A c \in peerFds : c.peer \in timestamps => Kept(c)'
      PROVE  Owned'
  <2>1. Owned /\ UNCHANGED <<Live, Closed, Once>>
    BY <1>1 DEF Works, Live, Closed, Once, Reported, Ended
  <2>2. \A c : Requested("UnSubscribe", c) => Requested("UnSubscribe", c)'
    BY <1>1, PushRequest DEF Requested
  <2>3. \A c \in peerFds : Kept(c) => Kept(c)'
    BY <1>1, <2>2 DEF Kept
  <2>4. Once' /\ (pc' = "unsubscribe" => batch'.conn \in open')
    BY <1>1, <2>1 DEF Owned
  <2>5. QED
    BY <1>1, <2>1, <2>3, <2>4, OwnedStays
<1>2. ASSUME timestamps \subseteq timestamps' PROVE \A c \in peerFds : c.peer \in timestamps => Kept(c)'
  BY <1>2 DEF Kept
<1>3. CASE Notify
  BY <1>1, <1>2, <1>3 DEF Notify
<1>4. CASE Read
  BY <1>4, ReadOwned
<1>5. CASE ActivityCheck
  <2>1. UNCHANGED <<peerFds, open, pc, batch, odd, state, events>>
    BY <1>5 DEF ActivityCheck
  <2>2. PICK p \in silent : timestamps' = timestamps \ {p} /\ DisconnectClient(p, silent \ {p})
    BY <1>5 DEF ActivityCheck
  <2>3. \/ \E c \in PeerFd(p) : /\ requests' = Append(requests, [type |-> "UnSubscribe", conn |-> c])
                                /\ [type |-> "UnSubscribe", conn |-> c] \in Request
        \/ PeerFd(p) = {} /\ requests' = requests
    BY <2>2, Disconnecting
  <2>4. Owned
    BY <2>1 DEF Works
  <2>5. ASSUME NEW c \in peerFds, c.peer \in timestamps PROVE Kept(c)'
    <3>1. CASE c.peer # p
      BY <2>2, <2>5, <3>1 DEF Kept
    <3>2. CASE c.peer = p
      <4>1. c \in PeerFd(p) /\ \A d \in PeerFd(p) : d = c
        BY <2>4, <3>2 DEF Owned, PeerFd
      <4>2. /\ requests' = Append(requests, [type |-> "UnSubscribe", conn |-> c])
            /\ [type |-> "UnSubscribe", conn |-> c] \in Request
        BY <2>3, <4>1
      <4>3. QED
        BY <4>2, PushRequest DEF Kept
    <3>3. QED
      BY <3>1, <3>2
  <2>6. QED
    BY <1>1, <2>1, <2>3, <2>5
<1>6. CASE RequestStats
  BY <1>1, <1>2, <1>6 DEF RequestStats
<1>7. CASE Shutdown
  BY <1>1, <1>2, <1>7, Made DEF Shutdown
<1>8. ASSUME NEW p \in Peers, Connect(p) PROVE Owned'
  BY <1>8, ConnectOwned
<1>9. ASSUME NEW p \in Peers, Write(p) PROVE Owned'
  <2>1. UNCHANGED <<peerFds, open, pc, batch, odd, state, events>> /\ timestamps \subseteq timestamps'
    BY <1>9 DEF Write
  <2>2. PICK c \in PeerFd(p) : requests' = Append(requests, [type |-> "WriteEvent", conn |-> c])
    BY <1>9 DEF Write, Requests
  <2>3. c \in Conns
    BY DEF PeerFd, Typed
  <2>4. [type |-> "WriteEvent", conn |-> c] \in Request
    BY <2>3, Made
  <2>5. QED
    BY <1>1, <1>2, <2>1, <2>2, <2>4
<1>10. ASSUME NEW p \in Peers, Disconnect(p) PROVE Owned'
  <2>1. /\ UNCHANGED <<peerFds, open, pc, batch, odd, state, events>>
        /\ timestamps \subseteq timestamps' /\ DisconnectClient(p, silent)
    BY <1>10 DEF Disconnect
  <2>2. requests' = requests \/ \E r \in Request : requests' = Append(requests, r)
    BY <2>1, Disconnecting
  <2>3. QED
    BY <1>1, <1>2, <2>1, <2>2
<1>11. ASSUME NEW p \in Peers, ConnectFails(p) PROVE Owned'
  BY <1>11 DEF ConnectFails, Works
<1>12. ASSUME NEW p \in Peers, TenSecondsPass(p) PROVE Owned'
  <2>1. /\ UNCHANGED <<peerFds, open, pc, batch, odd, state, events, requests>>
        /\ timestamps \subseteq timestamps'
    BY <1>12 DEF TenSecondsPass
  <2>2. QED
    BY <1>1, <1>2, <2>1
<1>13. QED
  BY <1>3, <1>4, <1>5, <1>6, <1>7, <1>8, <1>9, <1>10, <1>11, <1>12 DEF Calls

(* The steps of epoll's thread. *)
LEMMA EpollOwned ==
  ASSUME Typed, Works => Owned, Works', Wait \/ Epoll
  PROVE  Owned'
<1> USE DEF btmVars, epollVars, watchVars
<1>1. ASSUME UNCHANGED <<peerFds, timestamps, open>>, Owned, Live' = Live,
             pc' = "unsubscribe" => batch'.conn \in open', Once', Closed' = Closed,
             \A c \in peerFds : Requested("UnSubscribe", c) => Requested("UnSubscribe", c)'
      PROVE  Owned'
  <2>1. \A c \in peerFds : Kept(c) => Kept(c)'
    BY <1>1 DEF Kept
  <2>2. QED
    BY <1>1, <2>1, OwnedStays
<1>2. ASSUME UNCHANGED <<events, requests>>, Owned
      PROVE  Once' /\ Closed' = Closed /\ \A c : Requested("UnSubscribe", c) => Requested("UnSubscribe", c)'
  BY <1>2 DEF Once, Closed, Reported, Requested, Ended, Owned
<1>3. CASE Wait
  <2>1. /\ UNCHANGED <<peerFds, timestamps, open, events, requests, state, odd>>
        /\ pc = "wait" /\ pc' = "requests"
    BY <1>3 DEF Wait
  <2>2. Owned /\ Live' = Live
    BY <2>1 DEF Works, Live
  <2>3. QED
    BY <1>1, <1>2, <2>1, <2>2
<1>4. CASE Ends
  BY <1>4 DEF Ends, Works
<1>5. CASE RequestsTaken
  <2>1. /\ UNCHANGED <<peerFds, timestamps, open, events, requests, state, odd>>
        /\ pc = "requests" /\ pc' = "events"
    BY <1>5 DEF RequestsTaken
  <2>2. Owned /\ Live' = Live
    BY <2>1 DEF Works, Live
  <2>3. QED
    BY <1>1, <1>2, <2>1, <2>2
<1>6. CASE TakeRequest
  <2>0. PICK r : r = Head(requests)
    OBVIOUS
  <2>1. /\ UNCHANGED <<peerFds, timestamps, pc, batch>>
        /\ pc = "requests" /\ requests # <<>> /\ requests' = Tail(requests)
    BY <1>6 DEF TakeRequest
  <2>2. r \in Request /\ requests \in Seq(Request)
    BY <2>0, <2>1, Taking DEF Typed
  <2>3. r.type # "Deactivate" => r.conn \in Conns
    BY <2>2 DEF Request
  <2>4. \A c : Requested("UnSubscribe", c) /\ r # [type |-> "UnSubscribe", conn |-> c]
                  => Requested("UnSubscribe", c)'
    BY <2>0, <2>1, TakenRequest
  <2>5. Live = open /\ Live' = open'
    BY <2>1 DEF Live
  <2>6. ASSUME r.type # "UnSubscribe" PROVE \A c : r # [type |-> "UnSubscribe", conn |-> c]
    BY <2>6
  <2>7. CASE r.type = "Subscribe" /\ Subscribe(r.conn) /\ state' = state
    <3>1. Owned /\ open' = open
      BY <2>7 DEF Subscribe, Works
    <3>2. \E done \in BOOLEAN : events' = Append(events, [type |-> Ctl(done), peer |-> r.conn.peer])
      BY <2>7 DEF Subscribe, Pushes
    <3>3. r.conn.peer \in Peers /\ \A done \in BOOLEAN : Ctl(done) \in EventTypes \ {"closed"}
      BY <2>3, <2>7, Made DEF EventTypes
    <3>4. Once' /\ Closed' = Closed
      BY <3>1, <3>2, <3>3, PushOther DEF Owned
    <3>5. QED
      BY <1>1, <2>1, <2>4, <2>5, <2>6, <2>7, <3>1, <3>4
  <2>8. CASE /\ r.type = "UnSubscribe" /\ Unsubscribe(r.conn)
             /\ events' = events \o <<[type |-> Ctl(SameFd(r.conn) # {}), peer |-> r.conn.peer],
                                      [type |-> "closed", peer |-> r.conn.peer]>>
             /\ state' = state
    <3>1. PICK c, x : c = r.conn /\ x = Ctl(SameFd(r.conn) # {})
      OBVIOUS
    <3>2. /\ open' = {d \in open : d.fd # c.fd}
          /\ odd' = IF c \in open THEN odd ELSE odd \cup {"again"}
      BY <2>8, <3>1 DEF Unsubscribe
    <3>3. Owned /\ c \in open /\ c \in Live /\ c \in Conns /\ c.peer \in Peers
      BY <2>3, <2>5, <2>8, <3>1, <3>2, Made DEF Works
    <3>4. Live' = Live \ {c}
      BY <2>5, <3>2, <3>3 DEF Owned
    <3>5. Once' /\ Closed' = Closed \cup {c.peer}
      <4>1. PICK a : a = [type |-> x, peer |-> c.peer]
        OBVIOUS
      <4>2. x \in EventTypes \ {"closed"}
        BY <3>1, Made DEF EventTypes
      <4>3. a \in Event /\ \A p \in Peers : a # Ended(p)
        BY <3>3, <4>1, <4>2, Made, EndedFacts
      <4>4. Ended(c.peer) \in Event
        BY <3>3, EndedFacts
      <4>5. events' = events \o <<a, Ended(c.peer)>>
        BY <2>8, <3>1, <4>1 DEF Ended
      <4>6. PICK b : b = Ended(c.peer)
        OBVIOUS
      <4>7. events \in Seq(Event) /\ Append(events, a) \in Seq(Event)
        BY <4>3, Appending DEF Typed
      <4>8. events' = Append(Append(events, a), b)
        BY <4>3, <4>4, <4>5, <4>6, <4>7, ConcatTwo
      <4>9. ASSUME NEW p \in Peers
            PROVE  /\ Ended(p) \in Range(events') <=> Ended(p) \in Range(events) \/ Ended(p) = b
                   /\ AtMostOnce(events', Ended(p))
        <5>1. AtMostOnce(events, Ended(p))
          BY <3>3 DEF Owned, Once, AtMostOnce
        <5>2. /\ Ended(p) \in Range(Append(events, a)) <=> Ended(p) \in Range(events)
              /\ AtMostOnce(Append(events, a), Ended(p))
          BY <4>3, <4>7, <5>1, Appending
        <5>3. Ended(p) = b => Ended(p) \notin Range(events)
          <6>1. Ended(p) = b => p = c.peer
            BY <3>3, <4>6, EndedFacts
          <6>2. c.peer \notin Closed
            BY <3>3 DEF Owned
          <6>3. QED
            BY <3>3, <6>1, <6>2 DEF Closed, Reported, Ended
        <5>4. b \in Event
          BY <4>4, <4>6
        <5>5. PICK s \in Seq(Event) : s = Append(events, a)
          BY <4>7
        <5>6. /\ Ended(p) \in Range(Append(s, b)) <=> Ended(p) \in Range(s) \/ Ended(p) = b
              /\ AtMostOnce(s, Ended(p)) /\ (Ended(p) = b => Ended(p) \notin Range(s))
                    => AtMostOnce(Append(s, b), Ended(p))
          BY <5>4, Appending
        <5>7. QED
          BY <4>8, <5>2, <5>3, <5>5, <5>6
      <4>10. Once'
        BY <4>9 DEF Once, AtMostOnce, Ended
      <4>11. \A p \in Peers : p \in Closed' <=> p \in Closed \/ p = c.peer
        BY <3>3, <4>6, <4>9, EndedFacts DEF Closed, Reported, Ended
      <4>12. QED
        BY <3>3, <4>10, <4>11 DEF Closed
    <3>6. \A d \in peerFds : d # c /\ Kept(d) => Kept(d)'
      <4>1. ASSUME NEW d, d # c PROVE r # [type |-> "UnSubscribe", conn |-> d]
        BY <3>1, <4>1
      <4>2. QED
        BY <2>1, <2>4, <4>1 DEF Kept
    <3>7. open' \subseteq open /\ pc' # "unsubscribe"
      BY <2>1, <3>2
    <3>8. QED
      BY <2>1, <3>3, <3>4, <3>5, <3>6, <3>7, EndReported
  <2>9. CASE r.type = "Deactivate" /\ state' = "Inactive"
    BY <2>9 DEF Works
  <2>10. CASE /\ r.type = "WriteEvent"
              /\ UNCHANGED <<state, events, open, odd>>
    <3>1. Owned
      BY <2>10 DEF Works
    <3>2. Once' /\ Closed' = Closed
      BY <2>10, <3>1 DEF Once, Closed, Reported, Ended, Owned
    <3>3. QED
      BY <1>1, <2>1, <2>4, <2>5, <2>6, <2>10, <3>1, <3>2
  <2>11. QED
    BY <1>6, <2>0, <2>7, <2>8, <2>9, <2>10 DEF TakeRequest, Subscribe
<1>7. CASE HandleBatch
  <2>1. /\ UNCHANGED <<peerFds, timestamps, requests, open, state>> /\ pc = "events"
        /\ odd' = IF IsSubscribed /\ batch.conn \notin open THEN odd \cup {"mistaken"} ELSE odd
    BY <1>7 DEF HandleBatch
  <2>2. Owned /\ Live = open /\ (IsSubscribed => batch.conn \in open)
    BY <2>1 DEF Works, Live
  <2>3. \A c \in peerFds : Requested("UnSubscribe", c) => Requested("UnSubscribe", c)'
    BY <2>1 DEF Requested
  <2>4. ASSUME pc' = "wait", Once', Closed' = Closed PROVE Owned'
    <3>1. Live' = Live
      BY <2>1, <2>2, <2>4 DEF Live
    <3>2. QED
      BY <1>1, <2>1, <2>2, <2>3, <2>4, <3>1
  <2>5. CASE Waits /\ UNCHANGED events
    <3>1. Once' /\ Closed' = Closed
      BY <2>2, <2>5 DEF Once, Closed, Reported, Ended, Owned
    <3>2. QED
      BY <2>4, <2>5, <3>1 DEF Waits
  <2>6. CASE /\ batch.kind = "end" /\ IsSubscribed
             /\ Pushes("closed", batch.conn.peer)
             /\ pc' = "unsubscribe" /\ UNCHANGED batch
    <3>1. PICK c : c = batch.conn
      OBVIOUS
    <3>2. c \in open /\ c \in Conns /\ c \in Live /\ c.peer \in Peers
      BY <2>2, <2>6, <3>1, Made DEF Typed
    <3>3. events' = Append(events, Ended(c.peer))
      BY <2>6, <3>1 DEF Pushes, Ended
    <3>4. Live' = Live \ {c}
      BY <2>1, <2>2, <2>6, <3>1 DEF Live
    <3>5. Once' /\ Closed' = Closed \cup {p \in Peers : Ended(c.peer) = Ended(p)}
      <4>1. c.peer \notin Closed
        BY <2>2, <3>2 DEF Owned
      <4>2. \A p \in Peers : Ended(c.peer) = Ended(p) => p \notin Closed
        BY <3>2, <4>1, EndedFacts
      <4>3. PICK b : b = Ended(c.peer)
        OBVIOUS
      <4>4. b \in Event /\ events' = Append(events, b) /\ \A p \in Peers : b = Ended(p) => p \notin Closed
        BY <3>2, <3>3, <4>2, <4>3, EndedFacts
      <4>5. Once' /\ Closed' = Closed \cup {p \in Peers : b = Ended(p)}
        BY <2>2, <4>4, PushEvent DEF Owned
      <4>6. QED
        BY <4>3, <4>5
    <3>6. Closed' = Closed \cup {c.peer}
      BY <3>2, <3>5, EndedFacts
    <3>7. \A d \in peerFds : d # c /\ Kept(d) => Kept(d)'
      BY <2>1, <2>3 DEF Kept
    <3>8. open' \subseteq open /\ (pc' = "unsubscribe" => batch'.conn \in open')
      BY <2>1, <2>6, <3>1, <3>2
    <3>9. QED
      BY <2>1, <2>2, <3>2, <3>4, <3>5, <3>6, <3>7, <3>8, EndReported
  <2>7. CASE /\ batch.kind \in Messages /\ IsSubscribed
             /\ Pushes(batch.kind, batch.conn.peer) /\ Waits
    <3>1. batch.conn \in Conns
      BY <2>2, <2>7 DEF Typed
    <3>2. batch.conn.peer \in Peers /\ batch.kind \in EventTypes \ {"closed"}
      BY <2>7, <3>1, Made DEF EventTypes, Messages
    <3>3. events' = Append(events, [type |-> batch.kind, peer |-> batch.conn.peer])
      BY <2>7 DEF Pushes
    <3>4. Once' /\ Closed' = Closed
      BY <2>2, <3>2, <3>3, PushOther DEF Owned
    <3>5. QED
      BY <2>4, <2>7, <3>4 DEF Waits
  <2>8. CASE batch.kind = "out" /\ IsSubscribed /\ Out(batch.conn) /\ Waits
    <3>1. PICK u : u = batch.conn.peer
      OBVIOUS
    <3>2. u \in Peers
      BY <2>2, <2>8, <3>1, Made DEF Typed
    <3>3. \E t, w \in {<<>>, <<[type |-> "accepted", peer |-> u]>>, <<[type |-> "written", peer |-> u]>>,
                        <<[type |-> "notWritten", peer |-> u]>>} : events' = (events \o t) \o w
      <4>1. \E t \in {<<>>, <<[type |-> "accepted", peer |-> u]>>} :
               \/ events' = events \o t
               \/ events' = (events \o t) \o <<[type |-> "written", peer |-> u]>>
               \/ events' = (events \o t) \o <<[type |-> "notWritten", peer |-> u]>>
        BY <2>8, <3>1 DEF Out
      <4>2. \A t \in {<<>>, <<[type |-> "accepted", peer |-> u]>>} : (events \o t) \o <<>> = events \o t
        <5>1. [type |-> "accepted", peer |-> u] \in Event
          BY <3>2, Made DEF EventTypes
        <5>2. PICK a : a = [type |-> "accepted", peer |-> u]
          OBVIOUS
        <5>3. a \in Event /\ <<a>> \in Seq(Event) /\ <<>> \in Seq(Event)
          BY <5>1, <5>2
        <5>4. events \in Seq(Event)
          BY DEF Typed
        <5>5. events \o <<a>> \in Seq(Event) /\ events \o <<>> \in Seq(Event)
          BY <5>3, <5>4, ConcatProperties
        <5>6. (events \o <<a>>) \o <<>> = events \o <<a>> /\ (events \o <<>>) \o <<>> = events \o <<>>
          BY <5>5, ConcatEmptySeq
        <5>7. QED
          BY <5>2, <5>6
      <4>3. QED
        BY <4>1, <4>2
    <3>4. ASSUME NEW s \in Seq(Event), NEW t \in {<<>>, <<[type |-> "accepted", peer |-> u]>>,
                         <<[type |-> "written", peer |-> u]>>, <<[type |-> "notWritten", peer |-> u]>>},
                 NEW p \in Peers, AtMostOnce(s, Ended(p))
          PROVE  /\ s \o t \in Seq(Event) /\ AtMostOnce(s \o t, Ended(p))
                 /\ Ended(p) \in Range(s \o t) <=> Ended(p) \in Range(s)
      <4>1. CASE t = <<>>
        <5>1. s \o t = s
          BY <4>1, ConcatEmptySeq
        <5>2. QED
          BY <3>4, <5>1
      <4>2. ASSUME NEW x \in {"accepted", "written", "notWritten"}, t = <<[type |-> x, peer |-> u]>>
            PROVE  /\ s \o t \in Seq(Event) /\ AtMostOnce(s \o t, Ended(p))
                   /\ Ended(p) \in Range(s \o t) <=> Ended(p) \in Range(s)
        <5>1. PICK a : a = [type |-> x, peer |-> u]
          OBVIOUS
        <5>2. a \in Event /\ a # Ended(p)
          BY <3>2, <5>1, Made, EndedFacts DEF EventTypes
        <5>3. s \o t = Append(s, a)
          BY <4>2, <5>1, <5>2, ConcatOne
        <5>4. QED
          BY <3>4, <5>2, <5>3, Appending
      <4>3. QED
        BY <4>1, <4>2
    <3>5. ASSUME NEW p \in Peers
          PROVE  AtMostOnce(events', Ended(p)) /\ (Ended(p) \in Range(events') <=> Ended(p) \in Range(events))
      <4>1. AtMostOnce(events, Ended(p)) /\ events \in Seq(Event)
        BY <2>2 DEF Owned, Once, AtMostOnce, Typed
      <4>2. PICK t, w \in {<<>>, <<[type |-> "accepted", peer |-> u]>>, <<[type |-> "written", peer |-> u]>>,
                           <<[type |-> "notWritten", peer |-> u]>>} : events' = (events \o t) \o w
        BY <3>3
      <4>3. /\ events \o t \in Seq(Event) /\ AtMostOnce(events \o t, Ended(p))
            /\ Ended(p) \in Range(events \o t) <=> Ended(p) \in Range(events)
        BY <3>4, <4>1
      <4>4. PICK v : v = events \o t
        OBVIOUS
      <4>5. v \in Seq(Event) /\ AtMostOnce(v, Ended(p)) /\ events' = v \o w
        BY <4>2, <4>3, <4>4
      <4>6. AtMostOnce(v \o w, Ended(p)) /\ (Ended(p) \in Range(v \o w) <=> Ended(p) \in Range(v))
        BY <3>4, <4>5
      <4>7. QED
        BY <4>3, <4>4, <4>5, <4>6
    <3>6. Once' /\ Closed' = Closed
      BY <3>5 DEF Once, AtMostOnce, Closed, Reported, Ended
    <3>7. QED
      BY <2>4, <2>8, <3>6 DEF Waits
  <2>9. QED
    BY <1>7, <2>5, <2>6, <2>7, <2>8 DEF HandleBatch
<1>8. CASE CloseSocket
  <2>1. PICK c, x : c = batch.conn /\ x = Ctl(SameFd(batch.conn) # {})
    OBVIOUS
  <2>2. /\ UNCHANGED <<peerFds, timestamps, requests, state>>
        /\ pc = "unsubscribe" /\ pc' = "wait" /\ events' = Append(events, [type |-> x, peer |-> c.peer])
        /\ open' = {d \in open : d.fd # c.fd}
        /\ odd' = IF c \in open THEN odd ELSE odd \cup {"again"}
    BY <1>8, <2>1 DEF CloseSocket, Waits, Unsubscribe, Pushes
  <2>3. Owned /\ c \in open
    BY <2>2 DEF Works
  <2>4. open' = open \ {c} /\ Live = open \ {c} /\ Live' = open'
    BY <2>1, <2>2, <2>3 DEF Owned, Live
  <2>5. c \in Conns /\ x \in EventTypes \ {"closed"}
    BY <2>1, <2>3, Made DEF Typed, EventTypes
  <2>6. Once' /\ Closed' = Closed
    <3>1. c.peer \in Peers
      BY <2>5, Made
    <3>2. QED
      BY <2>2, <2>3, <2>5, <3>1, PushOther DEF Owned
  <2>7. \A d \in peerFds : Kept(d) => Kept(d)'
    BY <2>2 DEF Kept, Requested
  <2>8. \A p : PeerFd(p)' = PeerFd(p)
    BY <2>2 DEF PeerFd
  <2>9. \A d \in peerFds : d.peer \in Closed \/ (d \in Live' /\ Kept(d)')
    BY <2>3, <2>4, <2>7 DEF Owned
  <2>10. Live' \subseteq peerFds /\ \A d \in Live' : d.peer \notin Closed
    BY <2>3, <2>4 DEF Owned
  <2>11. QED
    BY <2>2, <2>3, <2>4, <2>6, <2>8, <2>9, <2>10 DEF Owned
<1>9. QED
  BY <1>3, <1>4, <1>5, <1>6, <1>7, <1>8 DEF Epoll

------------------------------------------------------------------------------
(* The specification. *)

(* Nothing is there at the start. *)
LEMMA InitSockets == Init => Sockets
<1> SUFFICES ASSUME Init PROVE Sockets
  OBVIOUS
<1> USE DEF Init
<1>1. Typed
  <2>1. IsFiniteSet({})
    BY FS_EmptySet
  <2>2. Nothing \in Batch
    BY DEF Nothing, Batch
  <2>3. requests \in Seq(Request) /\ events \in Seq(Event)
    OBVIOUS
  <2>4. QED
    BY <2>1, <2>2, <2>3 DEF Typed
<1>2. Enough
  BY DEF Enough, Coming
<1>3. Owned
  BY DEF Owned, Live, Closed, Reported, Range, Once
<1>4. QED
  BY <1>1, <1>2, <1>3 DEF Sockets

(* Every step keeps the invariant. *)
LEMMA NextSockets == Sockets /\ [Next]_vars => Sockets'
<1> SUFFICES ASSUME Sockets, [Next]_vars PROVE Sockets'
  OBVIOUS
<1>1. Typed /\ Enough /\ (Works => Owned)
  BY DEF Sockets
<1>2. CASE Notify \/ Read \/ ActivityCheck \/ RequestStats \/ Shutdown \/ \E p \in Peers : Calls(p)
  BY <1>1, <1>2, BtmTyped, BtmOwned DEF Sockets
<1>3. CASE Wait \/ Epoll
  BY <1>1, <1>3, EpollTyped, EpollOwned DEF Sockets
<1>4. CASE UNCHANGED vars
  <2> USE <1>4 DEF vars, btmVars, epollVars, watchVars
  <2>1. Typed'
    BY <1>1 DEF Typed
  <2>2. Enough'
    BY <1>1 DEF Enough, Coming, Read1
  <2>3. Works' = Works /\ UNCHANGED <<open, peerFds, Live, Closed, Once>>
    BY DEF Works, Live, Closed, Reported, Once, Ended
  <2>4. Works' => Owned'
    <3>1. \A c \in peerFds : Kept(c) => Kept(c)'
      BY DEF Kept, Requested
    <3>2. Owned => Once' /\ (pc' = "unsubscribe" => batch'.conn \in open')
      BY <2>3 DEF Owned
    <3>3. QED
      BY <1>1, <2>3, <3>1, <3>2, OwnedStays
  <2>5. QED
    BY <2>1, <2>2, <2>4 DEF Sockets
<1>5. QED
  BY <1>2, <1>3, <1>4 DEF Next, Btm

(* The invariant holds of every behaviour. *)
LEMMA SocketsHold == Spec => []Sockets
BY InitSockets, NextSockets, PTL DEF Spec

(* While epoll waits with a request in its queue there is a byte in the    *)
(* pipe or BitTorrentManager is about to write it, for any number of peers,*)
(* requests and notifications: no request of PeerService is left lying.    *)
THEOREM RequestsAreNoticed == Spec => []NotificationsSuffice
<1>1. Sockets => NotificationsSuffice
  <2> SUFFICES ASSUME Sockets, pc = "wait", requests # <<>>
               PROVE  pipe > 0 \/ turn \in {"notify", "shutdown"}
    BY DEF NotificationsSuffice
  <2>1. requests \in Seq(Request) /\ pipe \in Nat /\ Len(requests) <= pipe + Coming
    BY DEF Sockets, Typed, Enough
  <2>2. Len(requests) \in Nat \ {0}
    BY <2>1, EmptySeq
  <2>3. Coming = 0 => pipe > 0
    BY <2>1, <2>2
  <2>4. QED
    BY <2>3 DEF Coming
<1>2. QED
  BY <1>1, SocketsHold, PTL

(* As long as epoll works and nothing odd has happened, every open socket  *)
(* has an owner who will close it and every connection of PeerService is   *)
(* open and watched, or its end is on its way, for any number of peers and *)
(* connections and however descriptors are used again.                     *)
THEOREM NoSocketIsLost == Spec => []SocketsAccounted
<1>1. Sockets => SocketsAccounted
  <2> SUFFICES ASSUME Sockets, state = "Active", odd = {}
               PROVE  /\ \A c \in open : c \in peerFds \/ Requested("UnSubscribe", c)
                                          \/ (pc = "unsubscribe" /\ batch.conn = c)
                      /\ \A c \in peerFds :
                            \/ Reported("closed", c.peer)
                            \/ c \in open /\ (c.peer \in timestamps \/ Requested("UnSubscribe", c))
    BY DEF SocketsAccounted
  <2>1. Owned
    BY DEF Sockets, Works
  <2>2. Live \subseteq open /\ \A c \in open : c \in Live \/ (pc = "unsubscribe" /\ batch.conn = c)
    BY DEF Live
  <2>3. QED
    BY <2>1, <2>2 DEF Owned, Closed, Kept
<1>2. QED
  BY <1>1, SocketsHold, PTL
===============================================================================
