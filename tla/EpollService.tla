---------------------------- MODULE EpollService ----------------------------
(***************************************************************************)
(* The sockets: PeerService, called by BitTorrentManager's thread, and the *)
(* thread of EpollService, with the queue of requests, the pipe that wakes *)
(* epoll, and the queue of events back.                                    *)
(*                                                                         *)
(* A connection is its peer, its descriptor and, to tell connections apart *)
(* that have the same two, its number; the code has the first two only.    *)
(* The kernel hands out the lowest free descriptor.  Every wait brings one *)
(* socket's event; what it would bring more of is brought by the next.     *)
(* What is read and written is MessageBuffers' subject: here it is whole.  *)
(***************************************************************************)
EXTENDS Naturals, Sequences, SequencesExt, FiniteSetsExt

CONSTANTS Peers,
          MaxConnects,   \* bound on connections
          MaxCalls,      \* bound on writes, disconnects and silences
          MaxQueue       \* bound on events that peers cause

ASSUME EpollAssumption == {MaxConnects, MaxCalls, MaxQueue} \subseteq Nat

VARIABLES
    \* PeerService and BitTorrentManager
    peerFds, timestamps,
    silent,      \* peers whose timestamp is more than 10 seconds old
    tracked,     \* peers that BitTorrentManager takes for connected
    turn,        \* what its thread is doing: idle, notify, check, ended
    \* between the threads
    requests, events, pipe,
    \* EpollService
    state, pc,
    batch,       \* what wait() has returned
    subscribed,
    pending,     \* peers whose connection is not accepted yet
    writable,    \* subscribed to EpollOut too
    unsent,      \* peers with something in the write buffer
    open,        \* connections whose socket is open
    odd,         \* history: what the code does not rule out
    connects, calls

btmVars == <<peerFds, timestamps, silent, tracked>>
watchVars == <<subscribed, pending, writable, unsent>>
epollVars == <<state, pc, batch, watchVars, open>>
vars == <<btmVars, turn, requests, events, pipe, epollVars, odd, connects, calls>>

Nothing == [kind |-> "none", notified |-> FALSE]

Init == /\ peerFds = {} /\ timestamps = {} /\ silent = {} /\ tracked = {} /\ turn = "idle"
        /\ requests = <<>> /\ events = <<>> /\ pipe = 0
        /\ state = "Active" /\ pc = "wait" /\ batch = Nothing
        /\ subscribed = {} /\ pending = {} /\ writable = {} /\ unsent = {} /\ open = {}
        /\ odd = {} /\ connects = 0 /\ calls = 0

------------------------------------------------------------------------------
(* PeerService, on the thread of BitTorrentManager.  A request is pushed,  *)
(* then epoll is notified; after every event the activity is checked.      *)
Requests(type, c) == requests' = Append(requests, [type |-> type, conn |-> c])

PeerFd(p) == {c \in peerFds : c.peer = p}

LowestFd == Min((1 .. Cardinality(open) + 1) \ {c.fd : c \in open})

(* A turn ends with activityCheck, which does nothing if nobody is silent. *)
TurnEnds(mute) == turn' = IF mute = {} THEN "idle" ELSE "check"

(* connect forgets what it has of the peer, before it tries. *)
Connect(p) ==
    /\ turn = "idle" /\ state = "Active" /\ p \notin tracked /\ connects < MaxConnects
    /\ LET c == [peer |-> p, fd |-> LowestFd, nth |-> connects] IN
       /\ peerFds' = (peerFds \ PeerFd(p)) \cup {c}
       /\ open' = open \cup {c}
       /\ Requests("Subscribe", c)
    /\ odd' = IF PeerFd(p) = {} THEN odd ELSE odd \cup {"replaced"}
    /\ timestamps' = timestamps \cup {p}
    /\ tracked' = tracked \cup {p}
    /\ turn' = "notify" /\ connects' = connects + 1
    /\ UNCHANGED <<silent, events, pipe, state, pc, batch, watchVars, calls>>

ConnectFails(p) ==
    /\ turn = "idle" /\ state = "Active" /\ p \notin tracked /\ PeerFd(p) # {}
    /\ peerFds' = peerFds \ PeerFd(p) /\ odd' = odd \cup {"replaced"}
    /\ UNCHANGED <<timestamps, silent, tracked, turn, requests, events, pipe, epollVars, connects,
                   calls>>

Write(p) ==
    /\ turn = "idle" /\ state = "Active" /\ PeerFd(p) # {} /\ calls < MaxCalls
    /\ \E c \in PeerFd(p) : Requests("WriteEvent", c)
    /\ timestamps' = timestamps \cup {p} /\ silent' = silent \ {p}
    /\ turn' = "notify" /\ calls' = calls + 1
    /\ UNCHANGED <<peerFds, tracked, events, pipe, epollVars, odd, connects>>

(* disconnectClient, followed by a notification if it pushes anything. *)
DisconnectClient(p, mute) ==
    \/ /\ PeerFd(p) # {} /\ turn' = "notify"
       /\ \E c \in PeerFd(p) : Requests("UnSubscribe", c)
    \/ PeerFd(p) = {} /\ TurnEnds(mute) /\ UNCHANGED requests

Disconnect(p) ==
    /\ turn = "idle" /\ p \in tracked /\ calls < MaxCalls
    /\ DisconnectClient(p, silent) /\ calls' = calls + 1
    /\ UNCHANGED <<btmVars, events, pipe, epollVars, odd, connects>>

Shutdown ==
    /\ turn = "idle" /\ calls < MaxCalls
    /\ requests' = Append(requests, [type |-> "Deactivate"])
    /\ turn' = "shutdown" /\ calls' = calls + 1
    /\ UNCHANGED <<btmVars, events, pipe, epollVars, odd, connects>>

Notify ==
    /\ turn \in {"notify", "shutdown"}
    /\ pipe' = pipe + 1
    /\ IF turn = "notify" THEN TurnEnds(silent) ELSE turn' = "ended"
    /\ UNCHANGED <<btmVars, requests, events, epollVars, odd, connects, calls>>

(* onClientDisconnect. *)
OnClientDisconnect(p) ==
    /\ peerFds' = peerFds \ PeerFd(p)
    /\ IF PeerFd(p) = {} THEN UNCHANGED <<timestamps, silent>>
       ELSE timestamps' = timestamps \ {p} /\ silent' = silent \ {p}

Heard(p) == timestamps' = timestamps \cup {p} /\ silent' = silent \ {p}

(* read, and BitTorrentManager's process(ConnectionDisconnected).  A       *)
(* message that cannot be decoded disconnects the peer for                 *)
(* BitTorrentManager only; a keep alive leaves the timestamp alone.        *)
Read ==
    /\ turn = "idle" /\ state = "Active" /\ events # <<>>
    /\ events' = Tail(events)
    /\ LET e == Head(events)
           p == e.peer
       IN  \/ /\ e.type \in {"message", "accepted", "written"}
              /\ Heard(p) /\ TurnEnds(silent \ {p})
              /\ UNCHANGED <<peerFds, tracked, requests>>
           \/ /\ e.type \in {"keepAlive", "subscribed"} /\ TurnEnds(silent)
              /\ UNCHANGED <<btmVars, requests>>
           \/ /\ e.type = "garbled" /\ TurnEnds(silent)
              /\ tracked' = tracked \ {p}
              /\ UNCHANGED <<peerFds, timestamps, silent, requests>>
           \/ /\ e.type \in {"notWritten", "ctlError"}
              /\ tracked' = tracked \ {p} /\ DisconnectClient(p, silent)
              /\ UNCHANGED <<peerFds, timestamps, silent>>
           \/ /\ e.type = "closed"
              /\ tracked' = tracked \ {p} /\ OnClientDisconnect(p) /\ TurnEnds(silent')
              /\ UNCHANGED requests
    /\ UNCHANGED <<pipe, epollVars, odd, connects, calls>>

(* activityCheck, for one silent peer after the other. *)
ActivityCheck ==
    /\ turn = "check"
    /\ \E p \in silent : /\ timestamps' = timestamps \ {p} /\ silent' = silent \ {p}
                         /\ DisconnectClient(p, silent \ {p})
    /\ UNCHANGED <<peerFds, tracked, events, pipe, epollVars, odd, connects, calls>>

(* Mutant: the activity is not checked after an event of the display. *)
SkipsCheck == turn = "idle" /\ silent # {} /\ UNCHANGED vars

(* The display asks BitTorrentManager for statistics every second. *)
RequestStats == /\ turn = "idle" /\ silent # {} /\ turn' = "check"
                /\ UNCHANGED <<btmVars, requests, events, pipe, epollVars, odd, connects, calls>>

TenSecondsPass(p) ==
    /\ p \in timestamps \ silent /\ calls < MaxCalls
    /\ silent' = silent \cup {p} /\ calls' = calls + 1
    /\ UNCHANGED <<peerFds, timestamps, tracked, turn, requests, events, pipe, epollVars, odd,
                   connects>>

------------------------------------------------------------------------------
(* EpollService::run. *)

(* What epoll may report of a socket: its end (an error, a hang-up, or the *)
(* end of the stream), a message, or that it can be written.               *)
Messages == {"message", "keepAlive", "garbled"}
SocketEvents == [kind : {"end"} \cup Messages, conn : subscribed]
                \cup [kind : {"out"}, conn : writable]

SameFd(c) == {d \in subscribed : d.fd = c.fd}
Pushes(type, p) == events' = Append(events, [type |-> type, peer |-> p])

(* wait() fails, or brings a socket's event, a notification, or both. *)
Wait ==
    /\ pc = "wait" /\ pc' = "requests"
    /\ \/ /\ calls < MaxCalls /\ calls' = calls + 1
          /\ batch' = [kind |-> "error"]
       \/ /\ pipe > 0 /\ UNCHANGED calls
          /\ batch' = [kind |-> "none", notified |-> TRUE]
       \/ \E e \in SocketEvents :
             /\ e.kind \in Messages => Len(events) < MaxQueue
             /\ batch' = [kind |-> e.kind, conn |-> e.conn, notified |-> pipe > 0]
             /\ UNCHANGED calls
    /\ UNCHANGED <<btmVars, turn, requests, events, pipe, state, watchVars, open, odd, connects>>

(* Mutant: the socket is not closed. *)
LeavesOpen(c) ==
    /\ pending' = pending \ {c.peer}
    /\ subscribed' = subscribed \ SameFd(c) /\ writable' = writable \ SameFd(c)
    /\ UNCHANGED <<open, odd>>

(* unsubscribe goes by the descriptor, whoever has it now. *)
Unsubscribe(c) ==
    /\ pending' = pending \ {c.peer}
    /\ subscribed' = subscribed \ SameFd(c) /\ writable' = writable \ SameFd(c)
    /\ open' = {d \in open : d.fd # c.fd}
    /\ odd' = IF c \in open THEN odd ELSE odd \cup {"again"}

Ctl(done) == IF done THEN "subscribed" ELSE "ctlError"

Subscribe(c) ==
    /\ LET done == c \in open /\ SameFd(c) = {} IN
       /\ subscribed' = IF done THEN subscribed \cup {c} ELSE subscribed
       /\ writable' = IF done THEN writable \cup {c} ELSE writable
       /\ Pushes(Ctl(done), c.peer)
    /\ pending' = pending \cup {c.peer}
    /\ UNCHANGED <<state, open, unsent, odd>>

(* All requests are taken before the events of the batch are looked at. *)
TakeRequest ==
    /\ pc = "requests" /\ requests # <<>>
    /\ requests' = Tail(requests)
    /\ LET r == Head(requests) IN
       \/ r.type = "Subscribe" /\ Subscribe(r.conn)
       \/ /\ r.type = "UnSubscribe" /\ Unsubscribe(r.conn)
          /\ events' = events \o <<[type |-> Ctl(SameFd(r.conn) # {}), peer |-> r.conn.peer],
                                   [type |-> "closed", peer |-> r.conn.peer]>>
          /\ UNCHANGED <<state, unsent>>
       \/ /\ r.type = "Deactivate" /\ state' = "Inactive"
          /\ UNCHANGED <<events, watchVars, open, odd>>
       \/ /\ r.type = "WriteEvent"
          /\ writable' = writable \cup SameFd(r.conn) /\ unsent' = unsent \cup {r.conn.peer}
          /\ UNCHANGED <<state, events, subscribed, pending, open, odd>>
    /\ UNCHANGED <<btmVars, turn, pipe, pc, batch, connects, calls>>

(* The loop ends when it was deactivated or wait() has failed; the error   *)
(* is reported by a thread that is not active any more.                    *)
Ends ==
    /\ pc = "requests" /\ requests = <<>> /\ pc' = "ended" /\ batch' = Nothing
    /\ \/ state = "Inactive" /\ UNCHANGED <<state, events>>
       \/ /\ state = "Active" /\ batch.kind = "error"
          /\ state' = "Inactive" /\ events' = Append(events, [type |-> "epollError"])
    /\ UNCHANGED <<btmVars, turn, requests, pipe, watchVars, open, odd, connects, calls>>

(* No request is left; another may come while the batch is handled. *)
RequestsTaken ==
    /\ pc = "requests" /\ requests = <<>> /\ state = "Active" /\ batch.kind # "error"
    /\ pc' = "events"
    /\ UNCHANGED <<btmVars, turn, requests, events, pipe, state, batch, watchVars, open, odd,
                   connects, calls>>

(* Mutant: the whole pipe is emptied. *)
EmptiesPipe == IF batch.notified THEN 0 ELSE pipe

ReadsNotification == IF batch.notified THEN pipe - 1 ELSE pipe

(* EpollOut: a pending connection is accepted; what is in the buffer is    *)
(* written, wholly, in part, or not at all.                                *)
Out(c) ==
    LET accepted == IF c.peer \in pending THEN <<[type |-> "accepted", peer |-> c.peer]>> ELSE <<>>
    IN  /\ pending' = pending \ {c.peer} /\ writable' = writable \ SameFd(c)
        /\ \/ c.peer \notin unsent /\ events' = events \o accepted /\ UNCHANGED unsent
           \/ c.peer \in unsent /\ events' = events \o accepted /\ UNCHANGED unsent
           \/ /\ c.peer \in unsent /\ unsent' = unsent \ {c.peer}
              /\ events' = events \o accepted \o <<[type |-> "written", peer |-> c.peer]>>
           \/ /\ c.peer \in unsent /\ UNCHANGED unsent
              /\ events' = events \o accepted \o <<[type |-> "notWritten", peer |-> c.peer]>>
        /\ UNCHANGED <<subscribed>>

Waits == pc' = "wait" /\ batch' = Nothing

(* The batch has an event of a socket that is still subscribed. *)
IsSubscribed == batch.kind # "none" /\ SameFd(batch.conn) # {}

(* The events of the batch; those of a descriptor that is not subscribed   *)
(* any more are passed over.                                               *)
HandleBatch ==
    /\ pc = "events"
    /\ pipe' = ReadsNotification
    /\ odd' = IF IsSubscribed /\ batch.conn \notin open THEN odd \cup {"mistaken"} ELSE odd
    /\ \/ /\ ~IsSubscribed
          /\ Waits /\ UNCHANGED <<events, watchVars>>
       \/ /\ batch.kind = "end" /\ IsSubscribed
          /\ Pushes("closed", batch.conn.peer)
          /\ pc' = "unsubscribe" /\ UNCHANGED <<batch, watchVars>>
       \/ /\ batch.kind \in Messages /\ IsSubscribed
          /\ Pushes(batch.kind, batch.conn.peer)
          /\ Waits /\ UNCHANGED watchVars
       \/ /\ batch.kind = "out" /\ IsSubscribed
          /\ Out(batch.conn) /\ Waits
    /\ UNCHANGED <<btmVars, turn, requests, state, open, connects, calls>>

(* The rest of a hang-up or an error. *)
CloseSocket ==
    /\ pc = "unsubscribe" /\ Waits
    /\ Unsubscribe(batch.conn) /\ Pushes(Ctl(SameFd(batch.conn) # {}), batch.conn.peer)
    /\ UNCHANGED <<btmVars, turn, requests, pipe, state, unsent, connects, calls>>

------------------------------------------------------------------------------
Btm == Notify \/ Read \/ ActivityCheck
Epoll == TakeRequest \/ Ends \/ RequestsTaken \/ HandleBatch \/ CloseSocket

Calls(p) == Connect(p) \/ ConnectFails(p) \/ Write(p) \/ Disconnect(p) \/ TenSecondsPass(p)

Next == Btm \/ RequestStats \/ Shutdown \/ Wait \/ Epoll \/ \E p \in Peers : Calls(p)

(* The threads run; wait() returns when there is a notification; the       *)
(* display asks for statistics for ever.                                   *)
Spec == /\ Init /\ [][Next]_vars
        /\ WF_vars(Btm) /\ WF_vars(Epoll) /\ WF_vars(pipe > 0 /\ Wait) /\ WF_vars(RequestStats)

------------------------------------------------------------------------------
(* Properties. *)

Requested(type, c) == [type |-> type, conn |-> c] \in Range(requests)
Reported(type, p) == [type |-> type, peer |-> p] \in Range(events)

(* No request is left lying: while epoll waits and the queue of requests   *)
(* is not empty there is a byte in the pipe, or BitTorrentManager is about *)
(* to write one, although a batch reads one byte however many requests it  *)
(* has taken, before or after that byte was written.                       *)
NotificationsSuffice ==
    pc = "wait" /\ requests # <<>> => pipe > 0 \/ turn \in {"notify", "shutdown"}

(* As long as epoll works, no socket is lost and no peer is waited for in  *)
(* vain: an open socket is known to PeerService or about to be closed; a   *)
(* connection of PeerService is open and has a timestamp or a request to   *)
(* end it, or its end is on its way.  It can go wrong after three things   *)
(* the code does not rule out (odd): a peer is connected to again while    *)
(* PeerService has a connection of it (after a message that cannot be      *)
(* decoded, or a failed write), a descriptor is closed twice, or an event  *)
(* of the batch belongs to an earlier owner of the descriptor.             *)
SocketsAccounted ==
    state = "Active" /\ odd = {} =>
        /\ \A c \in open : c \in peerFds \/ Requested("UnSubscribe", c)
                            \/ (pc = "unsubscribe" /\ batch.conn = c)
        /\ \A c \in peerFds :
              \/ Reported("closed", c.peer)
              \/ c \in open /\ (c.peer \in timestamps \/ Requested("UnSubscribe", c))

(* A peer that has been silent for ten seconds is disconnected, or heard   *)
(* again, although BitTorrentManager waits for events without a timeout    *)
(* and checks the activity only after one.                                 *)
SilentPeerDropped ==
    \A p \in Peers :
        p \in silent /\ PeerFd(p) # {} ~>
            \/ PeerFd(p) = {} \/ p \in timestamps \ silent
            \/ state # "Active" \/ turn = "ended" \/ odd # {}
=============================================================================
