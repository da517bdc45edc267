--------------------------- MODULE AnnounceService ---------------------------
(***************************************************************************)
(* AnnounceService: requests of BitTorrentManager for peers of a torrent,  *)
(* put to the torrent's trackers over TrackerClient, one tracker at a time,*)
(* with the answers that bring peers, bring none, or fail.                 *)
(*                                                                         *)
(* One turn of pollOnce is three phases: a request is popped and processed,*)
(* every delayed request that can be is executed, one answer of the client *)
(* is processed.  A tracker is its url; it answers each query once, in any *)
(* order, and libcurl's timeout is an answer with an error.  Intervals are *)
(* compared as nanoseconds, so a tracker is refused just after an answer   *)
(* and may be asked again at once.                                         *)
(***************************************************************************)
EXTENDS Naturals, Sequences, FiniteSets

CONSTANTS Torrents, Urls, Peers,
          NoTorrent,
          TrackersOf,    \* the http trackers of each torrent, in order
          MaxCommands,   \* bound on messages of BitTorrentManager
          MaxUseless,    \* bound on answers with an error or no new peer
          MaxInFlight    \* where the count of the same query stops

ASSUME TorrentsAssumption == NoTorrent \notin Torrents
ASSUME TrackersAssumption == TrackersOf \in [Torrents -> Seq(Urls)]
ASSUME BoundsAssumption == /\ MaxCommands \in Nat /\ MaxUseless \in Nat
                           /\ MaxInFlight \in Nat \ {0}

VARIABLES phase, running,
          subscribers,
          delayedRequests,   \* the request held for a torrent, as its torrent
          executedRequests,  \* the request held for a url, as its torrent
          trackerSet,
          retryCount, knownPeers, tooSoon,   \* TrackerState of each url
          inFlight,          \* queries in the client, counted by url and torrent
          started,           \* torrents that run
          overtaken,         \* history: those added again while a request of
                             \* theirs was still held
          commands, useless

stateVars == <<subscribers, delayedRequests, executedRequests, trackerSet>>
trackerVars == <<retryCount, knownPeers, tooSoon>>
boundVars == <<started, overtaken, commands, useless>>
vars == <<phase, running, stateVars, trackerVars, inFlight, boundVars>>

Init == /\ phase = "pop" /\ running = TRUE
        /\ subscribers = {}
        /\ delayedRequests = [t \in Torrents |-> NoTorrent]
        /\ executedRequests = [u \in Urls |-> NoTorrent]
        /\ trackerSet = [t \in Torrents |-> <<>>]
        /\ retryCount = [u \in Urls |-> 0] /\ knownPeers = [u \in Urls |-> {}]
        /\ tooSoon = {}
        /\ inFlight = [q \in Urls \X Torrents |-> 0]
        /\ started = {} /\ overtaken = {} /\ commands = 0 /\ useless = 0

------------------------------------------------------------------------------
(* getNextAnnounce: the first tracker of the list that may be asked; the   *)
(* ones before it go to the back.                                          *)
GiveUpEarly(u) == u \notin tooSoon /\ retryCount[u] < 2       \* mutant
MayAsk(u) == u \notin tooSoon /\ retryCount[u] <= 2

Askable(t) == {k \in 1 .. Len(trackerSet[t]) : MayAsk(trackerSet[t][k])}
NextIndex(t) == CHOOSE k \in Askable(t) : \A j \in Askable(t) : k <= j
NextAnnounce(t) == trackerSet[t][NextIndex(t)]
Rotated(t) == SubSeq(trackerSet[t], NextIndex(t), Len(trackerSet[t]))
              \o SubSeq(trackerSet[t], 1, NextIndex(t) - 1)

(* execute, for the tracker that is next for key: emplace leaves a request *)
(* alone that the url already has.                                         *)
Execute(key, t) ==
    LET u == NextAnnounce(key) IN
    /\ trackerSet' = [trackerSet EXCEPT ![key] = Rotated(key)]
    /\ inFlight' = [inFlight EXCEPT ![<<u, t>>] = IF @ < MaxInFlight THEN @ + 1 ELSE @]
    /\ executedRequests' = IF executedRequests[u] = NoTorrent
                           THEN [executedRequests EXCEPT ![u] = t] ELSE executedRequests

Command == phase = "pop" /\ running /\ commands < MaxCommands /\ commands' = commands + 1

Queried(t) == \E u \in Urls : inFlight[<<u, t>>] > 0

(* process(AddTrackers), when a torrent is started or resumed *)
AddTrackers(t) ==
    /\ Command /\ t \notin started
    /\ started' = started \cup {t}
    /\ overtaken' = IF Queried(t) \/ delayedRequests[t] # NoTorrent THEN overtaken \cup {t}
                    ELSE overtaken
    /\ trackerSet' = [trackerSet EXCEPT ![t] = @ \o TrackersOf[t]]
    /\ phase' = "delayed"
    /\ UNCHANGED <<running, subscribers, delayedRequests, executedRequests, trackerVars, inFlight,
                   useless>>

(* process(RequestAnnounce), the three ways through it *)
AlreadySubscribed(t) ==
    /\ Command /\ t \in started /\ t \in subscribers
    /\ phase' = "delayed"
    /\ UNCHANGED <<running, stateVars, trackerVars, inFlight, started, overtaken, useless>>

ExecuteRequest(t) ==
    /\ Command /\ t \in started \ subscribers /\ Askable(t) # {}
    /\ subscribers' = subscribers \cup {t}
    /\ Execute(t, t)
    /\ phase' = "delayed"
    /\ UNCHANGED <<running, delayedRequests, trackerVars, started, overtaken, useless>>

DropRequest(t) ==            \* mutant: the request is not delayed
    /\ Command /\ t \in started \ subscribers /\ Askable(t) = {}
    /\ subscribers' = subscribers \cup {t}
    /\ phase' = "delayed"
    /\ UNCHANGED <<running, delayedRequests, executedRequests, trackerSet, trackerVars, inFlight,
                   started, overtaken, useless>>
DelayRequest(t) ==
    /\ Command /\ t \in started \ subscribers /\ Askable(t) = {}
    /\ subscribers' = subscribers \cup {t}
    /\ delayedRequests' = IF delayedRequests[t] = NoTorrent
                          THEN [delayedRequests EXCEPT ![t] = t] ELSE delayedRequests
    /\ phase' = "delayed"
    /\ UNCHANGED <<running, executedRequests, trackerSet, trackerVars, inFlight, started, overtaken,
                   useless>>

(* process(DeleteTrackers) *)
DeleteExecuted(t) ==         \* mutant: erases the requests that are being answered too
    /\ Command /\ t \in started
    /\ started' = started \ {t}
    /\ trackerSet' = [trackerSet EXCEPT ![t] = <<>>]
    /\ delayedRequests' = [delayedRequests EXCEPT ![t] = NoTorrent]
    /\ executedRequests' = [u \in Urls |-> IF executedRequests[u] = t THEN NoTorrent
                                           ELSE executedRequests[u]]
    /\ subscribers' = subscribers \ {t}
    /\ phase' = "delayed"
    /\ UNCHANGED <<running, trackerVars, inFlight, overtaken, useless>>
DeleteTrackers(t) ==
    /\ Command /\ t \in started
    /\ started' = started \ {t}
    /\ trackerSet' = [trackerSet EXCEPT ![t] = <<>>]
    /\ delayedRequests' = [delayedRequests EXCEPT ![t] = NoTorrent]
    /\ subscribers' = subscribers \ {t}
    /\ phase' = "delayed"
    /\ UNCHANGED <<running, executedRequests, trackerVars, inFlight, overtaken, useless>>

(* process(Pause): every tracker is reset, of whatever torrent.  On resume *)
(* the trackers are added again.                                           *)
PauseSubscribed(t) ==        \* mutant: the subscription stays
    /\ Command /\ t \in started
    /\ retryCount' = [u \in Urls |-> 0] /\ knownPeers' = [u \in Urls |-> {}]
    /\ tooSoon' = {}
    /\ delayedRequests' = [delayedRequests EXCEPT ![t] = NoTorrent]
    /\ started' = started \ {t}
    /\ phase' = "delayed"
    /\ UNCHANGED <<running, subscribers, executedRequests, trackerSet, inFlight, overtaken,
                   useless>>
Pause(t) ==
    /\ Command /\ t \in started
    /\ retryCount' = [u \in Urls |-> 0] /\ knownPeers' = [u \in Urls |-> {}]
    /\ tooSoon' = {}
    /\ delayedRequests' = [delayedRequests EXCEPT ![t] = NoTorrent]
    /\ subscribers' = subscribers \ {t}
    /\ started' = started \ {t}
    /\ phase' = "delayed"
    /\ UNCHANGED <<running, executedRequests, trackerSet, inFlight, overtaken, useless>>

Shutdown ==
    /\ Command
    /\ running' = FALSE
    /\ phase' = "delayed"
    /\ UNCHANGED <<stateVars, trackerVars, inFlight, started, overtaken, useless>>

(* The wait times out, which it only does while requests are held. *)
NoRequest ==
    /\ phase = "pop" /\ running
    /\ \/ \E u \in Urls : executedRequests[u] # NoTorrent
       \/ \E t \in Torrents : delayedRequests[t] # NoTorrent
    /\ phase' = "delayed"
    /\ UNCHANGED <<running, stateVars, trackerVars, inFlight, boundVars>>

------------------------------------------------------------------------------
(* The delayed requests, in any order.  A request is looked up under one   *)
(* torrent, and erased under the torrent it is about.                      *)
Executable == {t \in Torrents : delayedRequests[t] # NoTorrent /\ Askable(t) # {}}

ExecuteDelayed(key) ==
    LET t == delayedRequests[key] IN
    /\ phase = "delayed" /\ key \in Executable
    /\ delayedRequests' = [delayedRequests EXCEPT ![t] = NoTorrent]
    /\ Execute(key, t)
    /\ UNCHANGED <<phase, running, subscribers, trackerVars, boundVars>>

DelayedDone ==
    /\ phase = "delayed" /\ Executable = {}
    /\ phase' = "poll"
    /\ UNCHANGED <<running, stateVars, trackerVars, inFlight, boundVars>>

------------------------------------------------------------------------------
(* client.poll(), and the answer it may have. *)

Answered(u, t) == /\ phase = "poll" /\ inFlight[<<u, t>>] > 0
                  /\ inFlight' = [inFlight EXCEPT ![<<u, t>>] = @ - 1]

AfterPoll == phase' = IF running THEN "pop" ELSE "done"

NoAnswer ==
    /\ phase = "poll" /\ AfterPoll
    /\ UNCHANGED <<running, stateVars, trackerVars, inFlight, boundVars>>

(* A subscriber gets peers its tracker has not named before. *)
NewPeers(u, t, found) ==
    /\ Answered(u, t) /\ t \in subscribers /\ executedRequests[u] # NoTorrent
    /\ found \ knownPeers[u] # {}
    /\ executedRequests' = [executedRequests EXCEPT ![u] = NoTorrent]
    /\ tooSoon' = tooSoon \cup {u}
    /\ knownPeers' = [knownPeers EXCEPT ![u] = @ \cup found]
    /\ subscribers' = subscribers \ {t}
    /\ AfterPoll
    /\ UNCHANGED <<running, delayedRequests, trackerSet, retryCount, boundVars>>

Delay(t, req) == IF delayedRequests[t] = NoTorrent
                 THEN [delayedRequests EXCEPT ![t] = req] ELSE delayedRequests

(* A subscriber gets no new peers: the request that was held for the url   *)
(* is delayed, and the tracker has one retry less.                         *)
NothingNew(u, t) ==
    /\ Answered(u, t) /\ t \in subscribers /\ executedRequests[u] # NoTorrent
    /\ useless < MaxUseless /\ useless' = useless + 1
    /\ executedRequests' = [executedRequests EXCEPT ![u] = NoTorrent]
    /\ tooSoon' = tooSoon \cup {u}
    /\ delayedRequests' = Delay(t, executedRequests[u])
    /\ retryCount' = [retryCount EXCEPT ![u] = @ + 1]
    /\ AfterPoll
    /\ UNCHANGED <<running, subscribers, trackerSet, knownPeers, started, overtaken, commands>>

(* An error, for a subscriber or not. *)
ErrorAnswer(u, t) ==
    /\ Answered(u, t) /\ executedRequests[u] = t
    /\ useless < MaxUseless /\ useless' = useless + 1
    /\ executedRequests' = [executedRequests EXCEPT ![u] = NoTorrent]
    /\ delayedRequests' = Delay(t, t)
    /\ retryCount' = [retryCount EXCEPT ![u] = @ + 1]
    /\ AfterPoll
    /\ UNCHANGED <<running, subscribers, trackerSet, knownPeers, tooSoon, started, overtaken,
                   commands>>

(* Peers that nobody waits for any more. *)
UnwantedAnswer(u, t) ==
    /\ Answered(u, t) /\ t \notin subscribers
    /\ executedRequests' = [executedRequests EXCEPT ![u] = NoTorrent]
    /\ AfterPoll
    /\ UNCHANGED <<running, subscribers, delayedRequests, trackerSet, trackerVars, boundVars>>

(* executedRequests has no request for the url, or after an error not the  *)
(* one that was answered: the service goes down.                           *)
Mismatch(u, t) ==
    /\ Answered(u, t)
    /\ \/ executedRequests[u] = NoTorrent /\ t \in subscribers
       \/ executedRequests[u] # t /\ useless < MaxUseless
    /\ phase' = "down"
    /\ UNCHANGED <<running, stateVars, trackerVars, boundVars>>

(* The clock moves on. *)
TimePasses(u) ==
    /\ u \in tooSoon
    /\ tooSoon' = tooSoon \ {u}
    /\ UNCHANGED <<phase, running, stateVars, retryCount, knownPeers, inFlight, boundVars>>

------------------------------------------------------------------------------
ProcessRequest == \/ \E t \in Torrents : \/ AddTrackers(t) \/ AlreadySubscribed(t)
                                         \/ ExecuteRequest(t) \/ DelayRequest(t)
                                         \/ DeleteTrackers(t) \/ Pause(t)
                  \/ Shutdown \/ NoRequest

ProcessAnswer(u, t) == \/ \E found \in SUBSET Peers : NewPeers(u, t, found)
                       \/ NothingNew(u, t) \/ ErrorAnswer(u, t) \/ UnwantedAnswer(u, t)
                       \/ Mismatch(u, t)

Next == \/ ProcessRequest
        \/ \E t \in Torrents : ExecuteDelayed(t)
        \/ DelayedDone \/ NoAnswer
        \/ \E u \in Urls, t \in Torrents : ProcessAnswer(u, t)
        \/ \E u \in Urls : TimePasses(u)

Spec == Init /\ [][Next]_vars

(* The service loops, time passes, and a query is answered: CURLOPT_TIMEOUT*)
(* is set on every one of them.                                            *)
FairSpec == /\ Spec
            /\ WF_vars(ProcessRequest) /\ WF_vars(DelayedDone) /\ WF_vars(NoAnswer)
            /\ WF_vars(\E t \in Torrents : ExecuteDelayed(t))
            /\ WF_vars(\E u \in Urls : TimePasses(u))
            /\ SF_vars(\E u \in Urls, t \in Torrents : ProcessAnswer(u, t))

------------------------------------------------------------------------------
(* Properties. *)

(* Types; a tracker is given up after its third useless answer. *)
TypeOK == /\ phase \in {"pop", "delayed", "poll", "done", "down"} /\ running \in BOOLEAN
          /\ subscribers \subseteq Torrents
          /\ delayedRequests \in [Torrents -> Torrents \cup {NoTorrent}]
          /\ executedRequests \in [Urls -> Torrents \cup {NoTorrent}]
          /\ trackerSet \in [Torrents -> Seq(Urls)]
          /\ retryCount \in [Urls -> 0 .. 3]
          /\ knownPeers \in [Urls -> SUBSET Peers] /\ tooSoon \subseteq Urls
          /\ inFlight \in [Urls \X Torrents -> 0 .. MaxInFlight]
          /\ started \subseteq Torrents /\ overtaken \subseteq Torrents
          /\ commands \in 0 .. MaxCommands /\ useless \in 0 .. MaxUseless

(* The answer to a query finds the request it was made for: the assertion  *)
(* of pollOnce after an error, and what the look-up before it takes for    *)
(* granted.  Until a torrent comes back while an old request is held.      *)
AnswerMatches ==
    overtaken = {} =>
        \A u \in Urls, t \in Torrents : inFlight[<<u, t>>] > 0 => executedRequests[u] = t

(* A torrent that waits for peers is either delayed or with a tracker, and *)
(* never both: no request is forgotten, and none is made twice.  Until a   *)
(* torrent comes back while an old request of it is held.                  *)
SubscriberHasRequest ==
    overtaken = {} => \A t \in subscribers : (delayedRequests[t] = t) # Queried(t)

(* A torrent that was stopped or removed waits for nothing: an answer that *)
(* was on its way then brings no peers to connect to.                      *)
OnlyRunningWait == subscribers \subseteq started

(* A torrent that waits for peers gets them, unless a tracker of it has    *)
(* named every peer already, all of them were given up, a torrent came back*)
(* while an old request was held or the client shuts down: a useless       *)
(* answer or two, a delay, the interval or another torrent do not end its  *)
(* wait.                                                                   *)
TrackersFor(t) == {trackerSet[t][k] : k \in 1 .. Len(trackerSet[t])}
Exhausted(t) == \/ \E u \in TrackersFor(t) : knownPeers[u] = Peers
                \/ \A u \in TrackersFor(t) : retryCount[u] > 2
SubscribersServed ==
    \A t \in Torrents :
        t \in subscribers ~> (t \notin subscribers \/ ~running \/ Exhausted(t) \/ overtaken # {})
==============================================================================
