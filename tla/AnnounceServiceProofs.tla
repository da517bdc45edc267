------------------------ MODULE AnnounceServiceProofs ------------------------
(***************************************************************************)
(* Answers of trackers find the request they are for, and a torrent that   *)
(* waits for peers has exactly one request, for every number of torrents,  *)
(* trackers, peers and messages.                                           *)
(*                                                                         *)
(* The first needs that no tracker serves two torrents (OwnTrackers): with *)
(* a shared one the code does otherwise.  The third, that only running     *)
(* torrents wait, needs nothing.                                           *)
(***************************************************************************)
EXTENDS AnnounceService, SequenceTheorems, WellFoundedInduction, TLAPS

MaybeTorrent == Torrents \cup {NoTorrent}
Elems(s) == {s[k] : k \in 1 .. Len(s)}
Listed(t) == Elems(TrackersOf[t])

(* No two torrents have a tracker in common. *)
OwnTrackers == \A s, t \in Torrents : s # t => Listed(s) \cap Listed(t) = {}

Typed == /\ subscribers \subseteq started /\ started \subseteq Torrents
         /\ delayedRequests \in [Torrents -> MaybeTorrent]
         /\ executedRequests \in [Urls -> MaybeTorrent]
         /\ trackerSet \in [Torrents -> Seq(Urls)]
         /\ inFlight \in [Urls \X Torrents -> Nat]

(* Lists, requests and queries are of the trackers of their torrent. *)
Owned == /\ \A t \in Torrents : Elems(trackerSet[t]) \subseteq Listed(t)
         /\ \A u \in Urls : executedRequests[u] # NoTorrent => u \in Listed(executedRequests[u])
         /\ \A u \in Urls, t \in Torrents : inFlight[<<u, t>>] > 0 => u \in Listed(t)
         /\ \A t \in Torrents : delayedRequests[t] \in {t, NoTorrent}

(* A torrent has at most one request, delayed or with one tracker, which   *)
(* has it once; exactly one if it waits, and none if it runs and does not  *)
(* wait.                                                                   *)
OneRequest(t) ==
    /\ \A u \in Urls : inFlight[<<u, t>>] > 0 =>
          /\ executedRequests[u] = t /\ inFlight[<<u, t>>] = 1 /\ delayedRequests[t] = NoTorrent
          /\ \A v \in Urls : inFlight[<<v, t>>] > 0 => v = u
    /\ t \in subscribers => delayedRequests[t] = t \/ Queried(t)
    /\ t \in started \ subscribers => delayedRequests[t] = NoTorrent /\ ~Queried(t)

Requests == Typed /\ Owned /\ (overtaken = {} => \A t \in Torrents : OneRequest(t))

------------------------------------------------------------------------------
(* The trackers of a torrent are urls. *)
LEMMA ListedUrls == \A t \in Torrents : Listed(t) \subseteq Urls
BY TrackersAssumption DEF Listed, Elems

(* A non-empty set of numbers has a smallest. *)
LEMMA Smallest ==
  ASSUME NEW K \in SUBSET Nat, K # {}
  PROVE  \E k \in K : \A j \in K : k <= j
<1>1. PICK k \in K : \A j \in K : ~(<<j, k>> \in OpToRel(<, Nat))
  BY NatLessThanWellFounded, WFMin
<1>2. \A j \in K : ~(j < k)
  BY <1>1 DEF OpToRel
<1>3. QED
  BY <1>2

(* getNextAnnounce finds a tracker of the torrent, and leaves its list with *)
(* the same trackers.                                                       *)
LEMMA NextListed ==
  ASSUME Typed, Owned, NEW t \in Torrents, Askable(t) # {}
  PROVE  /\ NextAnnounce(t) \in Listed(t)
         /\ Rotated(t) \in Seq(Urls) /\ Elems(Rotated(t)) \subseteq Listed(t)
<1> DEFINE s == trackerSet[t]  n == NextIndex(t)
<1>1. s \in Seq(Urls) /\ Len(s) \in Nat /\ \A k \in 1 .. Len(s) : s[k] \in Listed(t)
  BY DEF Typed, Owned, Elems
<1>2. n \in 1 .. Len(s)
  <2>1. Askable(t) \in SUBSET Nat
    BY <1>1 DEF Askable
  <2>2. \E k \in Askable(t) : \A j \in Askable(t) : k <= j
    BY <2>1, Smallest
  <2>3. NextIndex(t) \in Askable(t)
    BY <2>2 DEF NextIndex
  <2>4. QED
    BY <2>3 DEF Askable
<1>3. Rotated(t) \in Seq(Listed(t))
  <2>1. \A k \in n .. Len(s) : s[k] \in Listed(t)
    BY <1>1, <1>2
  <2>2. \A k \in 1 .. n - 1 : s[k] \in Listed(t)
    BY <1>1, <1>2
  <2>3. n \in Int /\ Len(s) \in Int /\ 1 \in Int /\ n - 1 \in Int
    BY <1>1, <1>2
  <2> HIDE DEF s, n
  <2>4. SubSeq(s, n, Len(s)) \in Seq(Listed(t)) /\ SubSeq(s, 1, n - 1) \in Seq(Listed(t))
    BY <2>1, <2>2, <2>3, SubSeqProperties
  <2>5. SubSeq(s, n, Len(s)) \o SubSeq(s, 1, n - 1) \in Seq(Listed(t))
    BY <2>4, ConcatProperties
  <2>6. QED
    BY <2>5 DEF Rotated, s, n
<1>4. Rotated(t) \in Seq(Urls) /\ Elems(Rotated(t)) \subseteq Listed(t)
  BY <1>3, ListedUrls, SeqMonotonic, ElementOfSeq DEF Elems
<1>5. QED
  BY <1>1, <1>2, <1>4 DEF NextAnnounce

(* What execute does, for a request looked up under its own torrent: the   *)
(* url then holds the request of that torrent.                             *)
LEMMA ExecuteEffect ==
  ASSUME Typed, Owned, OwnTrackers, NEW t \in Torrents, Askable(t) # {}, Execute(t, t)
  PROVE  /\ trackerSet' \in [Torrents -> Seq(Urls)]
         /\ \A s \in Torrents : Elems(trackerSet'[s]) \subseteq Listed(s)
         /\ \E u \in Listed(t) :
              /\ u \in Urls
              /\ executedRequests' = [executedRequests EXCEPT ![u] = t]
              /\ inFlight' = [inFlight EXCEPT ![<<u, t>>] = IF @ < MaxInFlight THEN @ + 1 ELSE @]
<1> DEFINE u == NextAnnounce(t)
<1>1. /\ u \in Listed(t) /\ u \in Urls
      /\ Rotated(t) \in Seq(Urls) /\ Elems(Rotated(t)) \subseteq Listed(t)
  BY NextListed, ListedUrls
<1>2. /\ trackerSet' = [trackerSet EXCEPT ![t] = Rotated(t)]
      /\ inFlight' = [inFlight EXCEPT ![<<u, t>>] = IF @ < MaxInFlight THEN @ + 1 ELSE @]
      /\ executedRequests' = IF executedRequests[u] = NoTorrent
                             THEN [executedRequests EXCEPT ![u] = t] ELSE executedRequests
  BY DEF Execute
<1>3. executedRequests' = [executedRequests EXCEPT ![u] = t]
  <2> HIDE DEF u
  <2>1. executedRequests[u] \in MaybeTorrent /\ executedRequests \in [Urls -> MaybeTorrent]
    BY <1>1 DEF Typed
  <2>2. CASE executedRequests[u] = NoTorrent
    BY <1>2, <2>2
  <2>3. CASE executedRequests[u] # NoTorrent
    <3>1. executedRequests[u] \in Torrents /\ u \in Listed(executedRequests[u])
      BY <1>1, <2>1, <2>3 DEF Owned, MaybeTorrent
    <3>2. executedRequests[u] = t
      BY <1>1, <3>1 DEF OwnTrackers
    <3>3. QED
      BY <1>1, <1>2, <2>1, <2>3, <3>2
  <2>4. QED
    BY <2>2, <2>3
<1>4. trackerSet' \in [Torrents -> Seq(Urls)] /\ \A s \in Torrents : Elems(trackerSet'[s]) \subseteq Listed(s)
  BY <1>1, <1>2 DEF Typed, Owned
<1>5. QED
  BY <1>1, <1>2, <1>3, <1>4

(* A step that leaves alone the requests, trackers and queries of a torrent. *)
LEMMA Elsewhere ==
  ASSUME Typed, Owned, NEW s \in Torrents, OneRequest(s),
         \A u \in Urls : inFlight'[<<u, s>>] = inFlight[<<u, s>>],
         \A u \in Listed(s) : executedRequests'[u] = executedRequests[u],
         delayedRequests'[s] = delayedRequests[s],
         s \in subscribers' <=> s \in subscribers, s \in started' <=> s \in started
  PROVE  OneRequest(s)'
<1>1. Queried(s)' <=> Queried(s)
  BY DEF Queried
<1>2. QED
  BY <1>1 DEF OneRequest, Owned

(* An executed request: of a torrent that had none, or only this delayed one. *)
LEMMA ExecuteKeeps ==
  ASSUME Requests, OwnTrackers, NEW t \in Torrents, Askable(t) # {}, Execute(t, t),
         delayedRequests' \in {delayedRequests, [delayedRequests EXCEPT ![t] = NoTorrent]},
         overtaken = {} => ~Queried(t) /\ delayedRequests'[t] = NoTorrent,
         overtaken = {} /\ t \in started => t \in subscribers',
         subscribers' \subseteq started,
         \A s \in Torrents \ {t} : s \in subscribers' <=> s \in subscribers,
         UNCHANGED <<started, overtaken>>
  PROVE  Requests'
<1>0. Typed /\ Owned
  BY DEF Requests
<1>1. /\ trackerSet' \in [Torrents -> Seq(Urls)]
      /\ \A s \in Torrents : Elems(trackerSet'[s]) \subseteq Listed(s)
  BY <1>0, ExecuteEffect
<1>2. PICK u \in Listed(t) :
         /\ u \in Urls
         /\ executedRequests' = [executedRequests EXCEPT ![u] = t]
         /\ inFlight' = [inFlight EXCEPT ![<<u, t>>] = IF @ < MaxInFlight THEN @ + 1 ELSE @]
  BY <1>0, ExecuteEffect
<1>3. /\ executedRequests' \in [Urls -> MaybeTorrent] /\ inFlight' \in [Urls \X Torrents -> Nat]
      /\ executedRequests'[u] = t /\ \A v \in Urls \ {u} : executedRequests'[v] = executedRequests[v]
      /\ inFlight'[<<u, t>>] = IF inFlight[<<u, t>>] < MaxInFlight THEN inFlight[<<u, t>>] + 1
                               ELSE inFlight[<<u, t>>]
      /\ \A v \in Urls, s \in Torrents : <<v, s>> # <<u, t>> => inFlight'[<<v, s>>] = inFlight[<<v, s>>]
  BY <1>0, <1>2 DEF Typed, MaybeTorrent
<1>4. /\ delayedRequests' \in [Torrents -> MaybeTorrent]
      /\ \A s \in Torrents \ {t} : delayedRequests'[s] = delayedRequests[s]
      /\ delayedRequests'[t] \in {delayedRequests[t], NoTorrent}
  BY <1>0 DEF Typed, MaybeTorrent
<1>5. Typed'
  BY <1>0, <1>1, <1>3, <1>4 DEF Typed
<1>6. Owned'
  <2>1. \A v \in Urls : executedRequests'[v] # NoTorrent => v \in Listed(executedRequests'[v])
    BY <1>0, <1>2, <1>3 DEF Owned
  <2>2. \A v \in Urls, s \in Torrents : inFlight'[<<v, s>>] > 0 => v \in Listed(s)
    <3> SUFFICES ASSUME NEW v \in Urls, NEW s \in Torrents, inFlight'[<<v, s>>] > 0
                 PROVE  v \in Listed(s)
      OBVIOUS
    <3>1. CASE v = u /\ s = t
      BY <1>2, <3>1
    <3>2. CASE ~(v = u /\ s = t)
      BY <1>0, <1>3, <3>2 DEF Owned
    <3>3. QED
      BY <3>1, <3>2
  <2>3. \A s \in Torrents : delayedRequests'[s] \in {s, NoTorrent}
    BY <1>0, <1>4 DEF Owned
  <2>4. QED
    BY <1>1, <2>1, <2>2, <2>3 DEF Owned
<1>7. ASSUME overtaken' = {}, NEW s \in Torrents PROVE OneRequest(s)'
  <2>1. OneRequest(s) /\ OneRequest(t)
    BY <1>7 DEF Requests
  <2>2. CASE s # t
    <3>1. \A v \in Listed(s) : v # u
      BY <1>2, <2>2 DEF OwnTrackers
    <3>2. \A v \in Listed(s) : executedRequests'[v] = executedRequests[v]
      BY <1>3, <3>1, ListedUrls
    <3>3. \A v \in Urls : inFlight'[<<v, s>>] = inFlight[<<v, s>>]
      BY <1>3, <2>2
    <3>4. QED
      BY <1>0, <1>4, <2>1, <2>2, <3>2, <3>3, Elsewhere
  <2>3. CASE s = t
    <3>1. \A v \in Urls : ~(inFlight[<<v, t>>] > 0)
      BY <1>7 DEF Queried
    <3>2. inFlight'[<<u, t>>] = 1 /\ \A v \in Urls \ {u} : ~(inFlight'[<<v, t>>] > 0)
      <4>1. inFlight[<<u, t>>] = 0
        BY <1>0, <1>2, <3>1 DEF Typed
      <4>2. inFlight'[<<u, t>>] = 1
        BY <1>3, <4>1, BoundsAssumption
      <4>3. QED
        BY <1>3, <3>1, <4>2
    <3>3. Queried(t)'
      BY <1>2, <3>2 DEF Queried
    <3>4. t \in started' => t \in subscribers'
      BY <1>7
    <3>5. QED
      BY <1>3, <1>7, <2>3, <3>2, <3>3, <3>4 DEF OneRequest
  <2>4. QED
    BY <2>2, <2>3
<1>8. QED
  BY <1>5, <1>6, <1>7 DEF Requests

(* An answer: the torrent stops waiting, or its request is delayed. *)
LEMMA AnswerKeeps ==
  ASSUME Requests, OwnTrackers, NEW u \in Urls, NEW t \in Torrents, inFlight[<<u, t>>] > 0,
         inFlight' = [inFlight EXCEPT ![<<u, t>>] = @ - 1],
         executedRequests' = [executedRequests EXCEPT ![u] = NoTorrent],
         \/ delayedRequests' = delayedRequests /\ t \notin subscribers'
         \/ delayedRequests' = Delay(t, t) /\ subscribers' = subscribers,
         subscribers' \in {subscribers, subscribers \ {t}},
         UNCHANGED <<started, overtaken, trackerSet>>
  PROVE  Requests'
<1>0. Typed /\ Owned /\ u \in Listed(t)
  BY DEF Requests, Owned
<1>1. /\ executedRequests' \in [Urls -> MaybeTorrent] /\ inFlight' \in [Urls \X Torrents -> Nat]
      /\ executedRequests'[u] = NoTorrent
      /\ \A v \in Urls \ {u} : executedRequests'[v] = executedRequests[v]
      /\ inFlight'[<<u, t>>] = inFlight[<<u, t>>] - 1
      /\ \A v \in Urls, s \in Torrents : <<v, s>> # <<u, t>> => inFlight'[<<v, s>>] = inFlight[<<v, s>>]
  BY <1>0 DEF Typed, MaybeTorrent
<1>2. /\ delayedRequests' \in [Torrents -> MaybeTorrent]
      /\ \A s \in Torrents \ {t} : delayedRequests'[s] = delayedRequests[s]
      /\ \/ delayedRequests'[t] = delayedRequests[t] /\ t \notin subscribers'
         \/ /\ delayedRequests'[t] = (IF delayedRequests[t] = NoTorrent THEN t ELSE delayedRequests[t])
            /\ subscribers' = subscribers
  BY <1>0 DEF Typed, Delay, MaybeTorrent
<1>3. Typed'
  BY <1>0, <1>1, <1>2 DEF Typed
<1>4. Owned'
  <2>1. \A v \in Urls : executedRequests'[v] # NoTorrent => v \in Listed(executedRequests'[v])
    BY <1>0, <1>1 DEF Owned
  <2>2. \A v \in Urls, s \in Torrents : inFlight'[<<v, s>>] > 0 => v \in Listed(s)
    <3> SUFFICES ASSUME NEW v \in Urls, NEW s \in Torrents, inFlight'[<<v, s>>] > 0
                 PROVE  v \in Listed(s)
      OBVIOUS
    <3>1. CASE v = u /\ s = t
      BY <1>0, <3>1
    <3>2. CASE ~(v = u /\ s = t)
      BY <1>0, <1>1, <3>2 DEF Owned
    <3>3. QED
      BY <3>1, <3>2
  <2>3. \A s \in Torrents : delayedRequests'[s] \in {s, NoTorrent}
    BY <1>0, <1>2 DEF Owned
  <2>4. QED
    BY <1>0, <2>1, <2>2, <2>3 DEF Owned
<1>5. ASSUME overtaken' = {}, NEW s \in Torrents PROVE OneRequest(s)'
  <2>1. OneRequest(s) /\ OneRequest(t)
    BY <1>5 DEF Requests
  <2>2. CASE s # t
    <3>1. \A v \in Listed(s) : v # u
      BY <1>0, <2>2 DEF OwnTrackers
    <3>2. \A v \in Listed(s) : executedRequests'[v] = executedRequests[v]
      BY <1>1, <3>1, ListedUrls
    <3>3. \A v \in Urls : inFlight'[<<v, s>>] = inFlight[<<v, s>>]
      BY <1>1, <2>2
    <3>4. QED
      BY <1>0, <1>2, <2>1, <2>2, <3>2, <3>3, Elsewhere
  <2>3. CASE s = t
    <3>1. /\ inFlight[<<u, t>>] = 1 /\ delayedRequests[t] = NoTorrent
          /\ \A v \in Urls : inFlight[<<v, t>>] > 0 => v = u
      BY <2>1 DEF OneRequest
    <3>2. \A v \in Urls : ~(inFlight'[<<v, t>>] > 0)
      BY <1>1, <3>1
    <3>3. ~Queried(t)' /\ Queried(t)
      BY <3>2 DEF Queried
    <3>4. t \notin started \ subscribers
      BY <2>1, <3>3 DEF OneRequest
    <3>5. QED
      BY <1>2, <2>3, <3>1, <3>2, <3>3, <3>4 DEF OneRequest
  <2>4. QED
    BY <2>2, <2>3
<1>6. QED
  BY <1>3, <1>4, <1>5 DEF Requests

(* The steps that answer, forget or only note something for one torrent. *)
LEMMA CommandKeeps ==
  ASSUME Requests, OwnTrackers, NEW t \in Torrents,
         \/ AddTrackers(t) \/ AlreadySubscribed(t) \/ ExecuteRequest(t) \/ DelayRequest(t)
         \/ DeleteTrackers(t) \/ Pause(t)
  PROVE  Requests'
<1>0. Typed /\ Owned
  BY DEF Requests
<1>1. CASE AddTrackers(t)
  <2>1. /\ t \notin started /\ started' = started \cup {t}
        /\ overtaken' = IF Queried(t) \/ delayedRequests[t] # NoTorrent THEN overtaken \cup {t}
                        ELSE overtaken
        /\ trackerSet' = [trackerSet EXCEPT ![t] = @ \o TrackersOf[t]]
        /\ UNCHANGED <<subscribers, delayedRequests, executedRequests, inFlight>>
    BY <1>1 DEF AddTrackers
  <2>2. /\ trackerSet[t] \o TrackersOf[t] \in Seq(Urls)
        /\ Elems(trackerSet[t] \o TrackersOf[t]) \subseteq Listed(t)
    <3>1. trackerSet[t] \in Seq(Listed(t)) /\ TrackersOf[t] \in Seq(Listed(t))
      <4>1. trackerSet[t] \in Seq(Urls) /\ TrackersOf[t] \in Seq(Urls)
        BY <1>0, TrackersAssumption DEF Typed
      <4>2. /\ \A k \in 1 .. Len(trackerSet[t]) : trackerSet[t][k] \in Listed(t)
            /\ \A k \in 1 .. Len(TrackersOf[t]) : TrackersOf[t][k] \in Listed(t)
        BY <1>0 DEF Owned, Elems, Listed
      <4>3. QED
        BY <4>1, <4>2, SeqDef
    <3>2. trackerSet[t] \o TrackersOf[t] \in Seq(Listed(t))
      BY <3>1, ConcatProperties
    <3>3. QED
      BY <3>2, ListedUrls, SeqMonotonic, ElementOfSeq DEF Elems
  <2>3. Typed' /\ Owned'
    BY <1>0, <2>1, <2>2 DEF Typed, Owned
  <2>4. ASSUME overtaken' = {}, NEW s \in Torrents PROVE OneRequest(s)'
    <3>1. overtaken = {} /\ ~Queried(t) /\ delayedRequests[t] = NoTorrent
      BY <2>1, <2>4
    <3>2. OneRequest(s)
      BY <3>1 DEF Requests
    <3>3. CASE s # t
      BY <1>0, <2>1, <3>2, <3>3, Elsewhere
    <3>4. CASE s = t
      <4>1. ~Queried(t)' /\ t \notin subscribers'
        BY <1>0, <2>1, <3>1 DEF Queried, Typed
      <4>2. \A u \in Urls : ~(inFlight'[<<u, t>>] > 0)
        BY <4>1 DEF Queried
      <4>3. QED
        BY <2>1, <3>1, <3>4, <4>1, <4>2 DEF OneRequest
    <3>5. QED
      BY <3>3, <3>4
  <2>5. QED
    BY <2>3, <2>4 DEF Requests
<1>2. CASE AlreadySubscribed(t)
  BY <1>2 DEF AlreadySubscribed, stateVars, Requests, Typed, Owned, OneRequest, Queried
<1>3. CASE ExecuteRequest(t)
  <2>1. /\ t \in started \ subscribers /\ Askable(t) # {} /\ Execute(t, t)
        /\ subscribers' = subscribers \cup {t}
        /\ UNCHANGED <<delayedRequests, started, overtaken>>
    BY <1>3 DEF ExecuteRequest
  <2>2. overtaken = {} => ~Queried(t) /\ delayedRequests'[t] = NoTorrent
    BY <2>1 DEF Requests, OneRequest
  <2>3. subscribers' \subseteq started
    BY <1>0, <2>1 DEF Typed
  <2>4. QED
    BY <2>1, <2>2, <2>3, ExecuteKeeps
<1>4. CASE DelayRequest(t)
  <2>1. /\ t \in started \ subscribers /\ subscribers' = subscribers \cup {t}
        /\ delayedRequests' = IF delayedRequests[t] = NoTorrent
                              THEN [delayedRequests EXCEPT ![t] = t] ELSE delayedRequests
        /\ UNCHANGED <<executedRequests, trackerSet, inFlight, started, overtaken>>
    BY <1>4 DEF DelayRequest
  <2>2. /\ delayedRequests' \in [Torrents -> MaybeTorrent] /\ delayedRequests'[t] = t
        /\ \A s \in Torrents \ {t} : delayedRequests'[s] = delayedRequests[s]
    BY <1>0, <2>1 DEF Typed, MaybeTorrent, Owned
  <2>3. Typed' /\ Owned'
    BY <1>0, <2>1, <2>2 DEF Typed, Owned
  <2>4. ASSUME overtaken' = {}, NEW s \in Torrents PROVE OneRequest(s)'
    <3>1. OneRequest(s) /\ OneRequest(t)
      BY <2>1, <2>4 DEF Requests
    <3>2. CASE s # t
      BY <1>0, <2>1, <2>2, <3>1, <3>2, Elsewhere
    <3>3. CASE s = t
      <4>1. ~Queried(t)
        BY <2>1, <3>1 DEF OneRequest
      <4>2. \A u \in Urls : ~(inFlight'[<<u, t>>] > 0)
        BY <2>1, <4>1 DEF Queried
      <4>3. QED
        BY <2>1, <2>2, <3>3, <4>2 DEF OneRequest
    <3>4. QED
      BY <3>2, <3>3
  <2>5. QED
    BY <2>3, <2>4 DEF Requests
<1>5. CASE DeleteTrackers(t) \/ Pause(t)
  <2>1. /\ started' = started \ {t} /\ subscribers' = subscribers \ {t}
        /\ delayedRequests' = [delayedRequests EXCEPT ![t] = NoTorrent]
        /\ trackerSet' \in {trackerSet, [trackerSet EXCEPT ![t] = <<>>]}
        /\ UNCHANGED <<executedRequests, inFlight, overtaken>>
    BY <1>5 DEF DeleteTrackers, Pause
  <2>2. /\ delayedRequests' \in [Torrents -> MaybeTorrent] /\ delayedRequests'[t] = NoTorrent
        /\ \A s \in Torrents \ {t} : delayedRequests'[s] = delayedRequests[s]
    BY <1>0, <2>1 DEF Typed, MaybeTorrent
  <2>3. /\ trackerSet' \in [Torrents -> Seq(Urls)]
        /\ \A s \in Torrents : Elems(trackerSet'[s]) \subseteq Listed(s)
    <3>1. <<>> \in Seq(Urls) /\ Elems(<<>>) = {}
      BY DEF Elems
    <3>2. QED
      BY <1>0, <2>1, <3>1 DEF Typed, Owned
  <2>4. Typed' /\ Owned'
    BY <1>0, <2>1, <2>2, <2>3 DEF Typed, Owned
  <2>5. ASSUME overtaken' = {}, NEW s \in Torrents PROVE OneRequest(s)'
    <3>1. OneRequest(s)
      BY <2>1, <2>5 DEF Requests
    <3>2. CASE s # t
      BY <1>0, <2>1, <2>2, <3>1, <3>2, Elsewhere
    <3>3. CASE s = t
      BY <2>1, <2>2, <3>1, <3>3 DEF OneRequest
    <3>4. QED
      BY <3>2, <3>3
  <2>6. QED
    BY <2>4, <2>5 DEF Requests
<1>6. QED
  BY <1>1, <1>2, <1>3, <1>4, <1>5

(* A delayed request is held under its own torrent. *)
LEMMA DelayedKeeps ==
  ASSUME Requests, OwnTrackers, NEW key \in Torrents, ExecuteDelayed(key)
  PROVE  Requests'
<1>1. /\ key \in Executable /\ Execute(key, delayedRequests[key])
      /\ delayedRequests' = [delayedRequests EXCEPT ![delayedRequests[key]] = NoTorrent]
      /\ UNCHANGED <<subscribers, started, overtaken>>
  BY DEF ExecuteDelayed, boundVars
<1>2. delayedRequests[key] = key /\ Askable(key) # {}
  BY <1>1 DEF Executable, Requests, Owned
<1>3. delayedRequests'[key] = NoTorrent
  BY <1>1, <1>2 DEF Requests, Typed
<1>4. ASSUME overtaken = {} PROVE ~Queried(key) /\ (key \in started => key \in subscribers)
  <2>1. OneRequest(key) /\ key # NoTorrent
    BY <1>4, TorrentsAssumption DEF Requests
  <2>2. QED
    BY <1>2, <2>1 DEF OneRequest, Queried
<1>5. subscribers' \subseteq started
  BY <1>1 DEF Requests, Typed
<1>6. QED
  BY <1>1, <1>2, <1>3, <1>4, <1>5, ExecuteKeeps

(* Every answer; one that finds no request of its own is not met before a   *)
(* torrent comes back too early.                                            *)
LEMMA ProcessAnswerKeeps ==
  ASSUME Requests, OwnTrackers, NEW u \in Urls, NEW t \in Torrents, ProcessAnswer(u, t)
  PROVE  Requests'
<1>0. Typed /\ Owned /\ inFlight[<<u, t>>] > 0
      /\ inFlight' = [inFlight EXCEPT ![<<u, t>>] = @ - 1] /\ u \in Listed(t)
  BY DEF Requests, Owned, ProcessAnswer, NewPeers, NothingNew, ErrorAnswer, UnwantedAnswer, Mismatch,
         Answered
<1>1. ASSUME NEW found \in SUBSET Peers, NewPeers(u, t, found) PROVE Requests'
  <2>1. /\ executedRequests' = [executedRequests EXCEPT ![u] = NoTorrent]
        /\ subscribers' = subscribers \ {t}
        /\ UNCHANGED <<delayedRequests, trackerSet, started, overtaken>>
    BY <1>1 DEF NewPeers, boundVars
  <2>2. QED
    BY <1>0, <2>1, AnswerKeeps
<1>2. CASE NothingNew(u, t)
  <2>1. /\ executedRequests' = [executedRequests EXCEPT ![u] = NoTorrent]
        /\ executedRequests[u] # NoTorrent /\ delayedRequests' = Delay(t, executedRequests[u])
        /\ UNCHANGED <<subscribers, trackerSet, started, overtaken>>
    BY <1>2 DEF NothingNew
  <2>2. executedRequests[u] = t
    <3>1. executedRequests[u] \in Torrents /\ u \in Listed(executedRequests[u])
      BY <1>0, <2>1 DEF Typed, Owned, MaybeTorrent
    <3>2. QED
      BY <1>0, <3>1 DEF OwnTrackers
  <2>3. QED
    BY <1>0, <2>1, <2>2, AnswerKeeps
<1>3. CASE ErrorAnswer(u, t)
  <2>1. /\ executedRequests' = [executedRequests EXCEPT ![u] = NoTorrent]
        /\ delayedRequests' = Delay(t, t)
        /\ UNCHANGED <<subscribers, trackerSet, started, overtaken>>
    BY <1>3 DEF ErrorAnswer
  <2>2. QED
    BY <1>0, <2>1, AnswerKeeps
<1>4. CASE UnwantedAnswer(u, t)
  <2>1. /\ executedRequests' = [executedRequests EXCEPT ![u] = NoTorrent] /\ t \notin subscribers
        /\ UNCHANGED <<subscribers, delayedRequests, trackerSet, started, overtaken>>
    BY <1>4 DEF UnwantedAnswer, boundVars
  <2>2. QED
    BY <1>0, <2>1, AnswerKeeps
<1>5. CASE Mismatch(u, t)
  <2>1. /\ executedRequests[u] # t
        /\ UNCHANGED <<subscribers, delayedRequests, executedRequests, trackerSet, started, overtaken>>
    BY <1>5, TorrentsAssumption DEF Mismatch, stateVars, boundVars
  <2>2. overtaken # {}
    BY <1>0, <2>1 DEF Requests, OneRequest
  <2>3. inFlight' \in [Urls \X Torrents -> Nat]
    BY <1>0 DEF Typed
  <2>4. \A v \in Urls, s \in Torrents : inFlight'[<<v, s>>] > 0 => v \in Listed(s)
    <3> SUFFICES ASSUME NEW v \in Urls, NEW s \in Torrents, inFlight'[<<v, s>>] > 0
                 PROVE  v \in Listed(s)
      OBVIOUS
    <3>1. CASE v = u /\ s = t
      BY <1>0, <3>1
    <3>2. CASE ~(v = u /\ s = t)
      <4>1. <<v, s>> # <<u, t>>
        BY <3>2
      <4>2. inFlight'[<<v, s>>] = inFlight[<<v, s>>]
        BY <1>0, <4>1 DEF Typed
      <4>3. QED
        BY <1>0, <4>2 DEF Owned
    <3>3. QED
      BY <3>1, <3>2
  <2>5. QED
    BY <1>0, <2>1, <2>2, <2>3, <2>4 DEF Requests, Typed, Owned
<1>6. QED
  BY <1>1, <1>2, <1>3, <1>4, <1>5 DEF ProcessAnswer

------------------------------------------------------------------------------
(* The service starts without requests. *)
LEMMA RequestsInit == Init => Requests
<1> SUFFICES ASSUME Init PROVE Requests
  OBVIOUS
<1>1. Typed
  BY DEF Init, Typed, MaybeTorrent
<1>2. \A u \in Urls, t \in Torrents : ~(inFlight[<<u, t>>] > 0)
  BY DEF Init
<1>3. Owned
  <2>1. Elems(<<>>) = {}
    BY DEF Elems
  <2>2. QED
    BY <1>2, <2>1 DEF Init, Owned
<1>4. \A t \in Torrents : OneRequest(t)
  BY <1>2 DEF Init, OneRequest
<1>5. QED
  BY <1>1, <1>3, <1>4 DEF Requests

(* Every step keeps the requests in order. *)
LEMMA RequestsNext ==
  ASSUME Requests, OwnTrackers, [Next]_vars
  PROVE  Requests'
<1>1. CASE UNCHANGED <<subscribers, started, delayedRequests, executedRequests, trackerSet, inFlight,
                       overtaken>>
  BY <1>1 DEF Requests, Typed, Owned, OneRequest, Queried
<1>2. CASE \/ Shutdown \/ NoRequest \/ DelayedDone \/ NoAnswer \/ \E u \in Urls : TimePasses(u)
           \/ UNCHANGED vars
  BY <1>1, <1>2 DEF Shutdown, NoRequest, DelayedDone, NoAnswer, TimePasses, vars, stateVars, boundVars
<1>3. QED
  BY <1>2, CommandKeeps, DelayedKeeps, ProcessAnswerKeeps DEF Next, ProcessRequest

(* The requests are in order in every reachable state. *)
LEMMA RequestsAlways == ASSUME OwnTrackers PROVE Spec => []Requests
<1>1. Requests /\ [Next]_vars => Requests'
  BY RequestsNext
<1>2. QED
  BY <1>1, RequestsInit, PTL DEF Spec

(* With trackers of their own, the answer to a query finds the request it   *)
(* was made for, the assertion of pollOnce, until a torrent comes back      *)
(* while an old request of it is held.                                      *)
THEOREM AnswersFindTheirRequest == ASSUME OwnTrackers PROVE Spec => []AnswerMatches
<1>1. Requests => AnswerMatches
  BY DEF Requests, OneRequest, AnswerMatches
<1>2. QED
  BY <1>1, RequestsAlways, PTL

(* With trackers of their own, a torrent that waits for peers is either     *)
(* delayed or with a tracker and never both, until a torrent comes back     *)
(* while an old request of it is held.                                      *)
THEOREM WaitingHasOneRequest == ASSUME OwnTrackers PROVE Spec => []SubscriberHasRequest
<1>1. Requests => SubscriberHasRequest
  <2> SUFFICES ASSUME Requests, overtaken = {}, NEW t \in subscribers
               PROVE  (delayedRequests[t] = t) # Queried(t)
    BY DEF SubscriberHasRequest
  <2>1. t \in Torrents /\ t # NoTorrent
    BY TorrentsAssumption DEF Requests, Typed
  <2>2. OneRequest(t)
    BY <2>1 DEF Requests
  <2>3. delayedRequests[t] = t \/ Queried(t)
    BY <2>2 DEF OneRequest
  <2>4. ~(delayedRequests[t] = t /\ Queried(t))
    BY <2>1, <2>2 DEF OneRequest, Queried
  <2>5. CASE Queried(t)
    <3>1. (delayedRequests[t] = t) = FALSE /\ Queried(t) = TRUE
      BY <2>4, <2>5 DEF Queried
    <3>2. QED
      BY <3>1
  <2>6. CASE ~Queried(t)
    <3>1. (delayedRequests[t] = t) = TRUE /\ Queried(t) = FALSE
      BY <2>3, <2>6 DEF Queried
    <3>2. QED
      BY <3>1
  <2>7. QED
    BY <2>5, <2>6 DEF Queried
<1>2. QED
  BY <1>1, RequestsAlways, PTL

(* A torrent that was stopped or removed does not wait for peers, shared    *)
(* trackers or not.                                                         *)
THEOREM StoppedDoNotWait == Spec => []OnlyRunningWait
<1>1. Init => OnlyRunningWait
  BY DEF Init, OnlyRunningWait
<1>2. OnlyRunningWait /\ [Next]_vars => OnlyRunningWait'
  <2> SUFFICES ASSUME OnlyRunningWait, [Next]_vars PROVE OnlyRunningWait'
    OBVIOUS
  <2>1. CASE ProcessRequest
    BY <2>1 DEF OnlyRunningWait, ProcessRequest, AddTrackers, AlreadySubscribed, ExecuteRequest,
                DelayRequest, DeleteTrackers, Pause, Shutdown, NoRequest, stateVars, boundVars
  <2>2. ASSUME NEW u \in Urls, NEW t \in Torrents, ProcessAnswer(u, t) PROVE OnlyRunningWait'
    BY <2>2 DEF OnlyRunningWait, ProcessAnswer, NewPeers, NothingNew, ErrorAnswer, UnwantedAnswer,
                Mismatch, stateVars, boundVars
  <2>3. CASE \/ \E t \in Torrents : ExecuteDelayed(t)
             \/ DelayedDone \/ NoAnswer
             \/ \E u \in Urls : TimePasses(u)
             \/ UNCHANGED vars
    BY <2>3 DEF OnlyRunningWait, ExecuteDelayed, DelayedDone, NoAnswer, TimePasses, vars, stateVars,
                boundVars
  <2>4. QED
    BY <2>1, <2>2, <2>3 DEF Next
<1>3. QED
  BY <1>1, <1>2, PTL DEF Spec
==============================================================================
