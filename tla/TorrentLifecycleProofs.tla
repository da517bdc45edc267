------------------------ MODULE TorrentLifecycleProofs ------------------------
(***************************************************************************)
(* Exit, removal, completion and the agreement of the services, for any    *)
(* torrents and pieces and any number of commands and restarts.            *)
(*                                                                         *)
(* Exit: the Shutdown is the last event of its queue.  Removal: a torrent  *)
(* has one life at a time, which goes from the persist service's answer to *)
(* the entry of the display and from there to the persist service again.   *)
(* Completion: what the database and the reports say is never ahead of the *)
(* data.  Agreement: the last report about a torrent is its state, so what *)
(* the display shows is right when no report is left.                      *)
(***************************************************************************)
EXTENDS TorrentLifecycle, FiniteSetTheorems, FunctionTheorems, SequenceTheorems, TLAPS

(* The events of each queue. *)
EventsOf(c) ==
    CASE c = "appToBtm" -> ({"Add", "Start", "Stop", "Resume", "Remove"} \X Hashes)
                           \cup {<<"Shutdown">>}
      [] c = "btmToApp" -> {"Added", "AddError", "Stopped", "Completed", "Resumed", "Removed"}
                           \X Hashes
      [] c = "btmToPersist" -> ({"AddTorrent", "Remove", "LoadPieces", "LoadTrackers"} \X Hashes)
                               \cup ({"PieceComplete"} \X Hashes \X Pieces) \cup {<<"Shutdown">>}
      [] c = "persistToBtm" -> ({"Added", "Exists", "Trackers"} \X Hashes)
                               \cup ({"Pieces"} \X Hashes \X SUBSET Pieces)
      [] c = "btmToDisk" -> ({"Read", "Init"} \X Hashes) \cup ({"Write"} \X Hashes \X Pieces)
                            \cup {<<"Shutdown">>}
      [] c = "diskToBtm" -> ({"ReadSuccess", "Initialized"} \X Hashes)
                            \cup ({"WriteSuccess"} \X Hashes \X Pieces)
      [] c = "appToPersist" -> {<<"LoadTorrents">>}
      [] c = "persistToApp" -> {"AllTorrents"} \X {S \in SUBSET Hashes : IsFiniteSet(S)}

(* Queues, with one request for the known torrents, or one answer to it. *)
QueuesTyped ==
    /\ q = [c \in Channels |-> q[c]] /\ \A c \in Channels : q[c] \in Seq(EventsOf(c))
    /\ q["appToPersist"] # <<>> => Tail(q["appToPersist"]) = <<>> /\ q["persistToApp"] = <<>>
    /\ q["persistToApp"] # <<>> => Tail(q["persistToApp"]) = <<>>

(* Ids are given out in order. *)
EntriesTyped ==
    /\ idCounter \in Nat /\ DOMAIN idTorrentMap \subseteq 0 .. idCounter
    /\ \A id \in DOMAIN idTorrentMap : idTorrentMap[id].hash \in Hashes
    /\ \A h \in DOMAIN hashToIdMap : hashToIdMap[h] \in 0 .. idCounter
    /\ DOMAIN db \subseteq Hashes /\ IsFiniteSet(DOMAIN db)

Typed == QueuesTyped /\ EntriesTyped

(* The Shutdown of a service is the last event it gets, and sent only when *)
(* BitTorrentManager ends.                                                 *)
Stops(s, c) ==
    /\ "btm" \in active => s \in active /\ <<"Shutdown">> \notin Range(q[c])
    /\ "btm" \notin active /\ s \in active =>
          /\ q[c] # <<>>
          /\ \A i \in 1 .. Len(q[c]) : q[c][i] = <<"Shutdown">> <=> i = Len(q[c])
    /\ s \notin active => q[c] = <<>>
Exits == Stops("disk", "btmToDisk") /\ Stops("persist", "btmToPersist")

(* Where the life of a torrent is: in an answer of the persist service, in *)
(* an entry of the display, or in its removal.                             *)
Marks == [persistToBtm |-> "Added", btmToApp |-> "Added",
          appToBtm |-> "Remove", btmToPersist |-> "Remove"]
Places == {"entry", "persistToApp"} \cup DOMAIN Marks
Carries(k, h) ==
    CASE k = "entry" -> Shown(h) # {}
      [] k = "persistToApp" -> \E e \in Range(q[k]) : h \in e[2]
      [] OTHER -> <<Marks[k], h>> \in Range(q[k])

AtMostOnce(s, x) == \A i, j \in 1 .. Len(s) : s[i] = x /\ s[j] = x => i = j

(* A torrent is in one place, once, while the persist service knows it. *)
OneLife(h) ==
    /\ \A k, l \in Places : Carries(k, h) /\ Carries(l, h) => k = l
    /\ \A i, j \in Shown(h) : i = j
    /\ \A k \in DOMAIN Marks : AtMostOnce(q[k], <<Marks[k], h>>)
    /\ \A k \in Places : Carries(k, h) => h \in torrentIds
    /\ q["appToPersist"] # <<>> => h \notin torrentIds

(* A torrent with an entry is known to BitTorrentManager or started by an  *)
(* event on its way, and so it is for each ResumeTorrent on its way, which *)
(* has no removal before it.                                               *)
Startable(s, D, h) == h \in D \/ <<"Start", h>> \in Range(s)
Resumable(s, D, h) ==
    \A i \in 1 .. Len(s) : s[i] = <<"Resume", h>> =>
        /\ \A j \in 1 .. i - 1 : s[j] # <<"Remove", h>>
        /\ h \in D \/ \E j \in 1 .. i - 1 : s[j] = <<"Start", h>>
KnownFirst(h) == /\ Shown(h) # {} => Startable(q["appToBtm"], DOMAIN torrents, h)
                 /\ Resumable(q["appToBtm"], DOMAIN torrents, h)

Early(h) == <<"early", h>> \in history
Lives == \A h \in Torrents : Early(h) \/ (OneLife(h) /\ KnownFirst(h))

------------------------------------------------------------------------------
(* Sequences. *)

(* What is in a sequence. *)
LEMMA InRange ==
  ASSUME NEW S, NEW s \in Seq(S), NEW x
  PROVE  x \in Range(s) <=> \E i \in 1 .. Len(s) : s[i] = x
BY DEF Range

(* A sequence of one event. *)
LEMMA Single ==
  ASSUME NEW S, NEW e \in S, NEW x
  PROVE  /\ <<e>> \in Seq(S) /\ Len(<<e>>) = 1 /\ <<e>>[1] = e
         /\ x \in Range(<<e>>) <=> x = e
         /\ AtMostOnce(<<e>>, x)
<1>1. <<e>> \in Seq(S) /\ Len(<<e>>) = 1 /\ <<e>>[1] = e
  OBVIOUS
<1>2. x \in Range(<<e>>) <=> x = e
  <2>1. x \in Range(<<e>>) <=> \E i \in 1 .. 1 : <<e>>[i] = x
    BY <1>1, InRange
  <2>2. \A i : i \in 1 .. 1 <=> i = 1
    OBVIOUS
  <2>3. QED
    BY <1>1, <2>1, <2>2
<1>3. \A i, j \in 1 .. Len(<<e>>) : i = j
  BY <1>1
<1>4. QED
  BY <1>1, <1>2, <1>3 DEF AtMostOnce

(* Events that are pushed behind others. *)
LEMMA Joining ==
  ASSUME NEW S, NEW s \in Seq(S), NEW t \in Seq(S), NEW x
  PROVE  /\ s \o t \in Seq(S)
         /\ x \in Range(s \o t) <=> x \in Range(s) \/ x \in Range(t)
         /\ AtMostOnce(s, x) /\ x \notin Range(t) => AtMostOnce(s \o t, x)
         /\ AtMostOnce(t, x) /\ x \notin Range(s) => AtMostOnce(s \o t, x)
<1> DEFINE a == s \o t
           n == Len(s)
           m == Len(t)
<1>1. a \in Seq(S) /\ Len(a) = n + m /\ n \in Nat /\ m \in Nat
  BY ConcatProperties, LenProperties
<1>2. \A i \in 1 .. n + m : a[i] = IF i <= n THEN s[i] ELSE t[i - n]
  BY ConcatProperties
<1> HIDE DEF a
<1>3. x \in Range(a) <=> \E i \in 1 .. n + m : a[i] = x
  BY <1>1, InRange
<1>4. (x \in Range(s) <=> \E i \in 1 .. n : s[i] = x) /\ (x \in Range(t) <=> \E i \in 1 .. m : t[i] = x)
  BY InRange
<1>5. (AtMostOnce(s, x) <=> \A i, j \in 1 .. n : s[i] = x /\ s[j] = x => i = j)
      /\ (AtMostOnce(t, x) <=> \A i, j \in 1 .. m : t[i] = x /\ t[j] = x => i = j)
  BY DEF AtMostOnce
<1>6. AtMostOnce(a, x) <=> \A i, j \in 1 .. n + m : a[i] = x /\ a[j] = x => i = j
  BY <1>1 DEF AtMostOnce
<1> HIDE DEF n, m
<1>7. \A i \in 1 .. n + m : (i \in 1 .. n /\ a[i] = s[i]) \/ (i - n \in 1 .. m /\ a[i] = t[i - n])
  BY <1>1, <1>2
<1>8. \A i \in 1 .. n : i \in 1 .. n + m /\ a[i] = s[i]
  BY <1>1, <1>2
<1>9. \A i \in 1 .. m : n + i \in 1 .. n + m /\ a[n + i] = t[i]
  <2>1. ASSUME NEW i \in 1 .. m PROVE n + i \in 1 .. n + m /\ ~(n + i <= n) /\ (n + i) - n = i
    BY <1>1
  <2>2. QED
    BY <1>2, <2>1
<1>10. x \in Range(a) <=> x \in Range(s) \/ x \in Range(t)
  BY <1>3, <1>4, <1>7, <1>8, <1>9
<1>11. AtMostOnce(s, x) /\ x \notin Range(t) => AtMostOnce(a, x)
  BY <1>4, <1>5, <1>6, <1>7
<1>12. ASSUME AtMostOnce(t, x), x \notin Range(s) PROVE AtMostOnce(a, x)
  <2>1. ASSUME NEW i \in 1 .. n + m, NEW j \in 1 .. n + m, a[i] = x, a[j] = x PROVE i = j
    <3>1. i - n \in 1 .. m /\ a[i] = t[i - n] /\ j - n \in 1 .. m /\ a[j] = t[j - n]
      BY <1>4, <1>7, <1>12, <2>1
    <3>2. i - n = j - n
      BY <1>5, <1>12, <2>1, <3>1
    <3>3. QED
      BY <1>1, <3>2
  <2>2. QED
    BY <1>6, <2>1
<1>13. QED
  BY <1>1, <1>10, <1>11, <1>12 DEF a

(* The first event is taken. *)
LEMMA Taking ==
  ASSUME NEW S, NEW s \in Seq(S), s # <<>>, NEW x
  PROVE  /\ Tail(s) \in Seq(S) /\ Head(s) \in S /\ Len(s) \in Nat \ {0}
         /\ x \in Range(s) <=> x \in Range(Tail(s)) \/ x = Head(s)
         /\ AtMostOnce(s, x) => AtMostOnce(Tail(s), x) /\ (x = Head(s) => x \notin Range(Tail(s)))
<1> DEFINE t == Tail(s)
           n == Len(s)
           m == n - 1
<1>1. /\ t \in Seq(S) /\ Len(t) = m /\ n \in Nat \ {0} /\ Head(s) = s[1] /\ s[1] \in S
      /\ \A i \in 1 .. m : t[i] = s[i + 1]
  OBVIOUS
<1> HIDE DEF t
<1>2. x \in Range(t) <=> \E i \in 1 .. m : t[i] = x
  BY <1>1, InRange
<1>3. x \in Range(s) <=> \E i \in 1 .. n : s[i] = x
  BY InRange
<1> HIDE DEF n
<1>4. \A i \in 1 .. n : i = 1 \/ (i - 1 \in 1 .. m /\ (i - 1) + 1 = i)
  BY <1>1
<1>5. 1 \in 1 .. n /\ \A i \in 1 .. m : i + 1 \in 1 .. n /\ i + 1 # 1
  BY <1>1
<1>6. x \in Range(s) <=> x \in Range(t) \/ x = Head(s)
  <2>1. ASSUME NEW i \in 1 .. n, s[i] = x PROVE x \in Range(t) \/ x = Head(s)
    BY <1>1, <1>2, <1>4, <2>1
  <2>2. ASSUME x \in Range(t) \/ x = Head(s) PROVE \E i \in 1 .. n : s[i] = x
    BY <1>1, <1>2, <1>5, <2>2
  <2>3. QED
    BY <1>3, <2>1, <2>2
<1>7. ASSUME AtMostOnce(s, x) PROVE AtMostOnce(t, x) /\ (x = Head(s) => x \notin Range(t))
  <2>1. \A i, j \in 1 .. n : s[i] = x /\ s[j] = x => i = j
    BY <1>7 DEF AtMostOnce, n
  <2>2. ASSUME NEW i \in 1 .. m, NEW j \in 1 .. m, t[i] = x, t[j] = x PROVE i = j
    <3>1. i + 1 = j + 1
      BY <1>1, <1>5, <2>1, <2>2
    <3>2. QED
      BY <3>1
  <2>3. ASSUME x = Head(s), NEW i \in 1 .. m PROVE t[i] # x
    BY <1>1, <1>5, <2>1, <2>3
  <2>4. QED
    BY <1>1, <1>2, <2>2, <2>3 DEF AtMostOnce
<1>8. QED
  BY <1>1, <1>6, <1>7 DEF t, n

(* Taking an event that removes nothing: a start is known afterwards. *)
LEMMA ResumableTake ==
  ASSUME NEW S, NEW s \in Seq(S), s # <<>>, NEW D, NEW E, NEW h, Resumable(s, D, h),
         h \in D \/ Head(s) = <<"Start", h>> => h \in E
  PROVE  Resumable(Tail(s), E, h)
<1> DEFINE t == Tail(s)
           n == Len(s)
<1>1. /\ n \in Nat /\ Len(t) = n - 1 /\ Head(s) = s[1]
      /\ \A i \in 1 .. n - 1 : t[i] = s[i + 1]
  OBVIOUS
<1>2. \A i \in 1 .. n : s[i] = <<"Resume", h>> =>
         /\ \A j \in 1 .. i - 1 : s[j] # <<"Remove", h>>
         /\ h \in D \/ \E j \in 1 .. i - 1 : s[j] = <<"Start", h>>
  BY DEF Resumable
<1> HIDE DEF t, n
<1>3. ASSUME NEW i \in 1 .. n - 1, t[i] = <<"Resume", h>>
      PROVE  /\ \A j \in 1 .. i - 1 : t[j] # <<"Remove", h>>
             /\ h \in E \/ \E j \in 1 .. i - 1 : t[j] = <<"Start", h>>
  <2>1. i + 1 \in 1 .. n /\ s[i + 1] = <<"Resume", h>>
    BY <1>1, <1>3
  <2>2. /\ \A j \in 1 .. (i + 1) - 1 : s[j] # <<"Remove", h>>
        /\ h \in D \/ \E j \in 1 .. (i + 1) - 1 : s[j] = <<"Start", h>>
    BY <1>2, <2>1
  <2>3. \A j \in 1 .. i - 1 : j + 1 \in 1 .. (i + 1) - 1 /\ t[j] = s[j + 1]
    BY <1>1
  <2>4. ASSUME NEW j \in 1 .. (i + 1) - 1, s[j] = <<"Start", h>>
        PROVE  h \in E \/ \E k \in 1 .. i - 1 : t[k] = <<"Start", h>>
    <3>1. CASE j = 1
      BY <1>1, <2>4, <3>1
    <3>2. CASE j # 1
      <4>1. j - 1 \in 1 .. i - 1 /\ t[j - 1] = s[j]
        BY <1>1, <3>2
      <4>2. QED
        BY <2>4, <4>1
    <3>3. QED
      BY <3>1, <3>2
  <2>5. QED
    BY <2>2, <2>3, <2>4
<1>4. QED
  BY <1>1, <1>3 DEF Resumable, t

(* Behind a removal there is no resume. *)
LEMMA ResumableRemove ==
  ASSUME NEW S, NEW s \in Seq(S), s # <<>>, NEW D, NEW E, NEW h, Resumable(s, D, h),
         Head(s) = <<"Remove", h>>
  PROVE  Resumable(Tail(s), E, h)
<1> DEFINE t == Tail(s)
           n == Len(s)
<1>1. /\ n \in Nat /\ Len(t) = n - 1 /\ Head(s) = s[1]
      /\ \A i \in 1 .. n - 1 : t[i] = s[i + 1]
  OBVIOUS
<1>2. \A i \in 1 .. n : s[i] = <<"Resume", h>> => \A j \in 1 .. i - 1 : s[j] # <<"Remove", h>>
  BY DEF Resumable
<1> HIDE DEF t, n
<1>3. ASSUME NEW i \in 1 .. n - 1 PROVE t[i] # <<"Resume", h>>
  <2>1. i + 1 \in 1 .. n /\ 1 \in 1 .. (i + 1) - 1 /\ t[i] = s[i + 1]
    BY <1>1
  <2>2. QED
    BY <1>1, <1>2, <2>1
<1>4. QED
  BY <1>1, <1>3 DEF Resumable, t

(* Events that are pushed change nothing for the resumes before them, and  *)
(* may be resumes of a torrent that is known, or started, and not removed. *)
LEMMA ResumableJoin ==
  ASSUME NEW S, NEW s \in Seq(S), NEW t \in Seq(S), NEW D, NEW h, Resumable(s, D, h),
         \/ <<"Resume", h>> \notin Range(t)
         \/ Startable(s, D, h) /\ <<"Remove", h>> \notin Range(s) \cup Range(t)
  PROVE  Resumable(s \o t, D, h)
<1> DEFINE a == s \o t
           n == Len(s)
           m == Len(t)
<1>1. a \in Seq(S) /\ Len(a) = n + m /\ n \in Nat /\ m \in Nat
  BY ConcatProperties, LenProperties
<1>2. \A i \in 1 .. n + m : a[i] = IF i <= n THEN s[i] ELSE t[i - n]
  BY ConcatProperties
<1>3. \A i \in 1 .. n : s[i] = <<"Resume", h>> =>
         /\ \A j \in 1 .. i - 1 : s[j] # <<"Remove", h>>
         /\ h \in D \/ \E j \in 1 .. i - 1 : s[j] = <<"Start", h>>
  BY DEF Resumable
<1>4. \A x : (x \in Range(s) <=> \E i \in 1 .. n : s[i] = x) /\ (x \in Range(t) <=> \E i \in 1 .. m : t[i] = x)
  BY InRange
<1> HIDE DEF a, n, m
<1>5. ASSUME NEW i \in 1 .. n + m, a[i] = <<"Resume", h>>
      PROVE  /\ \A j \in 1 .. i - 1 : a[j] # <<"Remove", h>>
             /\ h \in D \/ \E j \in 1 .. i - 1 : a[j] = <<"Start", h>>
  <2>1. CASE i <= n
    <3>1. i \in 1 .. n /\ s[i] = <<"Resume", h>> /\ \A j \in 1 .. i - 1 : a[j] = s[j]
      BY <1>1, <1>2, <1>5, <2>1
    <3>2. QED
      BY <1>3, <3>1
  <2>2. CASE ~(i <= n)
    <3>1. i - n \in 1 .. m /\ t[i - n] = <<"Resume", h>>
      BY <1>1, <1>2, <1>5, <2>2
    <3>2. Startable(s, D, h) /\ <<"Remove", h>> \notin Range(s) /\ <<"Remove", h>> \notin Range(t)
      BY <1>4, <3>1
    <3>3. ASSUME NEW j \in 1 .. i - 1 PROVE a[j] # <<"Remove", h>>
      <4>1. j \in 1 .. n + m /\ (j <= n => j \in 1 .. n) /\ (~(j <= n) => j - n \in 1 .. m)
        BY <1>1
      <4>2. QED
        BY <1>2, <1>4, <3>2, <4>1
    <3>4. ASSUME NEW j \in 1 .. n, s[j] = <<"Start", h>> PROVE j \in 1 .. i - 1 /\ a[j] = <<"Start", h>>
      BY <1>1, <1>2, <2>2, <3>4
    <3>5. QED
      BY <1>4, <3>2, <3>3, <3>4 DEF Startable
  <2>3. QED
    BY <2>1, <2>2
<1>6. QED
  BY <1>1, <1>5 DEF Resumable, a

------------------------------------------------------------------------------
(* Queues. *)

(* The channels and what they carry. *)
LEMMA Made ==
  /\ EventsOf("appToBtm") = ({"Add", "Start", "Stop", "Resume", "Remove"} \X Hashes)
                            \cup {<<"Shutdown">>}
  /\ EventsOf("btmToApp") = {"Added", "AddError", "Stopped", "Completed", "Resumed", "Removed"}
                            \X Hashes
  /\ EventsOf("btmToPersist") = ({"AddTorrent", "Remove", "LoadPieces", "LoadTrackers"} \X Hashes)
                                \cup ({"PieceComplete"} \X Hashes \X Pieces) \cup {<<"Shutdown">>}
  /\ EventsOf("persistToBtm") = ({"Added", "Exists", "Trackers"} \X Hashes)
                                \cup ({"Pieces"} \X Hashes \X SUBSET Pieces)
  /\ EventsOf("btmToDisk") = ({"Read", "Init"} \X Hashes) \cup ({"Write"} \X Hashes \X Pieces)
                             \cup {<<"Shutdown">>}
  /\ EventsOf("diskToBtm") = ({"ReadSuccess", "Initialized"} \X Hashes)
                             \cup ({"WriteSuccess"} \X Hashes \X Pieces)
  /\ EventsOf("appToPersist") = {<<"LoadTorrents">>}
  /\ EventsOf("persistToApp") = {"AllTorrents"} \X {S \in SUBSET Hashes : IsFiniteSet(S)}
<1>1. EventsOf("appToBtm") = ({"Add", "Start", "Stop", "Resume", "Remove"} \X Hashes)
                             \cup {<<"Shutdown">>}
  BY Zenon DEF EventsOf
<1>2. EventsOf("btmToApp") = {"Added", "AddError", "Stopped", "Completed", "Resumed", "Removed"}
                             \X Hashes
  BY Zenon DEF EventsOf
<1>3. EventsOf("btmToPersist") = ({"AddTorrent", "Remove", "LoadPieces", "LoadTrackers"} \X Hashes)
                                 \cup ({"PieceComplete"} \X Hashes \X Pieces) \cup {<<"Shutdown">>}
  BY Zenon DEF EventsOf
<1>4. EventsOf("persistToBtm") = ({"Added", "Exists", "Trackers"} \X Hashes)
                                 \cup ({"Pieces"} \X Hashes \X SUBSET Pieces)
  BY Zenon DEF EventsOf
<1>5. EventsOf("btmToDisk") = ({"Read", "Init"} \X Hashes) \cup ({"Write"} \X Hashes \X Pieces)
                              \cup {<<"Shutdown">>}
  BY Zenon DEF EventsOf
<1>6. EventsOf("diskToBtm") = ({"ReadSuccess", "Initialized"} \X Hashes)
                              \cup ({"WriteSuccess"} \X Hashes \X Pieces)
  BY Zenon DEF EventsOf
<1>7. EventsOf("appToPersist") = {<<"LoadTorrents">>}
  BY Zenon DEF EventsOf
<1>8. EventsOf("persistToApp") = {"AllTorrents"} \X {S \in SUBSET Hashes : IsFiniteSet(S)}
  BY Zenon DEF EventsOf
<1>9. QED
  BY <1>1, <1>2, <1>3, <1>4, <1>5, <1>6, <1>7, <1>8

(* What is sent to a queue; a step takes the first event of queue c, or    *)
(* none, and pushes what is sent.                                          *)
Sent(sent, d) == IF d \in DOMAIN sent THEN sent[d] ELSE <<>>
Moved(c, sent) == \A d \in Channels : q'[d] = IF d = c THEN Tail(q[c]) ELSE q[d] \o Sent(sent, d)
None == "none"
Loading == {"appToPersist", "persistToApp"}

(* A handler that answers an event. *)
LEMMA Answered ==
  ASSUME QueuesTyped, NEW c \in Channels, NEW sent, q[c] # <<>>, Answers(c, sent), c \notin DOMAIN sent,
         \A d \in Channels : Sent(sent, d) \in Seq(EventsOf(d))
  PROVE  q' = [d \in Channels |-> q'[d]] /\ Moved(c, sent)
<1> DEFINE p == [q EXCEPT ![c] = Tail(@)]
<1>1. q' = [d \in Channels |-> IF d \in DOMAIN sent THEN p[d] \o sent[d] ELSE p[d]]
  BY DEF Answers, Deliver
<1>2. q = [d \in Channels |-> q[d]]
  BY DEF QueuesTyped
<1>3. p[c] = Tail(q[c]) /\ \A d \in Channels \ {c} : p[d] = q[d]
  BY <1>2
<1> HIDE DEF p
<1>4. ASSUME NEW d \in Channels, d # c PROVE q'[d] = q[d] \o Sent(sent, d)
  <2>1. q[d] \in Seq(EventsOf(d)) /\ q[d] \o <<>> = q[d]
    BY ConcatEmptySeq DEF QueuesTyped
  <2>2. QED
    BY <1>1, <1>3, <1>4, <2>1 DEF Sent
<1>5. q'[c] = Tail(q[c])
  BY <1>1, <1>3
<1>6. QED
  BY <1>1, <1>4, <1>5 DEF Moved

(* A step that only pushes. *)
LEMMA Pushed ==
  ASSUME QueuesTyped, NEW sent, Pushes(sent),
         \A d \in Channels : Sent(sent, d) \in Seq(EventsOf(d))
  PROVE  q' = [d \in Channels |-> q'[d]] /\ Moved(None, sent)
<1>1. q' = [d \in Channels |-> IF d \in DOMAIN sent THEN q[d] \o sent[d] ELSE q[d]]
  BY DEF Pushes, Deliver
<1>2. ASSUME NEW d \in Channels PROVE d # None /\ q'[d] = q[d] \o Sent(sent, d)
  <2>1. q[d] \in Seq(EventsOf(d)) /\ q[d] \o <<>> = q[d]
    BY ConcatEmptySeq DEF QueuesTyped
  <2>2. d # None
    BY DEF Channels, None
  <2>3. QED
    BY <1>1, <2>1, <2>2 DEF Sent
<1>3. QED
  BY <1>1, <1>2 DEF Moved

(* The queues keep their types; the loading of torrents is looked at on    *)
(* its own.                                                                *)
LEMMA QueuesStay ==
  ASSUME QueuesTyped, NEW c \in Channels \cup {None}, NEW sent, Moved(c, sent),
         c \in Channels => q[c] # <<>>, q' = [d \in Channels |-> q'[d]],
         \A d \in Channels : Sent(sent, d) \in Seq(EventsOf(d)),
         Sent(sent, "appToPersist") = <<>>, Sent(sent, "persistToApp") = <<>>
  PROVE  QueuesTyped'
<1>1. ASSUME NEW d \in Channels PROVE q'[d] \in Seq(EventsOf(d))
  <2>1. q[d] \in Seq(EventsOf(d)) /\ Sent(sent, d) \in Seq(EventsOf(d))
    BY DEF QueuesTyped
  <2>2. CASE d = c
    <3>1. Tail(q[d]) \in Seq(EventsOf(d))
      BY <2>1, <2>2, Taking
    <3>2. QED
      BY <2>2, <3>1 DEF Moved
  <2>3. CASE d # c
    <3>1. q[d] \o Sent(sent, d) \in Seq(EventsOf(d))
      BY <2>1, Joining
    <3>2. QED
      BY <2>3, <3>1 DEF Moved
  <2>4. QED
    BY <2>2, <2>3
<1>2. ASSUME NEW d \in Loading
      PROVE  q'[d] = q[d] \/ (d = c /\ q'[d] = Tail(q[d]))
  <2>1. d \in Channels /\ Sent(sent, d) = <<>>
    BY DEF Loading, Channels
  <2>2. q[d] \in Seq(EventsOf(d)) /\ q[d] \o <<>> = q[d]
    BY <2>1, ConcatEmptySeq DEF QueuesTyped
  <2>3. QED
    BY <2>1, <2>2 DEF Moved
<1>3. /\ q["appToPersist"] # <<>> => Tail(q["appToPersist"]) = <<>> /\ q["persistToApp"] = <<>>
      /\ q["persistToApp"] # <<>> => Tail(q["persistToApp"]) = <<>>
  BY DEF QueuesTyped
<1>4. "appToPersist" \in Loading /\ "persistToApp" \in Loading /\ Loading \subseteq Channels
  BY DEF Loading, Channels
<1>5. /\ q'["appToPersist"] # <<>> => Tail(q'["appToPersist"]) = <<>> /\ q'["persistToApp"] = <<>>
      /\ q'["persistToApp"] # <<>> => Tail(q'["persistToApp"]) = <<>>
  <2>1. q'["appToPersist"] = q["appToPersist"] \/ q'["appToPersist"] = <<>>
    BY <1>2, <1>3, <1>4
  <2>2. q'["persistToApp"] = q["persistToApp"] \/ q'["persistToApp"] = <<>>
    BY <1>2, <1>3, <1>4
  <2>3. QED
    BY <1>3, <2>1, <2>2
<1>6. QED
  BY <1>1, <1>5 DEF QueuesTyped

------------------------------------------------------------------------------
(* Exit. *)

(* A step that neither sends nor takes a Shutdown. *)
LEMMA StopsStay ==
  ASSUME QueuesTyped, NEW d \in Channels, NEW s, Stops(s, d),
         NEW c \in Channels \cup {None}, NEW sent, Moved(c, sent),
         d = c => q[d] # <<>> /\ Head(q[d]) # <<"Shutdown">>,
         Sent(sent, d) \in Seq(EventsOf(d)), <<"Shutdown">> \notin Range(Sent(sent, d)),
         Sent(sent, d) # <<>> => "btm" \in active,
         "btm" \in active' <=> "btm" \in active, s \in active' <=> s \in active
  PROVE  Stops(s, d)'
<1> DEFINE w == q[d]
           v == q'[d]
           t == Sent(sent, d)
           X == <<"Shutdown">>
<1>0. w \in Seq(EventsOf(d)) /\ t \in Seq(EventsOf(d))
  BY DEF QueuesTyped
<1>a. /\ "btm" \in active => s \in active /\ X \notin Range(w)
      /\ "btm" \notin active /\ s \in active =>
            w # <<>> /\ \A i \in 1 .. Len(w) : w[i] = X <=> i = Len(w)
      /\ s \notin active => w = <<>>
  BY DEF Stops
<1> SUFFICES /\ "btm" \in active => s \in active /\ X \notin Range(v)
             /\ "btm" \notin active /\ s \in active =>
                   v # <<>> /\ \A i \in 1 .. Len(v) : v[i] = X <=> i = Len(v)
             /\ s \notin active => v = <<>>
  BY DEF Stops
<1>1. CASE d = c
  <2>1. w # <<>> /\ Head(w) # X /\ v = Tail(w)
    BY <1>1 DEF Moved
  <2> HIDE DEF w, v, t, X
  <2>2. X \notin Range(w) => X \notin Range(v)
    BY <1>0, <2>1, Taking
  <2>3. ASSUME \A i \in 1 .. Len(w) : w[i] = X <=> i = Len(w)
        PROVE  v # <<>> /\ \A i \in 1 .. Len(v) : v[i] = X <=> i = Len(v)
    <3>1. /\ v \in Seq(EventsOf(d)) /\ Len(v) = Len(w) - 1 /\ Len(w) \in Nat \ {0} /\ Head(w) = w[1]
          /\ \A i \in 1 .. Len(w) - 1 : v[i] = w[i + 1]
      BY <1>0, <2>1
    <3>2. Len(w) # 1
      <4>1. 1 \in 1 .. Len(w) /\ w[1] # X
        BY <2>1, <3>1
      <4>2. 1 # Len(w)
        BY <2>3, <4>1
      <4>3. QED
        BY <4>2
    <3>3. v # <<>>
      BY <3>1, <3>2, EmptySeq
    <3>4. ASSUME NEW i \in 1 .. Len(w) - 1 PROVE v[i] = X <=> i = Len(w) - 1
      <4>1. i + 1 \in 1 .. Len(w) /\ (i + 1 = Len(w) <=> i = Len(w) - 1) /\ v[i] = w[i + 1]
        BY <3>1
      <4>2. QED
        BY <2>3, <4>1
    <3>5. QED
      BY <3>1, <3>3, <3>4
  <2>4. QED
    BY <1>a, <2>1, <2>2, <2>3
<1>2. CASE d # c
  <2>1. v = w \o t /\ X \notin Range(t) /\ (t # <<>> => "btm" \in active)
    BY <1>2 DEF Moved
  <2> HIDE DEF w, v, t, X
  <2>2. "btm" \in active => X \notin Range(v)
    BY <1>0, <1>a, <2>1, Joining
  <2>3. "btm" \notin active => v = w
    BY <1>0, <2>1, ConcatEmptySeq
  <2>4. "btm" \notin active /\ s \notin active => v = <<>>
    BY <1>a, <2>3
  <2>5. QED
    BY <1>a, <2>2, <2>3
<1>3. QED
  BY <1>1, <1>2

------------------------------------------------------------------------------
(* The life of a torrent. *)

(* The places. *)
LEMMA PlacesAre ==
  /\ DOMAIN Marks = {"persistToBtm", "btmToApp", "appToBtm", "btmToPersist"}
  /\ DOMAIN Marks \subseteq Channels /\ DOMAIN Marks \cap Loading = {} /\ Loading \subseteq Channels
  /\ Marks["persistToBtm"] = "Added" /\ Marks["btmToApp"] = "Added"
  /\ Marks["appToBtm"] = "Remove" /\ Marks["btmToPersist"] = "Remove"
  /\ "entry" \notin DOMAIN Marks /\ "persistToApp" \notin DOMAIN Marks
BY DEF Marks, Channels, Loading

(* What it means to be in each, now and after a step. *)
LEMMA CarriesWhat ==
  ASSUME NEW h
  PROVE  /\ Carries("entry", h) <=> Shown(h) # {}
         /\ Carries("persistToApp", h) <=> \E e \in Range(q["persistToApp"]) : h \in e[2]
         /\ \A k \in DOMAIN Marks : Carries(k, h) <=> <<Marks[k], h>> \in Range(q[k])
         /\ Carries("entry", h)' <=> Shown(h)' # {}
         /\ Carries("persistToApp", h)' <=> \E e \in Range(q'["persistToApp"]) : h \in e[2]
         /\ \A k \in DOMAIN Marks : Carries(k, h)' <=> <<Marks[k], h>> \in Range(q'[k])
<1>1. "entry" # "persistToApp" /\ \A k \in DOMAIN Marks : k # "entry" /\ k # "persistToApp"
  BY PlacesAre
<1>2. Carries("entry", h) <=> Shown(h) # {}
  BY DEF Carries
<1>3. Carries("persistToApp", h) <=> \E e \in Range(q["persistToApp"]) : h \in e[2]
  BY DEF Carries
<1>4. ASSUME NEW k \in DOMAIN Marks PROVE Carries(k, h) <=> <<Marks[k], h>> \in Range(q[k])
  BY <1>1, Zenon DEF Carries
<1>5. Carries("entry", h)' <=> Shown(h)' # {}
  BY DEF Carries
<1>6. Carries("persistToApp", h)' <=> \E e \in Range(q'["persistToApp"]) : h \in e[2]
  BY DEF Carries
<1>7. ASSUME NEW k \in DOMAIN Marks PROVE Carries(k, h)' <=> <<Marks[k], h>> \in Range(q'[k])
  BY <1>1, Zenon DEF Carries
<1>8. QED
  BY <1>2, <1>3, <1>4, <1>5, <1>6, <1>7

(* A mark that is neither sent nor taken. *)
LEMMA MarkStays ==
  ASSUME QueuesTyped, NEW h, NEW k \in DOMAIN Marks, NEW c, NEW sent, Moved(c, sent),
         Sent(sent, k) \in Seq(EventsOf(k)), <<Marks[k], h>> \notin Range(Sent(sent, k)),
         k = c => q[k] # <<>> /\ Head(q[k]) # <<Marks[k], h>>
  PROVE  /\ Carries(k, h)' <=> Carries(k, h)
         /\ AtMostOnce(q[k], <<Marks[k], h>>) => AtMostOnce(q'[k], <<Marks[k], h>>)
<1>1. k \in Channels /\ q[k] \in Seq(EventsOf(k))
  BY PlacesAre DEF QueuesTyped
<1>2. PICK x : x = <<Marks[k], h>>
  OBVIOUS
<1>3. (Carries(k, h) <=> x \in Range(q[k])) /\ (Carries(k, h)' <=> x \in Range(q'[k]))
  BY <1>2, CarriesWhat
<1>4. CASE k = c
  <2>1. q'[k] = Tail(q[k]) /\ q[k] # <<>> /\ x # Head(q[k])
    BY <1>1, <1>2, <1>4 DEF Moved
  <2>2. (x \in Range(q[k]) <=> x \in Range(Tail(q[k])) \/ x = Head(q[k]))
        /\ (AtMostOnce(q[k], x) => AtMostOnce(Tail(q[k]), x))
    BY <1>1, <2>1, Taking
  <2>3. QED
    BY <1>2, <1>3, <2>1, <2>2
<1>5. CASE k # c
  <2>1. q'[k] = q[k] \o Sent(sent, k) /\ x \notin Range(Sent(sent, k))
    BY <1>1, <1>2, <1>5 DEF Moved
  <2>2. (x \in Range(q[k] \o Sent(sent, k)) <=> x \in Range(q[k]) \/ x \in Range(Sent(sent, k)))
        /\ (AtMostOnce(q[k], x) /\ x \notin Range(Sent(sent, k)) => AtMostOnce(q[k] \o Sent(sent, k), x))
    BY <1>1, Joining
  <2>3. QED
    BY <1>2, <1>3, <2>1, <2>2
<1>6. QED
  BY <1>4, <1>5

(* The mark is taken. *)
LEMMA MarkGoes ==
  ASSUME QueuesTyped, NEW h, NEW k \in DOMAIN Marks, NEW sent, Moved(k, sent),
         q[k] # <<>>, Head(q[k]) = <<Marks[k], h>>, AtMostOnce(q[k], <<Marks[k], h>>)
  PROVE  Carries(k, h) /\ ~Carries(k, h)' /\ AtMostOnce(q'[k], <<Marks[k], h>>)
<1>1. k \in Channels /\ q[k] \in Seq(EventsOf(k))
  BY PlacesAre DEF QueuesTyped
<1>2. q'[k] = Tail(q[k])
  BY <1>1 DEF Moved
<1>3. PICK x : x = <<Marks[k], h>>
  OBVIOUS
<1>4. /\ x \in Range(q[k]) <=> x \in Range(Tail(q[k])) \/ x = Head(q[k])
      /\ AtMostOnce(q[k], x) => AtMostOnce(Tail(q[k]), x) /\ (x = Head(q[k]) => x \notin Range(Tail(q[k])))
  BY <1>1, Taking
<1>5. QED
  BY <1>2, <1>3, <1>4, CarriesWhat

(* The mark is sent. *)
LEMMA MarkComes ==
  ASSUME QueuesTyped, NEW h, NEW k \in DOMAIN Marks, NEW c, c # k, NEW sent, Moved(c, sent),
         <<Marks[k], h>> \in EventsOf(k), Sent(sent, k) = << <<Marks[k], h>> >>, ~Carries(k, h)
  PROVE  Carries(k, h)' /\ AtMostOnce(q'[k], <<Marks[k], h>>)
<1>1. k \in Channels /\ q[k] \in Seq(EventsOf(k))
  BY PlacesAre DEF QueuesTyped
<1>2. PICK x \in EventsOf(k) : x = <<Marks[k], h>>
  OBVIOUS
<1>3. q'[k] = q[k] \o <<x>>
  BY <1>1, <1>2 DEF Moved
<1>4. x \notin Range(q[k])
  BY <1>2, CarriesWhat
<1>5. <<x>> \in Seq(EventsOf(k)) /\ x \in Range(<<x>>) /\ AtMostOnce(<<x>>, x)
  BY Single
<1>6. x \in Range(q[k] \o <<x>>) /\ AtMostOnce(q[k] \o <<x>>, x)
  BY <1>1, <1>4, <1>5, Joining
<1>7. QED
  BY <1>2, <1>3, <1>6, CarriesWhat

(* A queue that is neither read nor written. *)
LEMMA Untouched ==
  ASSUME QueuesTyped, NEW d \in Channels, NEW c, c # d, NEW sent, Moved(c, sent), Sent(sent, d) = <<>>
  PROVE  q'[d] = q[d]
<1>1. q[d] \in Seq(EventsOf(d)) /\ q[d] \o <<>> = q[d]
  BY ConcatEmptySeq DEF QueuesTyped
<1>2. QED
  BY <1>1 DEF Moved

(* A torrent stays where it is. *)
LEMMA LifeStays ==
  ASSUME NEW h, OneLife(h), \A k \in Places : Carries(k, h)' => Carries(k, h), Shown(h)' \subseteq Shown(h),
         \A k \in DOMAIN Marks : AtMostOnce(q[k], <<Marks[k], h>>) => AtMostOnce(q'[k], <<Marks[k], h>>),
         h \in torrentIds' <=> h \in torrentIds, q'["appToPersist"] # <<>> => q["appToPersist"] # <<>>
  PROVE  OneLife(h)'
<1>1. \A k, l \in Places : Carries(k, h)' /\ Carries(l, h)' => k = l
  BY DEF OneLife
<1>2. \A i, j \in Shown(h)' : i = j
  BY DEF OneLife
<1>3. \A k \in DOMAIN Marks : AtMostOnce(q'[k], <<Marks[k], h>>)
  BY DEF OneLife
<1>4. \A k \in Places : Carries(k, h)' => h \in torrentIds'
  BY DEF OneLife
<1>5. q'["appToPersist"] # <<>> => h \notin torrentIds'
  BY DEF OneLife
<1>6. QED
  BY <1>1, <1>2, <1>3, <1>4, <1>5 DEF OneLife, Places, Marks

(* A torrent goes from one place to another. *)
LEMMA LifeMoves ==
  ASSUME NEW h, OneLife(h), NEW k \in Places, NEW l, k # l, Carries(k, h), ~Carries(k, h)',
         \A m \in Places \ {k, l} : Carries(m, h)' => Carries(m, h), \A i, j \in Shown(h)' : i = j,
         \A m \in DOMAIN Marks : AtMostOnce(q'[m], <<Marks[m], h>>),
         (\E m \in Places : Carries(m, h)') => h \in torrentIds',
         q'["appToPersist"] # <<>> => q["appToPersist"] # <<>>
  PROVE  OneLife(h)'
<1>1. \A m \in Places : Carries(m, h) => m = k
  BY DEF OneLife
<1>2. \A m \in Places : Carries(m, h)' => m = l
  BY <1>1
<1>3. q'["appToPersist"] = <<>>
  BY DEF OneLife
<1>4. QED
  BY <1>2, <1>3 DEF OneLife, Places, Marks

(* More torrents are known. *)
LEMMA ResumableMore ==
  ASSUME NEW s, NEW D, NEW E, NEW h, Resumable(s, D, h), h \in D => h \in E
  PROVE  Resumable(s, E, h)
BY DEF Resumable

(* Resumes, when no resume is sent. *)
LEMMA KnownStays ==
  ASSUME QueuesTyped, NEW h, Resumable(q["appToBtm"], DOMAIN torrents, h),
         NEW c, NEW sent, Moved(c, sent), c = "appToBtm" => q["appToBtm"] # <<>>,
         Sent(sent, "appToBtm") \in Seq(EventsOf("appToBtm")),
         <<"Resume", h>> \notin Range(Sent(sent, "appToBtm")),
         h \in DOMAIN torrents => h \in DOMAIN torrents',
         c = "appToBtm" /\ Head(q["appToBtm"]) = <<"Start", h>> => h \in DOMAIN torrents'
  PROVE  /\ Resumable(q'["appToBtm"], DOMAIN torrents', h)
         /\ Startable(q["appToBtm"], DOMAIN torrents, h) => Startable(q'["appToBtm"], DOMAIN torrents', h)
<1> DEFINE S == EventsOf("appToBtm")
           s == q["appToBtm"]
           t == Sent(sent, "appToBtm")
           D == DOMAIN torrents
           E == DOMAIN torrents'
           x == <<"Start", h>>
<1>1. "appToBtm" \in Channels /\ s \in Seq(S) /\ t \in Seq(S)
  BY DEF QueuesTyped, Channels
<1>2. q'["appToBtm"] = IF c = "appToBtm" THEN Tail(s) ELSE s \o t
  BY <1>1 DEF Moved
<1>3. CASE c = "appToBtm"
  <2>1. s # <<>> /\ Resumable(s, D, h) /\ (h \in D \/ Head(s) = x => h \in E)
    BY <1>3
  <2>2. q'["appToBtm"] = Tail(s)
    BY <1>2, <1>3
  <2> HIDE DEF S, s, t, D, E
  <2>3. Resumable(Tail(s), E, h)
    BY <1>1, <2>1, ResumableTake
  <2>4. x \in Range(s) <=> x \in Range(Tail(s)) \/ x = Head(s)
    BY <1>1, <2>1, Taking
  <2>5. Startable(s, D, h) => Startable(Tail(s), E, h)
    BY <2>1, <2>4 DEF Startable
  <2>6. QED
    BY <2>2, <2>3, <2>5 DEF s, D, E
<1>4. CASE c # "appToBtm"
  <2>1. Resumable(s, D, h) /\ (h \in D => h \in E) /\ <<"Resume", h>> \notin Range(t)
    OBVIOUS
  <2>2. q'["appToBtm"] = s \o t
    BY <1>2, <1>4
  <2> HIDE DEF S, s, t, D, E
  <2>3. Resumable(s \o t, E, h)
    BY <1>1, <2>1, ResumableMore, ResumableJoin
  <2>4. x \in Range(s \o t) <=> x \in Range(s) \/ x \in Range(t)
    BY <1>1, Joining
  <2>5. Startable(s, D, h) => Startable(s \o t, E, h)
    BY <2>1, <2>4 DEF Startable
  <2>6. QED
    BY <2>2, <2>3, <2>5 DEF s, D, E
<1>5. QED
  BY <1>3, <1>4

(* A step that neither takes nor sends anything that carries a torrent. *)
LEMMA PlaceStays ==
  ASSUME QueuesTyped, NEW h, OneLife(h), NEW c, c \notin Loading, NEW sent, Moved(c, sent),
         c \in Channels => q[c] # <<>>,
         \A d \in Channels : Sent(sent, d) \in Seq(EventsOf(d)),
         \A d \in Loading : Sent(sent, d) = <<>>,
         \A k \in DOMAIN Marks : /\ <<Marks[k], h>> \notin Range(Sent(sent, k))
                                 /\ k = c => Head(q[k]) # <<Marks[k], h>>,
         Shown(h)' \subseteq Shown(h), h \in torrentIds' <=> h \in torrentIds
  PROVE  OneLife(h)'
<1>2. ASSUME NEW k \in DOMAIN Marks
      PROVE  /\ Carries(k, h)' <=> Carries(k, h)
             /\ AtMostOnce(q[k], <<Marks[k], h>>) => AtMostOnce(q'[k], <<Marks[k], h>>)
  <2>1. k \in Channels
    BY PlacesAre
  <2>2. /\ Sent(sent, k) \in Seq(EventsOf(k)) /\ <<Marks[k], h>> \notin Range(Sent(sent, k))
        /\ k = c => q[k] # <<>> /\ Head(q[k]) # <<Marks[k], h>>
    BY <2>1
  <2>3. QED
    BY <2>2, MarkStays
<1>3. ASSUME NEW d \in Loading PROVE q'[d] = q[d]
  <2>1. d \in Channels /\ c # d /\ Sent(sent, d) = <<>>
    BY PlacesAre
  <2>2. QED
    BY <2>1, Untouched
<1>4. q'["persistToApp"] = q["persistToApp"] /\ q'["appToPersist"] = q["appToPersist"]
  BY <1>3 DEF Loading
<1>5. Carries("persistToApp", h)' <=> Carries("persistToApp", h)
  BY <1>4, CarriesWhat
<1>6. Carries("entry", h)' => Carries("entry", h)
  BY CarriesWhat
<1>7. \A k \in Places : Carries(k, h)' => Carries(k, h)
  BY <1>2, <1>5, <1>6 DEF Places
<1>8. QED
  BY <1>2, <1>4, <1>7, LifeStays

(* A step in which nothing happens to a torrent. *)
LEMMA OthersStay ==
  ASSUME QueuesTyped, NEW h, OneLife(h), KnownFirst(h),
         NEW c, c \notin Loading, NEW sent, Moved(c, sent),
         c \in Channels => q[c] # <<>>,
         \A d \in Channels : Sent(sent, d) \in Seq(EventsOf(d)),
         \A d \in Loading : Sent(sent, d) = <<>>,
         \A k \in DOMAIN Marks : /\ <<Marks[k], h>> \notin Range(Sent(sent, k))
                                 /\ k = c => Head(q[k]) # <<Marks[k], h>>,
         <<"Resume", h>> \notin Range(Sent(sent, "appToBtm")),
         Shown(h)' \subseteq Shown(h), h \in torrentIds' <=> h \in torrentIds,
         h \in DOMAIN torrents => h \in DOMAIN torrents',
         c = "appToBtm" /\ Head(q["appToBtm"]) = <<"Start", h>> => h \in DOMAIN torrents'
  PROVE  OneLife(h)' /\ KnownFirst(h)'
<1>1. "appToBtm" \in Channels
  BY DEF Channels
<1>2. OneLife(h)'
  BY PlaceStays
<1>3. Resumable(q["appToBtm"], DOMAIN torrents, h)
      /\ (Shown(h) # {} => Startable(q["appToBtm"], DOMAIN torrents, h))
  BY DEF KnownFirst
<1>4. /\ Resumable(q'["appToBtm"], DOMAIN torrents', h)
      /\ Startable(q["appToBtm"], DOMAIN torrents, h) => Startable(q'["appToBtm"], DOMAIN torrents', h)
  BY <1>1, <1>3, KnownStays
<1>5. KnownFirst(h)'
  BY <1>3, <1>4 DEF KnownFirst
<1>6. QED
  BY <1>2, <1>5

(* The step's queues: one event is taken or none, and each queue gets one  *)
(* event or none.                                                          *)
Step(c, sent) ==
    /\ \/ c = None /\ Pushes(sent)
       \/ c \in Channels /\ q[c] # <<>> /\ c \notin DOMAIN sent /\ Answers(c, sent)
    /\ DOMAIN sent \subseteq Channels
    /\ \A d \in DOMAIN sent : sent[d] = <<>> \/ \E e \in EventsOf(d) : sent[d] = <<e>>

(* What is sent, and that the queues have moved. *)
LEMMA StepMoves ==
  ASSUME QueuesTyped, NEW c, NEW sent, Step(c, sent)
  PROVE  /\ q' = [d \in Channels |-> q'[d]] /\ Moved(c, sent)
         /\ \A d \in Channels : Sent(sent, d) \in Seq(EventsOf(d))
         /\ c \in Channels \cup {None} /\ (c \in Channels => q[c] # <<>>)
         /\ \A d : d \notin DOMAIN sent => Sent(sent, d) = <<>>
         /\ \A d, x : x \in Range(Sent(sent, d)) => d \in DOMAIN sent /\ sent[d] = <<x>>
<1>0. None \notin Channels
  BY DEF None, Channels
<1>1. ASSUME NEW d \in Channels PROVE Sent(sent, d) \in Seq(EventsOf(d))
  <2>1. Sent(sent, d) = <<>> \/ \E e \in EventsOf(d) : Sent(sent, d) = <<e>>
    BY DEF Step, Sent
  <2>2. <<>> \in Seq(EventsOf(d)) /\ \A e \in EventsOf(d) : <<e>> \in Seq(EventsOf(d))
    OBVIOUS
  <2>3. QED
    BY <2>1, <2>2
<1>2. q' = [d \in Channels |-> q'[d]] /\ Moved(c, sent)
  <2>1. CASE c = None /\ Pushes(sent)
    BY <1>1, <2>1, Pushed
  <2>2. CASE c \in Channels /\ q[c] # <<>> /\ c \notin DOMAIN sent /\ Answers(c, sent)
    BY <1>1, <2>2, Answered
  <2>3. QED
    BY <2>1, <2>2 DEF Step
<1>3. c \in Channels \cup {None} /\ (c \in Channels => q[c] # <<>>)
  BY <1>0 DEF Step
<1>4. \A d : d \notin DOMAIN sent => Sent(sent, d) = <<>>
  BY DEF Sent
<1>5. ASSUME NEW d, NEW x, x \in Range(Sent(sent, d)) PROVE d \in DOMAIN sent /\ sent[d] = <<x>>
  <2>1. Range(<<>>) = {}
    BY DEF Range
  <2>2. d \in DOMAIN sent /\ Sent(sent, d) = sent[d] /\ sent[d] # <<>>
    BY <1>5, <2>1 DEF Sent
  <2>3. PICK e \in EventsOf(d) : sent[d] = <<e>>
    BY <2>2 DEF Step
  <2>4. x = e
    BY <1>5, <2>2, <2>3, Single
  <2>5. QED
    BY <2>2, <2>3, <2>4
<1>6. QED
  BY <1>1, <1>2, <1>3, <1>4, <1>5

(* The queues keep their types. *)
LEMMA QueuesStep ==
  ASSUME QueuesTyped, NEW c, NEW sent, Step(c, sent), DOMAIN sent \cap Loading = {}
  PROVE  QueuesTyped'
<1>1. /\ q' = [d \in Channels |-> q'[d]] /\ Moved(c, sent)
      /\ \A d \in Channels : Sent(sent, d) \in Seq(EventsOf(d))
      /\ c \in Channels \cup {None} /\ (c \in Channels => q[c] # <<>>)
      /\ \A d : d \notin DOMAIN sent => Sent(sent, d) = <<>>
  BY StepMoves
<1>2. Sent(sent, "appToPersist") = <<>> /\ Sent(sent, "persistToApp") = <<>>
  BY <1>1 DEF Loading
<1>3. QED
  BY <1>1, <1>2, QueuesStay

(* Nobody is told to end, nor ends. *)
LEMMA ExitsStay ==
  ASSUME QueuesTyped, Exits, NEW c, NEW sent, Step(c, sent),
         \A d \in {"btmToDisk", "btmToPersist"} :
             /\ d \in DOMAIN sent => sent[d] # << <<"Shutdown">> >> /\ "btm" \in active
             /\ d = c => Head(q[d]) # <<"Shutdown">>,
         \A s \in {"btm", "disk", "persist"} : s \in active' <=> s \in active
  PROVE  Exits'
<1>1. /\ Moved(c, sent) /\ c \in Channels \cup {None} /\ (c \in Channels => q[c] # <<>>)
      /\ \A d \in Channels : Sent(sent, d) \in Seq(EventsOf(d))
      /\ \A d : d \notin DOMAIN sent => Sent(sent, d) = <<>>
      /\ \A d, x : x \in Range(Sent(sent, d)) => d \in DOMAIN sent /\ sent[d] = <<x>>
  BY StepMoves
<1>2. ASSUME NEW s \in {"disk", "persist"}, NEW d \in {"btmToDisk", "btmToPersist"}, Stops(s, d) PROVE Stops(s, d)'
  <2>1. d \in Channels
    BY DEF Channels
  <2>2. <<"Shutdown">> \notin Range(Sent(sent, d))
    BY <1>1
  <2>3. d = c => q[d] # <<>> /\ Head(q[d]) # <<"Shutdown">>
    BY <1>1, <2>1
  <2>4. Sent(sent, d) # <<>> => "btm" \in active
    BY <1>1
  <2>5. ("btm" \in active' <=> "btm" \in active) /\ (s \in active' <=> s \in active)
    OBVIOUS
  <2>6. QED
    BY <1>1, <1>2, <2>1, <2>2, <2>3, <2>4, <2>5, StopsStay
<1>3. QED
  BY <1>2 DEF Exits

(* The events that shut down a service, resume a torrent or carry its life. *)
Special == {"Added", "Remove", "Resume", "Shutdown"}

(* A step of other events: nobody ends, and no torrent comes or goes. *)
LEMMA Ordinary ==
  ASSUME Typed, Exits, Lives, NEW c, NEW sent, Step(c, sent),
         c \notin Loading, DOMAIN sent \cap Loading = {},
         \A d \in DOMAIN sent : sent[d] = <<>> \/ \E e : sent[d] = <<e>> /\ e[1] \notin Special,
         DOMAIN sent \cap {"btmToDisk", "btmToPersist"} = {} \/ "btm" \in active,
         c \in Channels => Head(q[c])[1] \notin Special \ {"Resume"},
         active' = active, torrentIds' = torrentIds, history \subseteq history',
         \A h \in Torrents : Shown(h)' \subseteq Shown(h),
         DOMAIN torrents \subseteq DOMAIN torrents',
         \A h \in Torrents : c = "appToBtm" /\ Head(q["appToBtm"]) = <<"Start", h>> => h \in DOMAIN torrents'
  PROVE  QueuesTyped' /\ Exits' /\ Lives'
<1>1. QueuesTyped
  BY DEF Typed
<1>2. /\ q' = [d \in Channels |-> q'[d]] /\ Moved(c, sent)
      /\ \A d \in Channels : Sent(sent, d) \in Seq(EventsOf(d))
      /\ c \in Channels \cup {None} /\ (c \in Channels => q[c] # <<>>)
      /\ \A d : d \notin DOMAIN sent => Sent(sent, d) = <<>>
      /\ \A d, x : x \in Range(Sent(sent, d)) => d \in DOMAIN sent /\ sent[d] = <<x>>
  BY <1>1, StepMoves
<1>3. \A d \in Loading : Sent(sent, d) = <<>>
  BY <1>2
<1>4. QueuesTyped'
  BY <1>1, QueuesStep
<1>5. ASSUME NEW d, NEW x, x \in Range(Sent(sent, d)) PROVE x[1] \notin Special
  <2>1. d \in DOMAIN sent /\ sent[d] = <<x>>
    BY <1>2, <1>5
  <2>2. PICK e : sent[d] = <<e>> /\ e[1] \notin Special
    BY <2>1
  <2>3. x = e
    BY <2>1, <2>2
  <2>4. QED
    BY <2>2, <2>3
<1>6. \A x : x[1] \in Special => \A d : x \notin Range(Sent(sent, d))
  BY <1>5
<1>7. Exits'
  <2>1. ASSUME NEW d \in {"btmToDisk", "btmToPersist"}
        PROVE  /\ d \in DOMAIN sent => sent[d] # << <<"Shutdown">> >> /\ "btm" \in active
               /\ d = c => Head(q[d]) # <<"Shutdown">>
    <3>1. d \in Channels /\ <<"Shutdown">>[1] \in Special \ {"Resume"}
      BY DEF Channels, Special
    <3>2. d \in DOMAIN sent => sent[d] # << <<"Shutdown">> >>
      <4>1. << <<"Shutdown">> >> # <<>> /\ \A e : << <<"Shutdown">> >> = <<e>> => e = <<"Shutdown">>
        OBVIOUS
      <4>2. QED
        BY <3>1, <4>1
    <3>3. d \in DOMAIN sent => "btm" \in active
      OBVIOUS
    <3>4. d = c => Head(q[d]) # <<"Shutdown">>
      BY <3>1
    <3>5. QED
      BY <3>2, <3>3, <3>4
  <2>2. QED
    BY <1>1, <2>1, ExitsStay
<1>8. Lives'
  <2>1. ASSUME NEW h \in Torrents, OneLife(h), KnownFirst(h) PROVE OneLife(h)' /\ KnownFirst(h)'
    <3>1. ASSUME NEW k \in DOMAIN Marks
          PROVE  /\ <<Marks[k], h>> \notin Range(Sent(sent, k))
                 /\ k = c => Head(q[k]) # <<Marks[k], h>>
      <4>1. Marks[k] \in {"Added", "Remove"} /\ k \in Channels
        BY PlacesAre
      <4>2. <<Marks[k], h>>[1] \in Special \ {"Resume"}
        BY <4>1 DEF Special
      <4>3. QED
        BY <1>6, <4>1, <4>2
    <3>2. <<"Resume", h>> \notin Range(Sent(sent, "appToBtm"))
      <4>1. <<"Resume", h>>[1] \in Special
        BY DEF Special
      <4>2. QED
        BY <1>6, <4>1
    <3>3. QED
      BY <1>1, <1>2, <1>3, <2>1, <3>1, <3>2, OthersStay
  <2>2. \A h \in Torrents : Early(h) => Early(h)'
    BY DEF Early
  <2>3. QED
    BY <2>1, <2>2 DEF Lives
<1>9. QED
  BY <1>4, <1>7, <1>8

------------------------------------------------------------------------------
(* The steps, one by one. *)
Inv == Typed /\ Exits /\ Lives

(* An ordinary step that leaves the entries alone. *)
LEMMA Plain ==
  ASSUME Inv, NEW c, NEW sent, Step(c, sent),
         c \notin Loading, DOMAIN sent \cap Loading = {},
         \A d \in DOMAIN sent : sent[d] = <<>> \/ \E e : sent[d] = <<e>> /\ e[1] \notin Special,
         DOMAIN sent \cap {"btmToDisk", "btmToPersist"} = {} \/ "btm" \in active,
         c \in Channels => Head(q[c])[1] \notin Special \ {"Resume"},
         UNCHANGED <<active, appVars, torrentIds>>, DOMAIN db' = DOMAIN db, history \subseteq history',
         DOMAIN torrents \subseteq DOMAIN torrents',
         \A h \in Torrents : c = "appToBtm" /\ Head(q["appToBtm"]) = <<"Start", h>> => h \in DOMAIN torrents'
  PROVE  Inv'
<1>1. Typed /\ Exits /\ Lives
  BY DEF Inv
<1>2. active' = active /\ torrentIds' = torrentIds
  OBVIOUS
<1>3. idTorrentMap' = idTorrentMap /\ hashToIdMap' = hashToIdMap /\ idCounter' = idCounter
  BY DEF appVars
<1>4. \A h \in Torrents : Shown(h)' \subseteq Shown(h)
  BY <1>3 DEF Shown
<1>5. EntriesTyped'
  BY <1>1, <1>3 DEF Typed, EntriesTyped
<1>6. QueuesTyped' /\ Exits' /\ Lives'
  BY <1>1, <1>2, <1>4, Ordinary
<1>7. QED
  BY <1>5, <1>6 DEF Inv, Typed

(* The event that a service takes. *)
LEMMA Taken ==
  ASSUME Inv, NEW s, NEW c \in Channels, NEW type, Takes(s, c, type)
  PROVE  /\ s \in active /\ q[c] # <<>> /\ Event(c) = Head(q[c]) /\ Event(c)[1] = type
         /\ Event(c) \in EventsOf(c)
<1>1. s \in active /\ q[c] # <<>> /\ Event(c) = Head(q[c]) /\ Event(c)[1] = type
  BY DEF Takes, Event
<1>2. q[c] \in Seq(EventsOf(c))
  BY DEF Inv, Typed, QueuesTyped
<1>3. QED
  BY <1>1, <1>2, Taking

(* What the events are made of. *)
LEMMA Shapes ==
  /\ \A e \in EventsOf("appToBtm") :
        e = <<"Shutdown">> \/ \E t \in {"Add", "Start", "Stop", "Resume", "Remove"}, h \in Hashes : e = <<t, h>>
  /\ \A e \in EventsOf("btmToApp") :
        \E t \in {"Added", "AddError", "Stopped", "Completed", "Resumed", "Removed"}, h \in Hashes : e = <<t, h>>
  /\ \A e \in EventsOf("btmToPersist") :
        \/ e = <<"Shutdown">>
        \/ \E t \in {"AddTorrent", "Remove", "LoadPieces", "LoadTrackers"}, h \in Hashes : e = <<t, h>>
        \/ \E h \in Hashes, p \in Pieces : e = <<"PieceComplete", h, p>>
  /\ \A e \in EventsOf("persistToBtm") :
        \/ \E t \in {"Added", "Exists", "Trackers"}, h \in Hashes : e = <<t, h>>
        \/ \E h \in Hashes, S \in SUBSET Pieces : e = <<"Pieces", h, S>>
  /\ \A e \in EventsOf("btmToDisk") :
        \/ e = <<"Shutdown">>
        \/ \E t \in {"Read", "Init"}, h \in Hashes : e = <<t, h>>
        \/ \E h \in Hashes, p \in Pieces : e = <<"Write", h, p>>
  /\ \A e \in EventsOf("diskToBtm") :
        \/ \E t \in {"ReadSuccess", "Initialized"}, h \in Hashes : e = <<t, h>>
        \/ \E h \in Hashes, p \in Pieces : e = <<"WriteSuccess", h, p>>
<1>1. \A e \in EventsOf("appToBtm") :
        e = <<"Shutdown">> \/ \E t \in {"Add", "Start", "Stop", "Resume", "Remove"}, h \in Hashes : e = <<t, h>>
  BY Made
<1>2. \A e \in EventsOf("btmToApp") :
        \E t \in {"Added", "AddError", "Stopped", "Completed", "Resumed", "Removed"}, h \in Hashes : e = <<t, h>>
  BY Made
<1>3. \A e \in EventsOf("btmToPersist") :
        \/ e = <<"Shutdown">>
        \/ \E t \in {"AddTorrent", "Remove", "LoadPieces", "LoadTrackers"}, h \in Hashes : e = <<t, h>>
        \/ \E h \in Hashes, p \in Pieces : e = <<"PieceComplete", h, p>>
  BY Made
<1>4. \A e \in EventsOf("persistToBtm") :
        \/ \E t \in {"Added", "Exists", "Trackers"}, h \in Hashes : e = <<t, h>>
        \/ \E h \in Hashes, S \in SUBSET Pieces : e = <<"Pieces", h, S>>
  BY Made
<1>5. \A e \in EventsOf("btmToDisk") :
        \/ e = <<"Shutdown">>
        \/ \E t \in {"Read", "Init"}, h \in Hashes : e = <<t, h>>
        \/ \E h \in Hashes, p \in Pieces : e = <<"Write", h, p>>
  BY Made
<1>6. \A e \in EventsOf("diskToBtm") :
        \/ \E t \in {"ReadSuccess", "Initialized"}, h \in Hashes : e = <<t, h>>
        \/ \E h \in Hashes, p \in Pieces : e = <<"WriteSuccess", h, p>>
  BY Made
<1>7. QED
  BY <1>1, <1>2, <1>3, <1>4, <1>5, <1>6

(* Sending an event to one queue. *)
LEMMA OneSent ==
  ASSUME NEW to \in Channels, NEW e \in EventsOf(to), NEW c, NEW sent, sent = [t \in {to} |-> <<e>>],
         \/ c = None /\ Pushes(sent)
         \/ c \in Channels /\ q[c] # <<>> /\ c # to /\ Answers(c, sent)
  PROVE  Step(c, sent) /\ DOMAIN sent = {to} /\ sent[to] = <<e>>
<1>1. DOMAIN sent = {to} /\ sent[to] = <<e>>
  OBVIOUS
<1>2. QED
  BY <1>1 DEF Step

(* Events that are passed on. *)
LEMMA Forwarded ==
  ASSUME Inv, NEW c \in Channels \ Loading, NEW to \in Channels \ Loading, c # to, NEW type, NEW as,
         type \notin Special \cup {"Start"}, as \notin Special,
         Forwards(c, type, to, as), [Event(c) EXCEPT ![1] = as] \in EventsOf(to),
         [Event(c) EXCEPT ![1] = as][1] = as
  PROVE  Inv'
<1>1. "btm" \in active /\ q[c] # <<>> /\ Event(c) = Head(q[c]) /\ Event(c)[1] = type
  BY Taken DEF Forwards
<1>2. PICK e \in EventsOf(to) : e = [Event(c) EXCEPT ![1] = as]
  OBVIOUS
<1>3. PICK sent : sent = [t \in {to} |-> <<e>>]
  OBVIOUS
<1>4. Answers(c, sent)
  BY <1>2, <1>3 DEF Forwards
<1>5. Step(c, sent) /\ DOMAIN sent = {to} /\ sent[to] = <<e>>
  BY <1>1, <1>3, <1>4, OneSent
<1>6. /\ UNCHANGED <<active, appVars, torrentIds>> /\ DOMAIN db' = DOMAIN db
      /\ history \subseteq history' /\ DOMAIN torrents \subseteq DOMAIN torrents'
  BY DEF Forwards, persistVars, btmVars
<1>7. Head(q[c])[1] # "Start" /\ Head(q[c])[1] \notin Special
  BY <1>1
<1>8. \A h \in Torrents : c = "appToBtm" /\ Head(q["appToBtm"]) = <<"Start", h>> => h \in DOMAIN torrents'
  BY <1>7
<1>9. \A d \in DOMAIN sent : sent[d] = <<>> \/ \E x : sent[d] = <<x>> /\ x[1] \notin Special
  BY <1>2, <1>5
<1>10. DOMAIN sent \cap Loading = {} /\ c \notin Loading
  BY <1>5
<1>11. QED
  BY <1>1, <1>5, <1>6, <1>7, <1>8, <1>9, <1>10, Plain

(* Four of BitTorrentManager's events, and one of the persist service's. *)
LEMMA ForwardsStep ==
  ASSUME Inv, ProcessAdd \/ ProcessReadSuccess \/ ProcessExists \/ ProcessInitialized \/ ProcessWriteSuccess
  PROVE  Inv'
<1>0. /\ {"appToBtm", "diskToBtm", "persistToBtm", "btmToDisk", "btmToPersist", "btmToApp"}
         \subseteq Channels \ Loading
      /\ {"Add", "ReadSuccess", "Exists", "Initialized", "WriteSuccess"} \cap (Special \cup {"Start"}) = {}
      /\ {"Read", "AddTorrent", "AddError", "LoadPieces", "PieceComplete"} \cap Special = {}
  BY DEF Channels, Loading, Special
<1>1. CASE ProcessAdd
  <2>1. Forwards("appToBtm", "Add", "btmToDisk", "Read")
    BY <1>1 DEF ProcessAdd
  <2>2. Event("appToBtm") \in EventsOf("appToBtm") /\ Event("appToBtm")[1] = "Add"
    BY <1>0, <2>1, Taken DEF Forwards
  <2>3. PICK h \in Hashes : Event("appToBtm") = <<"Add", h>>
    BY <2>2, Shapes
  <2>4. [Event("appToBtm") EXCEPT ![1] = "Read"] = <<"Read", h>>
    BY <2>3
  <2>5. <<"Read", h>> \in EventsOf("btmToDisk")
    BY Made
  <2>6. QED
    BY <1>0, <2>1, <2>4, <2>5, Forwarded
<1>2. CASE ProcessReadSuccess
  <2>1. Forwards("diskToBtm", "ReadSuccess", "btmToPersist", "AddTorrent")
    BY <1>2 DEF ProcessReadSuccess
  <2>2. Event("diskToBtm") \in EventsOf("diskToBtm") /\ Event("diskToBtm")[1] = "ReadSuccess"
    BY <1>0, <2>1, Taken DEF Forwards
  <2>3. PICK h \in Hashes : Event("diskToBtm") = <<"ReadSuccess", h>>
    BY <2>2, Shapes
  <2>4. [Event("diskToBtm") EXCEPT ![1] = "AddTorrent"] = <<"AddTorrent", h>>
    BY <2>3
  <2>5. <<"AddTorrent", h>> \in EventsOf("btmToPersist")
    BY Made
  <2>6. QED
    BY <1>0, <2>1, <2>4, <2>5, Forwarded
<1>3. CASE ProcessExists
  <2>1. Forwards("persistToBtm", "Exists", "btmToApp", "AddError")
    BY <1>3 DEF ProcessExists
  <2>2. Event("persistToBtm") \in EventsOf("persistToBtm") /\ Event("persistToBtm")[1] = "Exists"
    BY <1>0, <2>1, Taken DEF Forwards
  <2>3. PICK h \in Hashes : Event("persistToBtm") = <<"Exists", h>>
    BY <2>2, Shapes
  <2>4. [Event("persistToBtm") EXCEPT ![1] = "AddError"] = <<"AddError", h>>
    BY <2>3
  <2>5. <<"AddError", h>> \in EventsOf("btmToApp")
    BY Made
  <2>6. QED
    BY <1>0, <2>1, <2>4, <2>5, Forwarded
<1>4. CASE ProcessInitialized
  <2>1. Forwards("diskToBtm", "Initialized", "btmToPersist", "LoadPieces")
    BY <1>4 DEF ProcessInitialized
  <2>2. Event("diskToBtm") \in EventsOf("diskToBtm") /\ Event("diskToBtm")[1] = "Initialized"
    BY <1>0, <2>1, Taken DEF Forwards
  <2>3. PICK h \in Hashes : Event("diskToBtm") = <<"Initialized", h>>
    BY <2>2, Shapes
  <2>4. [Event("diskToBtm") EXCEPT ![1] = "LoadPieces"] = <<"LoadPieces", h>>
    BY <2>3
  <2>5. <<"LoadPieces", h>> \in EventsOf("btmToPersist")
    BY Made
  <2>6. QED
    BY <1>0, <2>1, <2>4, <2>5, Forwarded
<1>5. CASE ProcessWriteSuccess
  <2>1. Forwards("diskToBtm", "WriteSuccess", "btmToPersist", "PieceComplete")
    BY <1>5 DEF ProcessWriteSuccess
  <2>2. Event("diskToBtm") \in EventsOf("diskToBtm") /\ Event("diskToBtm")[1] = "WriteSuccess"
    BY <1>0, <2>1, Taken DEF Forwards
  <2>3. PICK h \in Hashes, p \in Pieces : Event("diskToBtm") = <<"WriteSuccess", h, p>>
    BY <2>2, Shapes
  <2>4. [Event("diskToBtm") EXCEPT ![1] = "PieceComplete"] = <<"PieceComplete", h, p>>
    BY <2>3
  <2>5. <<"PieceComplete", h, p>> \in EventsOf("btmToPersist")
    BY Made
  <2>6. QED
    BY <1>0, <2>1, <2>4, <2>5, Forwarded
<1>6. QED
  BY <1>1, <1>2, <1>3, <1>4, <1>5

(* Answers to an event of queue c, none of them special. *)
Fine(sent, c) ==
    /\ DOMAIN sent \subseteq Channels \ (Loading \cup {c})
    /\ \A d \in DOMAIN sent : sent[d] = <<>> \/ \E e \in EventsOf(d) : sent[d] = <<e>> /\ e[1] \notin Special

(* A handler of an ordinary event. *)
LEMMA Handled ==
  ASSUME Inv, NEW s, NEW c \in Channels \ Loading, NEW type, type \notin Special \ {"Resume"},
         Takes(s, c, type), NEW sent, Answers(c, sent), Fine(sent, c),
         s = "btm" \/ DOMAIN sent \cap {"btmToDisk", "btmToPersist"} = {},
         UNCHANGED <<active, appVars, torrentIds>>, DOMAIN db' = DOMAIN db, history \subseteq history',
         DOMAIN torrents \subseteq DOMAIN torrents', type = "Start" => Event(c)[2] \in DOMAIN torrents'
  PROVE  Inv'
<1>1. s \in active /\ q[c] # <<>> /\ Event(c) = Head(q[c]) /\ Event(c)[1] = type
  BY Taken
<1>2. Step(c, sent)
  <2>1. c \in Channels /\ q[c] # <<>> /\ c \notin DOMAIN sent /\ Answers(c, sent) /\ DOMAIN sent \subseteq Channels
    BY <1>1 DEF Fine
  <2>2. \A d \in DOMAIN sent : sent[d] = <<>> \/ \E e \in EventsOf(d) : sent[d] = <<e>>
    BY DEF Fine
  <2>3. QED
    BY <2>1, <2>2 DEF Step
<1>3. \A d \in DOMAIN sent : sent[d] = <<>> \/ \E e : sent[d] = <<e>> /\ e[1] \notin Special
  BY DEF Fine
<1>4. Head(q[c])[1] \notin Special \ {"Resume"}
  BY <1>1
<1>5. \A h \in Torrents : c = "appToBtm" /\ Head(q["appToBtm"]) = <<"Start", h>> => h \in DOMAIN torrents'
  BY <1>1
<1>6. DOMAIN sent \cap Loading = {} /\ c \notin Loading
  BY DEF Fine
<1>7. DOMAIN sent \cap {"btmToDisk", "btmToPersist"} = {} \/ "btm" \in active
  BY <1>1
<1>8. QED
  BY <1>2, <1>3, <1>4, <1>5, <1>6, <1>7, Plain

(* Answers to nobody, to one service, and to two. *)
LEMMA Records ==
  /\ DOMAIN Nothing = {}
  /\ \A x : DOMAIN [btmToApp |-> x] = {"btmToApp"} /\ [btmToApp |-> x]["btmToApp"] = x
  /\ \A x : DOMAIN [btmToPersist |-> x] = {"btmToPersist"} /\ [btmToPersist |-> x]["btmToPersist"] = x
  /\ \A x : DOMAIN [btmToDisk |-> x] = {"btmToDisk"} /\ [btmToDisk |-> x]["btmToDisk"] = x
  /\ \A x : DOMAIN [diskToBtm |-> x] = {"diskToBtm"} /\ [diskToBtm |-> x]["diskToBtm"] = x
  /\ \A x : DOMAIN [persistToBtm |-> x] = {"persistToBtm"} /\ [persistToBtm |-> x]["persistToBtm"] = x
  /\ \A x : DOMAIN [appToBtm |-> x] = {"appToBtm"} /\ [appToBtm |-> x]["appToBtm"] = x
  /\ \A x, y : LET r == [btmToApp |-> x, btmToDisk |-> y]
               IN  DOMAIN r = {"btmToApp", "btmToDisk"} /\ r["btmToApp"] = x /\ r["btmToDisk"] = y
  /\ \A x, y : LET r == [btmToApp |-> x, btmToPersist |-> y]
               IN  DOMAIN r = {"btmToApp", "btmToPersist"} /\ r["btmToApp"] = x /\ r["btmToPersist"] = y
BY DEF Nothing

(* The channels that events other than the loading of torrents go through. *)
LEMMA Names ==
  /\ {"appToBtm", "diskToBtm", "persistToBtm", "btmToDisk", "btmToPersist", "btmToApp"} = Channels \ Loading
  /\ {"Start", "Stop", "Stopped", "Resumed", "Completed", "Pieces", "Trackers", "Init", "LoadPieces",
      "LoadTrackers", "Read", "Write", "ReadSuccess", "Initialized", "WriteSuccess", "AddTorrent", "Exists",
      "PieceComplete", "AddError", "Removed", "Add"} \cap Special = {}
BY DEF Channels, Loading, Special

(* The events that BitTorrentManager and the disk service send. *)
LEMMA Events ==
  ASSUME NEW h \in Hashes
  PROVE  /\ \A t \in {"Stopped", "Resumed", "Completed"} : <<t, h>> \in EventsOf("btmToApp") /\ <<t, h>>[1] = t
         /\ \A t \in {"LoadPieces", "LoadTrackers"} : <<t, h>> \in EventsOf("btmToPersist") /\ <<t, h>>[1] = t
         /\ <<"Init", h>> \in EventsOf("btmToDisk") /\ <<"Init", h>>[1] = "Init"
         /\ \A p \in Pieces : <<"Write", h, p>> \in EventsOf("btmToDisk") /\ <<"Write", h, p>>[1] = "Write"
         /\ \A t \in {"ReadSuccess", "Initialized"} : <<t, h>> \in EventsOf("diskToBtm") /\ <<t, h>>[1] = t
         /\ \A p \in Pieces : /\ <<"WriteSuccess", h, p>> \in EventsOf("diskToBtm")
                              /\ <<"WriteSuccess", h, p>>[1] = "WriteSuccess"
         /\ \A t \in {"Exists", "Trackers"} : <<t, h>> \in EventsOf("persistToBtm") /\ <<t, h>>[1] = t
         /\ \A S \in SUBSET Pieces : /\ <<"Pieces", h, S>> \in EventsOf("persistToBtm")
                                     /\ <<"Pieces", h, S>>[1] = "Pieces"
<1>1. \A t \in {"Stopped", "Resumed", "Completed"} : <<t, h>> \in EventsOf("btmToApp") /\ <<t, h>>[1] = t
  BY Made
<1>2. \A t \in {"LoadPieces", "LoadTrackers"} : <<t, h>> \in EventsOf("btmToPersist") /\ <<t, h>>[1] = t
  BY Made
<1>3. /\ <<"Init", h>> \in EventsOf("btmToDisk") /\ <<"Init", h>>[1] = "Init"
      /\ \A p \in Pieces : <<"Write", h, p>> \in EventsOf("btmToDisk") /\ <<"Write", h, p>>[1] = "Write"
  BY Made
<1>4. /\ \A t \in {"ReadSuccess", "Initialized"} : <<t, h>> \in EventsOf("diskToBtm") /\ <<t, h>>[1] = t
      /\ \A p \in Pieces : /\ <<"WriteSuccess", h, p>> \in EventsOf("diskToBtm")
                           /\ <<"WriteSuccess", h, p>>[1] = "WriteSuccess"
  BY Made
<1>5. /\ \A t \in {"Exists", "Trackers"} : <<t, h>> \in EventsOf("persistToBtm") /\ <<t, h>>[1] = t
      /\ \A S \in SUBSET Pieces : /\ <<"Pieces", h, S>> \in EventsOf("persistToBtm")
                                  /\ <<"Pieces", h, S>>[1] = "Pieces"
  BY Made
<1>6. QED
  BY <1>1, <1>2, <1>3, <1>4, <1>5

(* Answers of one event. *)
LEMMA FineAnswer ==
  ASSUME NEW c, NEW d \in Channels \ (Loading \cup {c}), NEW e \in EventsOf(d), e[1] \notin Special,
         NEW sent, DOMAIN sent = {d}, sent[d] = <<e>>
  PROVE  Fine(sent, c)
BY DEF Fine

(* Answers of two. *)
LEMMA FineAnswers ==
  ASSUME NEW c, NEW d \in Channels \ (Loading \cup {c}), NEW e \in EventsOf(d), e[1] \notin Special,
         NEW f \in Channels \ (Loading \cup {c}), NEW g \in EventsOf(f), g[1] \notin Special,
         NEW sent, DOMAIN sent = {d, f}, sent[d] = <<e>>, sent[f] = <<g>>
  PROVE  Fine(sent, c)
BY DEF Fine

(* No answer. *)
LEMMA FineNothing ==
  ASSUME NEW c
  PROVE  Fine(Nothing, c)
BY Records DEF Fine

(* ProcessStart. *)
LEMMA StartStep ==
  ASSUME Inv, ProcessStart
  PROVE  Inv'
<1>1. Takes("btm", "appToBtm", "Start")
  BY DEF ProcessStart
<1>2. "appToBtm" \in Channels \ Loading /\ "btmToApp" \in Channels \ (Loading \cup {"appToBtm"})
      /\ "btmToDisk" \in Channels \ (Loading \cup {"appToBtm"})
      /\ "Start" \notin Special /\ "Completed" \notin Special /\ "Resumed" \notin Special /\ "Init" \notin Special
  BY Names
<1>3. Event("appToBtm") \in EventsOf("appToBtm") /\ Event("appToBtm")[1] = "Start"
  BY <1>1, <1>2, Taken
<1>4. PICK h \in Hashes : Event("appToBtm") = <<"Start", h>>
  BY <1>3, Shapes
<1>5. Event("appToBtm")[2] = h
  BY <1>4
<1>6. UNCHANGED <<active, appVars, torrentIds>> /\ DOMAIN db' = DOMAIN db /\ history \subseteq history'
  BY DEF ProcessStart, persistVars
<1>7. ASSUME NEW sent, Answers("appToBtm", sent), Fine(sent, "appToBtm"),
             DOMAIN torrents \subseteq DOMAIN torrents', h \in DOMAIN torrents'
      PROVE  Inv'
  <2>1. "Start" \notin Special \ {"Resume"} /\ Event("appToBtm")[2] \in DOMAIN torrents'
    BY <1>2, <1>5, <1>7
  <2>2. QED
    BY <1>1, <1>2, <1>6, <1>7, <2>1, Handled
<1>8. CASE IsComplete(h) /\ Answers("appToBtm", [btmToApp |-> << <<"Completed", h>> >>]) /\ UNCHANGED torrents
  <2>1. PICK sent : sent = [btmToApp |-> << <<"Completed", h>> >>]
    OBVIOUS
  <2>2. Fine(sent, "appToBtm")
    BY <1>2, <2>1, Events, Records, FineAnswer
  <2>3. h \in DOMAIN torrents' /\ DOMAIN torrents \subseteq DOMAIN torrents'
    BY <1>8 DEF IsComplete
  <2>4. QED
    BY <1>7, <1>8, <2>1, <2>2, <2>3
<1>9. CASE /\ torrents' = With(torrents, h, FALSE)
           /\ Answers("appToBtm", [btmToApp |-> << <<"Resumed", h>> >>, btmToDisk |-> << <<"Init", h>> >>])
  <2>1. PICK sent : sent = [btmToApp |-> << <<"Resumed", h>> >>, btmToDisk |-> << <<"Init", h>> >>]
    OBVIOUS
  <2>2. Fine(sent, "appToBtm")
    <3>1. /\ <<"Resumed", h>> \in EventsOf("btmToApp") /\ <<"Resumed", h>>[1] \notin Special
          /\ <<"Init", h>> \in EventsOf("btmToDisk") /\ <<"Init", h>>[1] \notin Special
      BY <1>2, Events
    <3>2. /\ DOMAIN sent = {"btmToApp", "btmToDisk"} /\ sent["btmToApp"] = << <<"Resumed", h>> >>
          /\ sent["btmToDisk"] = << <<"Init", h>> >>
      BY <2>1, Records
    <3>3. QED
      BY <1>2, <3>1, <3>2, FineAnswers
  <2>3. h \in DOMAIN torrents' /\ DOMAIN torrents \subseteq DOMAIN torrents'
    BY <1>9 DEF With
  <2>4. QED
    BY <1>7, <1>9, <2>1, <2>2, <2>3
<1>10. QED
  BY <1>5, <1>8, <1>9 DEF ProcessStart

(* ProcessStop. *)
LEMMA StopStep ==
  ASSUME Inv, ProcessStop
  PROVE  Inv'
<1>1. Takes("btm", "appToBtm", "Stop")
  BY DEF ProcessStop
<1>2. "appToBtm" \in Channels \ Loading /\ "btmToApp" \in Channels \ (Loading \cup {"appToBtm"})
      /\ "Stop" \notin Special /\ "Stopped" \notin Special
  BY Names
<1>3. Event("appToBtm") \in EventsOf("appToBtm") /\ Event("appToBtm")[1] = "Stop"
  BY <1>1, <1>2, Taken
<1>4. PICK h \in Hashes : Event("appToBtm") = <<"Stop", h>>
  BY <1>3, Shapes
<1>5. PICK sent : sent = [btmToApp |-> << <<"Stopped", h>> >>]
  OBVIOUS
<1>6. Answers("appToBtm", sent)
  <2>1. Event("appToBtm")[2] = h
    BY <1>4
  <2>2. QED
    BY <1>5, <2>1 DEF ProcessStop
<1>7. Fine(sent, "appToBtm")
  BY <1>2, <1>5, Events, Records, FineAnswer
<1>8. /\ UNCHANGED <<active, appVars, torrentIds>> /\ DOMAIN db' = DOMAIN db /\ history \subseteq history'
      /\ DOMAIN torrents \subseteq DOMAIN torrents'
  BY DEF ProcessStop, persistVars
<1>9. QED
  BY <1>1, <1>2, <1>6, <1>7, <1>8, Handled

(* ProcessResume. *)
LEMMA ResumeStep ==
  ASSUME Inv, ProcessResume
  PROVE  Inv'
<1>1. Takes("btm", "appToBtm", "Resume")
  BY DEF ProcessResume
<1>2. "appToBtm" \in Channels \ Loading /\ "btmToApp" \in Channels \ (Loading \cup {"appToBtm"})
      /\ "btmToPersist" \in Channels \ (Loading \cup {"appToBtm"})
      /\ "Completed" \notin Special /\ "Resumed" \notin Special /\ "LoadPieces" \notin Special
  BY Names
<1>3. Event("appToBtm") \in EventsOf("appToBtm") /\ Event("appToBtm")[1] = "Resume"
  BY <1>1, <1>2, Taken
<1>4. PICK h \in Hashes : Event("appToBtm") = <<"Resume", h>>
  BY <1>3, Shapes
<1>5. Event("appToBtm")[2] = h
  BY <1>4
<1>6. /\ UNCHANGED <<active, appVars, torrentIds>> /\ DOMAIN db' = DOMAIN db /\ history \subseteq history'
      /\ DOMAIN torrents \subseteq DOMAIN torrents'
  BY DEF ProcessResume, persistVars
<1>7. ASSUME NEW sent, Answers("appToBtm", sent), Fine(sent, "appToBtm") PROVE Inv'
  BY <1>1, <1>2, <1>6, <1>7, Handled
<1>8. CASE Answers("appToBtm", [btmToApp |-> << <<"Completed", h>> >>])
  <2>1. PICK sent : sent = [btmToApp |-> << <<"Completed", h>> >>]
    OBVIOUS
  <2>2. Fine(sent, "appToBtm")
    BY <1>2, <2>1, Events, Records, FineAnswer
  <2>3. QED
    BY <1>7, <1>8, <2>1, <2>2
<1>9. CASE Answers("appToBtm", [btmToApp |-> << <<"Resumed", h>> >>, btmToPersist |-> << <<"LoadPieces", h>> >>])
  <2>1. PICK sent : sent = [btmToApp |-> << <<"Resumed", h>> >>, btmToPersist |-> << <<"LoadPieces", h>> >>]
    OBVIOUS
  <2>2. Fine(sent, "appToBtm")
    <3>1. /\ <<"Resumed", h>> \in EventsOf("btmToApp") /\ <<"Resumed", h>>[1] \notin Special
          /\ <<"LoadPieces", h>> \in EventsOf("btmToPersist") /\ <<"LoadPieces", h>>[1] \notin Special
      BY <1>2, Events
    <3>2. /\ DOMAIN sent = {"btmToApp", "btmToPersist"} /\ sent["btmToApp"] = << <<"Resumed", h>> >>
          /\ sent["btmToPersist"] = << <<"LoadPieces", h>> >>
      BY <2>1, Records
    <3>3. QED
      BY <1>2, <3>1, <3>2, FineAnswers
  <2>3. QED
    BY <1>7, <1>9, <2>1, <2>2
<1>10. QED
  BY <1>5, <1>8, <1>9 DEF ProcessResume

(* A step that only sends ordinary events. *)
LEMMA Sends ==
  ASSUME Inv, NEW sent, Pushes(sent), Fine(sent, None),
         "btm" \in active \/ DOMAIN sent \cap {"btmToDisk", "btmToPersist"} = {},
         UNCHANGED <<active, appVars, torrentIds>>, DOMAIN db' = DOMAIN db, history \subseteq history',
         DOMAIN torrents \subseteq DOMAIN torrents'
  PROVE  Inv'
<1>1. None \notin Channels /\ None \notin Loading /\ None # "appToBtm"
  BY DEF None, Channels, Loading
<1>2. DOMAIN sent \subseteq Channels /\ DOMAIN sent \cap Loading = {}
  BY DEF Fine
<1>3. Step(None, sent)
  <2>1. \A d \in DOMAIN sent : sent[d] = <<>> \/ \E e \in EventsOf(d) : sent[d] = <<e>>
    BY DEF Fine
  <2>2. QED
    BY <1>2, <2>1 DEF Step
<1>4. \A d \in DOMAIN sent : sent[d] = <<>> \/ \E e : sent[d] = <<e>> /\ e[1] \notin Special
  BY DEF Fine
<1>5. QED
  BY <1>1, <1>2, <1>3, <1>4, Plain

(* A torrent may be told to be completed. *)
LEMMA Once ==
  ASSUME NEW h \in Hashes
  PROVE  CompletedOnce(h) = <<>> \/ \E e \in EventsOf("btmToApp") : CompletedOnce(h) = <<e>> /\ e[1] \notin Special
<1>1. <<"Completed", h>> \in EventsOf("btmToApp") /\ <<"Completed", h>>[1] = "Completed"
  BY Events
<1>2. "Completed" \notin Special
  BY Names
<1>3. QED
  BY <1>1, <1>2 DEF CompletedOnce

(* ProcessPieces. *)
LEMMA PiecesStep ==
  ASSUME Inv, ProcessPieces
  PROVE  Inv'
<1>1. Takes("btm", "persistToBtm", "Pieces")
  BY DEF ProcessPieces
<1>2. "persistToBtm" \in Channels \ Loading /\ "btmToApp" \in Channels \ (Loading \cup {"persistToBtm"})
      /\ "btmToPersist" \in Channels \ (Loading \cup {"persistToBtm"})
      /\ "Pieces" \notin Special /\ "LoadTrackers" \notin Special
  BY Names
<1>3. Event("persistToBtm") \in EventsOf("persistToBtm") /\ Event("persistToBtm")[1] = "Pieces"
  BY <1>1, <1>2, Taken
<1>4. PICK h \in Hashes : Event("persistToBtm")[2] = h
  <2>1. PICK h \in Hashes, S \in SUBSET Pieces : Event("persistToBtm") = <<"Pieces", h, S>>
    BY <1>3, Shapes
  <2>2. QED
    BY <2>1
<1>5. UNCHANGED <<active, appVars, torrentIds>> /\ DOMAIN db' = DOMAIN db /\ history \subseteq history'
  BY DEF ProcessPieces, persistVars
<1>6. ASSUME NEW sent, Answers("persistToBtm", sent), Fine(sent, "persistToBtm"),
             DOMAIN torrents \subseteq DOMAIN torrents'
      PROVE  Inv'
  BY <1>1, <1>2, <1>5, <1>6, Handled
<1>7. CASE UNCHANGED torrents /\ Answers("persistToBtm", [btmToPersist |-> << <<"LoadTrackers", h>> >>])
  <2>1. PICK sent : sent = [btmToPersist |-> << <<"LoadTrackers", h>> >>]
    OBVIOUS
  <2>2. Fine(sent, "persistToBtm")
    BY <1>2, <2>1, Events, Records, FineAnswer
  <2>3. QED
    BY <1>6, <1>7, <2>1, <2>2
<1>8. CASE UpdateTorrentCompleted(h) /\ Answers("persistToBtm", [btmToApp |-> CompletedOnce(h)])
  <2>1. PICK sent : sent = [btmToApp |-> CompletedOnce(h)]
    OBVIOUS
  <2>2. DOMAIN sent = {"btmToApp"} /\ sent["btmToApp"] = CompletedOnce(h)
    BY <2>1, Records
  <2>3. Fine(sent, "persistToBtm")
    BY <1>2, <2>2, Once DEF Fine
  <2>4. DOMAIN torrents \subseteq DOMAIN torrents'
    BY <1>8 DEF UpdateTorrentCompleted, With
  <2>5. QED
    BY <1>6, <1>8, <2>1, <2>3, <2>4
<1>9. QED
  BY <1>4, <1>7, <1>8 DEF ProcessPieces

(* Events that nobody answers. *)
LEMMA SilentStep ==
  ASSUME Inv, ProcessTrackers \/ OnlyShown \/ PersistPiece
  PROVE  Inv'
<1>1. {"persistToBtm", "btmToApp", "btmToPersist"} \subseteq Channels \ Loading
      /\ {"Trackers", "AddError", "Removed", "PieceComplete"} \cap Special = {}
  BY Names
<1>2. DOMAIN Nothing = {}
  BY Records
<1>3. ASSUME NEW s, NEW c \in Channels \ Loading, NEW type, type \notin Special \cup {"Start"}, Takes(s, c, type),
             Answers(c, Nothing), UNCHANGED <<active, appVars, torrentIds>>, DOMAIN db' = DOMAIN db,
             history \subseteq history', DOMAIN torrents \subseteq DOMAIN torrents'
      PROVE  Inv'
  <2>1. Fine(Nothing, c) /\ DOMAIN Nothing \cap {"btmToDisk", "btmToPersist"} = {}
    BY <1>2, FineNothing
  <2>2. QED
    BY <1>3, <2>1, Handled
<1>4. CASE ProcessTrackers
  <2>1. Takes("btm", "persistToBtm", "Trackers") /\ Answers("persistToBtm", Nothing)
    BY <1>4 DEF ProcessTrackers
  <2>2. /\ UNCHANGED <<active, appVars, torrentIds>> /\ DOMAIN db' = DOMAIN db /\ history \subseteq history'
        /\ DOMAIN torrents \subseteq DOMAIN torrents'
    BY <1>4 DEF ProcessTrackers, persistVars
  <2>3. QED
    BY <1>1, <1>3, <2>1, <2>2
<1>5. CASE OnlyShown
  <2>1. PICK type \in {"AddError", "Removed"} : Takes("app", "btmToApp", type)
    BY <1>5 DEF OnlyShown
  <2>2. /\ UNCHANGED <<active, appVars, torrentIds>> /\ DOMAIN db' = DOMAIN db /\ history \subseteq history'
        /\ DOMAIN torrents \subseteq DOMAIN torrents' /\ Answers("btmToApp", Nothing)
    BY <1>5 DEF OnlyShown, persistVars, btmVars
  <2>3. QED
    BY <1>1, <1>3, <2>1, <2>2
<1>6. CASE PersistPiece
  <2>1. Takes("persist", "btmToPersist", "PieceComplete") /\ Answers("btmToPersist", Nothing)
    BY <1>6 DEF PersistPiece
  <2>2. DOMAIN db' = DOMAIN db
    BY <1>6 DEF PersistPiece
  <2>3. /\ UNCHANGED <<active, appVars, torrentIds>> /\ history \subseteq history'
        /\ DOMAIN torrents \subseteq DOMAIN torrents'
    BY <1>6 DEF PersistPiece, btmVars
  <2>4. QED
    BY <1>1, <1>3, <2>1, <2>2, <2>3
<1>7. QED
  BY <1>4, <1>5, <1>6

(* The events of peers. *)
LEMMA PeersStep ==
  ASSUME Inv, NEW h \in Torrents, NothingMissing(h) \/ \E p \in Pieces : PieceFinished(h, p)
  PROVE  Inv'
<1>1. h \in Hashes /\ "Write" \notin Special
      /\ {"btmToApp", "btmToDisk"} \subseteq Channels \ (Loading \cup {None})
  BY Names DEF Hashes, None, Channels, Loading
<1>2. CASE NothingMissing(h)
  <2>1. PICK sent : sent = [btmToApp |-> CompletedOnce(h)]
    OBVIOUS
  <2>2. DOMAIN sent = {"btmToApp"} /\ sent["btmToApp"] = CompletedOnce(h)
    BY <2>1, Records
  <2>3. Fine(sent, None)
    BY <1>1, <2>2, Once DEF Fine
  <2>4. /\ UNCHANGED <<active, appVars, torrentIds>> /\ DOMAIN db' = DOMAIN db /\ history \subseteq history'
        /\ "btm" \in active /\ Pushes(sent)
    BY <1>2, <2>1 DEF NothingMissing, HasPeers, persistVars
  <2>5. DOMAIN torrents \subseteq DOMAIN torrents'
    BY <1>2 DEF NothingMissing, UpdateTorrentCompleted, With
  <2>6. QED
    BY <2>3, <2>4, <2>5, Sends
<1>3. ASSUME NEW p \in Pieces, PieceFinished(h, p) PROVE Inv'
  <2>1. UNCHANGED <<active, appVars, torrentIds>> /\ DOMAIN db' = DOMAIN db /\ history \subseteq history'
        /\ "btm" \in active
    BY <1>3 DEF PieceFinished, HasPeers, persistVars
  <2>2. <<"Write", h, p>> \in EventsOf("btmToDisk") /\ <<"Write", h, p>>[1] \notin Special
    BY <1>1, Events
  <2>3. CASE /\ UpdateTorrentCompleted(h)
             /\ Pushes([btmToDisk |-> << <<"Write", h, p>> >>, btmToApp |-> CompletedOnce(h)])
    <3>1. PICK sent : sent = [btmToDisk |-> << <<"Write", h, p>> >>, btmToApp |-> CompletedOnce(h)]
      OBVIOUS
    <3>2. /\ DOMAIN sent = {"btmToDisk", "btmToApp"} /\ sent["btmToApp"] = CompletedOnce(h)
          /\ sent["btmToDisk"] = << <<"Write", h, p>> >>
      BY <3>1
    <3>3. Fine(sent, None)
      BY <1>1, <2>2, <3>2, Once DEF Fine
    <3>4. DOMAIN torrents \subseteq DOMAIN torrents'
      BY <2>3 DEF UpdateTorrentCompleted, With
    <3>5. QED
      BY <2>1, <2>3, <3>1, <3>3, <3>4, Sends
  <2>4. CASE Pushes([btmToDisk |-> << <<"Write", h, p>> >>]) /\ UNCHANGED torrents
    <3>1. PICK sent : sent = [btmToDisk |-> << <<"Write", h, p>> >>]
      OBVIOUS
    <3>2. DOMAIN sent = {"btmToDisk"} /\ sent["btmToDisk"] = << <<"Write", h, p>> >>
      BY <3>1, Records
    <3>3. Fine(sent, None)
      BY <1>1, <2>2, <3>2, FineAnswer
    <3>4. QED
      BY <2>1, <2>4, <3>1, <3>3, Sends
  <2>5. QED
    BY <1>3, <2>3, <2>4 DEF PieceFinished
<1>4. QED
  BY <1>2, <1>3

(* The disk service, except for its end. *)
LEMMA DiskStep ==
  ASSUME Inv, DiskRead \/ DiskInit \/ DiskWrite
  PROVE  Inv'
<1>1. "btmToDisk" \in Channels \ Loading /\ "diskToBtm" \in Channels \ (Loading \cup {"btmToDisk"})
      /\ {"Read", "Init", "Write", "ReadSuccess", "Initialized", "WriteSuccess"} \cap (Special \cup {"Start"}) = {}
  BY Names
<1>2. /\ UNCHANGED <<active, appVars, torrentIds>> /\ DOMAIN db' = DOMAIN db /\ history \subseteq history'
      /\ DOMAIN torrents \subseteq DOMAIN torrents'
  <2>1. UNCHANGED <<active, appVars, torrentIds, db, torrents>>
    BY DEF DiskRead, DiskInit, DiskWrite, btmVars, persistVars
  <2>2. history \subseteq history'
    BY DEF DiskRead, DiskInit, DiskWrite, Note
  <2>3. QED
    BY <2>1, <2>2
<1>3. ASSUME NEW type \in {"Read", "Init", "Write"}, Takes("disk", "btmToDisk", type),
             NEW e \in EventsOf("diskToBtm"), e[1] \notin Special, Answers("btmToDisk", [diskToBtm |-> <<e>>])
      PROVE  Inv'
  <2>1. PICK sent : sent = [diskToBtm |-> <<e>>]
    OBVIOUS
  <2>2. DOMAIN sent = {"diskToBtm"} /\ sent["diskToBtm"] = <<e>>
    BY <2>1, Records
  <2>3. Fine(sent, "btmToDisk")
    BY <1>1, <1>3, <2>2, FineAnswer
  <2>4. DOMAIN sent \cap {"btmToDisk", "btmToPersist"} = {} /\ type # "Start" /\ type \notin Special \ {"Resume"}
    BY <1>1, <2>2
  <2>5. QED
    BY <1>1, <1>2, <1>3, <2>1, <2>3, <2>4, Handled
<1>4. ASSUME NEW type \in {"Read", "Init", "Write"}, Takes("disk", "btmToDisk", type), Answers("btmToDisk", Nothing)
      PROVE  Inv'
  <2>1. Fine(Nothing, "btmToDisk") /\ DOMAIN Nothing \cap {"btmToDisk", "btmToPersist"} = {}
    BY FineNothing, Records
  <2>2. type # "Start" /\ type \notin Special \ {"Resume"}
    BY <1>1
  <2>3. QED
    BY <1>1, <1>2, <1>4, <2>1, <2>2, Handled
<1>5. CASE DiskRead
  <2>1. Takes("disk", "btmToDisk", "Read")
    BY <1>5 DEF DiskRead
  <2>2. Event("btmToDisk") \in EventsOf("btmToDisk") /\ Event("btmToDisk")[1] = "Read"
    BY <1>1, <2>1, Taken
  <2>3. PICK h \in Hashes : Event("btmToDisk") = <<"Read", h>>
    BY <2>2, Shapes
  <2>4. <<"ReadSuccess", h>> \in EventsOf("diskToBtm") /\ <<"ReadSuccess", h>>[1] \notin Special
    BY <1>1, Events
  <2>5. Event("btmToDisk")[2] = h
    BY <2>3
  <2>6. Answers("btmToDisk", Nothing) \/ Answers("btmToDisk", [diskToBtm |-> << <<"ReadSuccess", h>> >>])
    BY <1>5, <2>5 DEF DiskRead
  <2>7. QED
    BY <1>3, <1>4, <2>1, <2>4, <2>6
<1>6. CASE DiskInit
  <2>1. Takes("disk", "btmToDisk", "Init")
    BY <1>6 DEF DiskInit
  <2>2. Event("btmToDisk") \in EventsOf("btmToDisk") /\ Event("btmToDisk")[1] = "Init"
    BY <1>1, <2>1, Taken
  <2>3. PICK h \in Hashes : Event("btmToDisk") = <<"Init", h>>
    BY <2>2, Shapes
  <2>4. <<"Initialized", h>> \in EventsOf("diskToBtm") /\ <<"Initialized", h>>[1] \notin Special
    BY <1>1, Events
  <2>5. Event("btmToDisk")[2] = h
    BY <2>3
  <2>6. Answers("btmToDisk", Nothing) \/ Answers("btmToDisk", [diskToBtm |-> << <<"Initialized", h>> >>])
    BY <1>6, <2>5 DEF DiskInit
  <2>7. QED
    BY <1>3, <1>4, <2>1, <2>4, <2>6
<1>7. CASE DiskWrite
  <2>1. Takes("disk", "btmToDisk", "Write")
    BY <1>7 DEF DiskWrite
  <2>2. Event("btmToDisk") \in EventsOf("btmToDisk") /\ Event("btmToDisk")[1] = "Write"
    BY <1>1, <2>1, Taken
  <2>3. PICK h \in Hashes, p \in Pieces : Event("btmToDisk") = <<"Write", h, p>>
    BY <2>2, Shapes
  <2>4. <<"WriteSuccess", h, p>> \in EventsOf("diskToBtm") /\ <<"WriteSuccess", h, p>>[1] \notin Special
    BY <1>1, Events
  <2>5. Event("btmToDisk")[2] = h /\ Event("btmToDisk")[3] = p
    BY <2>3
  <2>6. Answers("btmToDisk", Nothing) \/ Answers("btmToDisk", [diskToBtm |-> << <<"WriteSuccess", h, p>> >>])
    BY <1>7, <2>5 DEF DiskWrite
  <2>7. QED
    BY <1>3, <1>4, <2>1, <2>4, <2>6
<1>8. QED
  BY <1>5, <1>6, <1>7

(* The persist service, when it loads or finds what it has. *)
LEMMA LoadStep ==
  ASSUME Inv, \/ PersistLoadPieces \/ PersistLoadTrackers
              \/ PersistAdd /\ Event("btmToPersist")[2] \in torrentIds
  PROVE  Inv'
<1>1. "btmToPersist" \in Channels \ Loading /\ "persistToBtm" \in Channels \ (Loading \cup {"btmToPersist"})
      /\ {"LoadPieces", "LoadTrackers", "AddTorrent", "Pieces", "Trackers", "Exists"}
         \cap (Special \cup {"Start"}) = {}
  BY Names
<1>2. /\ UNCHANGED <<active, appVars, torrentIds>> /\ DOMAIN db' = DOMAIN db /\ history \subseteq history'
      /\ DOMAIN torrents \subseteq DOMAIN torrents'
  BY DEF PersistLoadPieces, PersistLoadTrackers, PersistAdd, btmVars, persistVars
<1>3. ASSUME NEW type \in {"LoadPieces", "LoadTrackers", "AddTorrent"}, Takes("persist", "btmToPersist", type),
             NEW e \in EventsOf("persistToBtm"), e[1] \notin Special,
             Answers("btmToPersist", [persistToBtm |-> <<e>>])
      PROVE  Inv'
  <2>1. PICK sent : sent = [persistToBtm |-> <<e>>]
    OBVIOUS
  <2>2. DOMAIN sent = {"persistToBtm"} /\ sent["persistToBtm"] = <<e>>
    BY <2>1, Records
  <2>3. Fine(sent, "btmToPersist")
    BY <1>1, <1>3, <2>2, FineAnswer
  <2>4. DOMAIN sent \cap {"btmToDisk", "btmToPersist"} = {} /\ type # "Start" /\ type \notin Special \ {"Resume"}
    BY <1>1, <2>2
  <2>5. QED
    BY <1>1, <1>2, <1>3, <2>1, <2>3, <2>4, Handled
<1>4. CASE PersistLoadPieces
  <2>1. Takes("persist", "btmToPersist", "LoadPieces")
    BY <1>4 DEF PersistLoadPieces
  <2>2. Event("btmToPersist") \in EventsOf("btmToPersist") /\ Event("btmToPersist")[1] = "LoadPieces"
    BY <1>1, <2>1, Taken
  <2>3. PICK h \in Hashes : Event("btmToPersist") = <<"LoadPieces", h>>
    BY <2>2, Shapes
  <2>4. Event("btmToPersist")[2] = h
    BY <2>3
  <2>5. PICK S \in SUBSET Pieces : S = IF h \in torrentIds THEN Pieces \ db[h] ELSE {}
    OBVIOUS
  <2>6. <<"Pieces", h, S>> \in EventsOf("persistToBtm") /\ <<"Pieces", h, S>>[1] \notin Special
    BY <1>1, Events
  <2>7. Answers("btmToPersist", [persistToBtm |-> << <<"Pieces", h, S>> >>])
    BY <1>4, <2>4, <2>5 DEF PersistLoadPieces
  <2>8. QED
    BY <1>3, <2>1, <2>6, <2>7
<1>5. CASE PersistLoadTrackers
  <2>1. Takes("persist", "btmToPersist", "LoadTrackers")
    BY <1>5 DEF PersistLoadTrackers
  <2>2. Event("btmToPersist") \in EventsOf("btmToPersist") /\ Event("btmToPersist")[1] = "LoadTrackers"
    BY <1>1, <2>1, Taken
  <2>3. PICK h \in Hashes : Event("btmToPersist") = <<"LoadTrackers", h>>
    BY <2>2, Shapes
  <2>4. Event("btmToPersist")[2] = h
    BY <2>3
  <2>5. <<"Trackers", h>> \in EventsOf("persistToBtm") /\ <<"Trackers", h>>[1] \notin Special
    BY <1>1, Events
  <2>6. Answers("btmToPersist", [persistToBtm |-> << <<"Trackers", h>> >>])
    BY <1>5, <2>4 DEF PersistLoadTrackers
  <2>7. QED
    BY <1>3, <2>1, <2>5, <2>6
<1>6. CASE PersistAdd /\ Event("btmToPersist")[2] \in torrentIds
  <2>1. Takes("persist", "btmToPersist", "AddTorrent")
    BY <1>6 DEF PersistAdd
  <2>2. Event("btmToPersist") \in EventsOf("btmToPersist") /\ Event("btmToPersist")[1] = "AddTorrent"
    BY <1>1, <2>1, Taken
  <2>3. PICK h \in Hashes : Event("btmToPersist") = <<"AddTorrent", h>>
    BY <2>2, Shapes
  <2>4. Event("btmToPersist")[2] = h
    BY <2>3
  <2>5. <<"Exists", h>> \in EventsOf("persistToBtm") /\ <<"Exists", h>>[1] \notin Special
    BY <1>1, Events
  <2>6. Answers("btmToPersist", [persistToBtm |-> << <<"Exists", h>> >>])
    BY <1>6, <2>4 DEF PersistAdd
  <2>7. QED
    BY <1>3, <2>1, <2>5, <2>6
<1>7. QED
  BY <1>4, <1>5, <1>6

(* Commands that add or stop a torrent. *)
LEMMA CommandStep ==
  ASSUME Inv, (\E h \in Torrents : addTorrent(h)) \/ (\E id \in DOMAIN idTorrentMap : stopTorrent(id))
  PROVE  Inv'
<1>1. "appToBtm" \in Channels \ (Loading \cup {None}) /\ {"Add", "Stop"} \cap Special = {}
  BY Names DEF Channels, Loading, None
<1>2. PICK t \in {"Add", "Stop"}, h \in Hashes :
          /\ Pushes([appToBtm |-> << <<t, h>> >>])
          /\ UNCHANGED <<active, appVars, btmVars, known, onDisk, persistVars, history>>
  <2>1. \A id \in DOMAIN idTorrentMap : idTorrentMap[id].hash \in Hashes
    BY DEF Inv, Typed, EntriesTyped
  <2>2. CASE \E h \in Torrents : addTorrent(h)
    BY <2>2 DEF addTorrent, Hashes
  <2>3. CASE \E id \in DOMAIN idTorrentMap : stopTorrent(id)
    BY <2>1, <2>3 DEF stopTorrent
  <2>4. QED
    BY <2>2, <2>3
<1>3. <<t, h>> \in EventsOf("appToBtm") /\ <<t, h>>[1] \notin Special
  BY <1>1, Made
<1>4. PICK sent : sent = [appToBtm |-> << <<t, h>> >>]
  OBVIOUS
<1>5. DOMAIN sent = {"appToBtm"} /\ sent["appToBtm"] = << <<t, h>> >>
  BY <1>4, Records
<1>6. Fine(sent, None)
  BY <1>1, <1>3, <1>5, FineAnswer
<1>7. /\ UNCHANGED <<active, appVars, torrentIds>> /\ DOMAIN db' = DOMAIN db /\ history \subseteq history'
      /\ DOMAIN torrents \subseteq DOMAIN torrents'
  BY <1>2 DEF btmVars, persistVars
<1>8. QED
  BY <1>2, <1>4, <1>5, <1>6, <1>7, Sends

(* StateChanges: the entry it may make has no torrent's info hash. *)
LEMMA StateStep ==
  ASSUME Inv, StateChanges
  PROVE  Inv'
<1>1. PICK type \in {"Stopped", "Completed", "Resumed"} :
          /\ Takes("app", "btmToApp", type)
          /\ LET h == Event("btmToApp")[2]
                 id == IF h \in DOMAIN hashToIdMap THEN hashToIdMap[h] ELSE 0
                 hash == IF id \in DOMAIN idTorrentMap THEN idTorrentMap[id].hash ELSE NoHash
             IN  /\ hashToIdMap' = With(hashToIdMap, h, id)
                 /\ idTorrentMap' = With(idTorrentMap, id, [hash |-> hash, state |-> StateShown(type)])
                 /\ IF id = 0 THEN Note("ghost", h) ELSE UNCHANGED history
          /\ Answers("btmToApp", Nothing)
          /\ UNCHANGED <<active, idCounter, btmVars, known, onDisk, persistVars, turns>>
  BY DEF StateChanges
<1> DEFINE h == Event("btmToApp")[2]
           id == IF h \in DOMAIN hashToIdMap THEN hashToIdMap[h] ELSE 0
           hash == IF id \in DOMAIN idTorrentMap THEN idTorrentMap[id].hash ELSE NoHash
           entry == [hash |-> hash, state |-> StateShown(type)]
<1>2. Typed /\ Exits /\ Lives /\ EntriesTyped
  BY DEF Inv, Typed
<1>3. hashToIdMap' = With(hashToIdMap, h, id) /\ idTorrentMap' = With(idTorrentMap, id, entry)
      /\ history \subseteq history'
  BY <1>1 DEF Note
<1>4. active' = active /\ idCounter' = idCounter /\ torrents' = torrents /\ db' = db /\ torrentIds' = torrentIds
  BY <1>1 DEF btmVars, persistVars
<1>5. id \in 0 .. idCounter /\ hash \in Hashes /\ entry.hash = hash
  BY <1>2 DEF EntriesTyped, Hashes
<1>6. hash = IF id \in DOMAIN idTorrentMap THEN idTorrentMap[id].hash ELSE NoHash
  OBVIOUS
<1> HIDE DEF h, id, hash, entry
<1>7. /\ DOMAIN idTorrentMap' = DOMAIN idTorrentMap \cup {id}
      /\ \A x \in DOMAIN idTorrentMap' : idTorrentMap'[x].hash = IF x = id THEN hash ELSE idTorrentMap[x].hash
      /\ DOMAIN hashToIdMap' = DOMAIN hashToIdMap \cup {h}
      /\ \A x \in DOMAIN hashToIdMap' : hashToIdMap'[x] = IF x = h THEN id ELSE hashToIdMap[x]
  BY <1>3, <1>5 DEF With
<1>8. EntriesTyped'
  BY <1>2, <1>4, <1>5, <1>7 DEF EntriesTyped
<1>9. ASSUME NEW g \in Torrents PROVE Shown(g)' \subseteq Shown(g)
  <2>1. g # NoHash
    BY LifecycleAssumption
  <2>2. QED
    BY <1>6, <1>7, <2>1 DEF Shown
<1>10. "btmToApp" \in Channels \ Loading /\ type \notin Special \ {"Resume"} /\ type # "Start"
  BY Names
<1>11. q["btmToApp"] # <<>> /\ Event("btmToApp") = Head(q["btmToApp"]) /\ Event("btmToApp")[1] = type
  BY <1>1, <1>10, Taken
<1>12. DOMAIN Nothing = {}
  BY Records
<1>13. Step("btmToApp", Nothing)
  BY <1>1, <1>10, <1>11, <1>12 DEF Step
<1>14. Head(q["btmToApp"])[1] \notin Special \ {"Resume"} /\ "btmToApp" # "appToBtm"
  BY <1>10, <1>11
<1>15. DOMAIN torrents \subseteq DOMAIN torrents'
  BY <1>4
<1>16. QueuesTyped' /\ Exits' /\ Lives'
  BY <1>2, <1>3, <1>4, <1>9, <1>10, <1>12, <1>13, <1>14, <1>15, Ordinary
<1>17. QED
  BY <1>8, <1>16 DEF Inv, Typed

(* What a step that only sends one event to BitTorrentManager does. *)
LEMMA ToBtm ==
  ASSUME Inv, NEW e \in EventsOf("appToBtm"), Pushes([appToBtm |-> <<e>>]),
         \A s \in {"btm", "disk", "persist"} : s \in active' <=> s \in active
  PROVE  \E sent : /\ QueuesTyped' /\ Exits' /\ Moved(None, sent)
                   /\ \A d \in Channels : Sent(sent, d) \in Seq(EventsOf(d))
                   /\ \A d \in Loading : Sent(sent, d) = <<>>
                   /\ \A d \in Channels \ {"appToBtm"} : Sent(sent, d) = <<>>
                   /\ Sent(sent, "appToBtm") = <<e>>
                   /\ \A d, x : x \in Range(Sent(sent, d)) => d = "appToBtm" /\ x = e
<1>1. PICK sent : sent = [appToBtm |-> <<e>>]
  OBVIOUS
<1>2. DOMAIN sent = {"appToBtm"} /\ sent["appToBtm"] = <<e>>
  BY <1>1, Records
<1>3. "appToBtm" \in Channels \ Loading /\ "appToBtm" \notin {"btmToDisk", "btmToPersist"}
      /\ None \notin {"btmToDisk", "btmToPersist"} /\ Loading \subseteq Channels
  BY Names DEF None, Loading, Channels
<1>4. Step(None, sent)
  BY <1>1, <1>2, <1>3 DEF Step
<1>5. QueuesTyped /\ Exits
  BY DEF Inv, Typed
<1>6. QueuesTyped'
  BY <1>2, <1>3, <1>4, <1>5, QueuesStep
<1>7. \A d \in {"btmToDisk", "btmToPersist"} :
             /\ d \in DOMAIN sent => sent[d] # << <<"Shutdown">> >> /\ "btm" \in active
             /\ d = None => Head(q[d]) # <<"Shutdown">>
  BY <1>2, <1>3
<1>8. Exits'
  BY <1>4, <1>5, <1>7, ExitsStay
<1>9. /\ Moved(None, sent) /\ \A d \in Channels : Sent(sent, d) \in Seq(EventsOf(d))
      /\ \A d : d \notin DOMAIN sent => Sent(sent, d) = <<>>
      /\ \A d, x : x \in Range(Sent(sent, d)) => d \in DOMAIN sent /\ sent[d] = <<x>>
  BY <1>4, <1>5, StepMoves
<1>10. \A d, x : x \in Range(Sent(sent, d)) => d = "appToBtm" /\ x = e
  BY <1>2, <1>9
<1>11. Sent(sent, "appToBtm") = <<e>>
  BY <1>2 DEF Sent
<1>12. (\A d \in Loading : Sent(sent, d) = <<>>) /\ (\A d \in Channels \ {"appToBtm"} : Sent(sent, d) = <<>>)
  BY <1>2, <1>3, <1>9
<1>13. QED
  BY <1>6, <1>8, <1>9, <1>10, <1>11, <1>12

(* exit. *)
LEMMA ExitStep ==
  ASSUME Inv, exit
  PROVE  Inv'
<1>1. PICK e : e = <<"Shutdown">>
  OBVIOUS
<1>2. e \in EventsOf("appToBtm") /\ Pushes([appToBtm |-> <<e>>])
  BY <1>1, Made DEF exit
<1>3. \A s \in {"btm", "disk", "persist"} : s \in active' <=> s \in active
  BY DEF exit
<1>4. PICK sent : /\ QueuesTyped' /\ Exits' /\ Moved(None, sent)
                  /\ \A d \in Channels : Sent(sent, d) \in Seq(EventsOf(d))
                  /\ \A d \in Loading : Sent(sent, d) = <<>>
                  /\ \A d, x : x \in Range(Sent(sent, d)) => d = "appToBtm" /\ x = e
  BY <1>2, <1>3, ToBtm
<1>5. idTorrentMap' = idTorrentMap /\ hashToIdMap' = hashToIdMap /\ idCounter' = idCounter
      /\ torrents' = torrents /\ db' = db /\ torrentIds' = torrentIds /\ history' = history
  BY DEF exit, appVars, btmVars, persistVars
<1>6. EntriesTyped'
  BY <1>5 DEF Inv, Typed, EntriesTyped
<1>7. ASSUME NEW h \in Torrents, OneLife(h), KnownFirst(h) PROVE OneLife(h)' /\ KnownFirst(h)'
  <2>1. None \notin Channels /\ None \notin Loading /\ None # "appToBtm" /\ QueuesTyped
    BY DEF None, Channels, Loading, Inv, Typed
  <2>2. \A t : <<t, h>> # e
    BY <1>1
  <2>3. \A k \in DOMAIN Marks : /\ <<Marks[k], h>> \notin Range(Sent(sent, k))
                                /\ k = None => Head(q[k]) # <<Marks[k], h>>
    BY <1>4, <2>1, <2>2, PlacesAre
  <2>4. <<"Resume", h>> \notin Range(Sent(sent, "appToBtm"))
    BY <1>4, <2>2
  <2>5. Shown(h)' \subseteq Shown(h)
    BY <1>5 DEF Shown
  <2>6. QED
    BY <1>4, <1>5, <1>7, <2>1, <2>3, <2>4, <2>5, OthersStay
<1>8. Lives'
  BY <1>5, <1>7 DEF Inv, Lives, Early
<1>9. QED
  BY <1>4, <1>6, <1>8 DEF Inv, Typed

(* resumeTorrent: the torrent has an entry, so it is known or started, and *)
(* no removal of it is on its way.                                         *)
LEMMA ResumeCommandStep ==
  ASSUME Inv, NEW id \in DOMAIN idTorrentMap, resumeTorrent(id)
  PROVE  Inv'
<1>1. PICK h \in Hashes : h = idTorrentMap[id].hash
  BY DEF Inv, Typed, EntriesTyped
<1>2. PICK e : e = <<"Resume", h>>
  OBVIOUS
<1>3. e \in EventsOf("appToBtm") /\ Pushes([appToBtm |-> <<e>>])
  <2>1. <<"Resume", h>> \in EventsOf("appToBtm")
    BY Made
  <2>2. QED
    BY <1>1, <1>2, <2>1 DEF resumeTorrent
<1>4. active' = active
  BY DEF resumeTorrent
<1>5. PICK sent : /\ QueuesTyped' /\ Exits' /\ Moved(None, sent)
                  /\ \A d \in Channels : Sent(sent, d) \in Seq(EventsOf(d))
                  /\ \A d \in Loading : Sent(sent, d) = <<>>
                  /\ Sent(sent, "appToBtm") = <<e>>
                  /\ \A d, x : x \in Range(Sent(sent, d)) => d = "appToBtm" /\ x = e
  BY <1>3, <1>4, ToBtm
<1>6. idTorrentMap' = idTorrentMap /\ hashToIdMap' = hashToIdMap /\ idCounter' = idCounter
      /\ torrents' = torrents /\ db' = db /\ torrentIds' = torrentIds /\ history' = history
  BY DEF resumeTorrent, appVars, btmVars, persistVars
<1>7. EntriesTyped'
  BY <1>6 DEF Inv, Typed, EntriesTyped
<1>8. None \notin Channels /\ None \notin Loading /\ None # "appToBtm" /\ "appToBtm" \in Channels /\ QueuesTyped
  BY DEF None, Channels, Loading, Inv, Typed
<1>9. ASSUME NEW g PROVE Shown(g)' = Shown(g)
  BY <1>6 DEF Shown
<1>10. ASSUME NEW g \in Torrents
       PROVE  \A k \in DOMAIN Marks : /\ <<Marks[k], g>> \notin Range(Sent(sent, k))
                                      /\ k = None => Head(q[k]) # <<Marks[k], g>>
  <2>1. \A t \in {"Added", "Remove"} : <<t, g>> # e
    BY <1>2
  <2>2. QED
    BY <1>5, <1>8, <2>1, PlacesAre
<1>11. ASSUME NEW g \in Torrents, OneLife(g), KnownFirst(g) PROVE OneLife(g)' /\ KnownFirst(g)'
  <2>1. OneLife(g)'
    BY <1>5, <1>6, <1>8, <1>9, <1>10, <1>11, PlaceStays
  <2>2. CASE g # h
    <3>1. <<"Resume", g>> # e
      BY <1>2, <2>2
    <3>2. <<"Resume", g>> \notin Range(Sent(sent, "appToBtm"))
      BY <1>5, <3>1
    <3>3. QED
      BY <1>5, <1>6, <1>8, <1>9, <1>10, <1>11, <3>2, OthersStay
  <2>3. CASE g = h
    <3>1. Shown(g) # {}
      BY <1>1, <2>3 DEF Shown
    <3>2. Startable(q["appToBtm"], DOMAIN torrents, g) /\ Resumable(q["appToBtm"], DOMAIN torrents, g)
      BY <1>11, <3>1 DEF KnownFirst
    <3>3. <<"Remove", g>> \notin Range(q["appToBtm"])
      <4>1. "appToBtm" \in DOMAIN Marks /\ Marks["appToBtm"] = "Remove" /\ "entry" # "appToBtm"
            /\ "appToBtm" \in Places /\ "entry" \in Places
        BY PlacesAre DEF Places
      <4>2. Carries("entry", g) /\ (Carries("appToBtm", g) <=> <<"Remove", g>> \in Range(q["appToBtm"]))
        BY <3>1, <4>1, CarriesWhat
      <4>3. QED
        BY <1>11, <4>1, <4>2 DEF OneLife
    <3>4. PICK s \in Seq(EventsOf("appToBtm")) : s = q["appToBtm"]
      BY <1>8 DEF QueuesTyped
    <3>5. <<e>> \in Seq(EventsOf("appToBtm")) /\ (\A x : x \in Range(<<e>>) <=> x = e)
      BY <1>3, Single
    <3>6. <<"Remove", g>> \notin Range(s) \cup Range(<<e>>)
      BY <1>2, <3>3, <3>4, <3>5
    <3>7. Resumable(s \o <<e>>, DOMAIN torrents, g)
      BY <3>2, <3>4, <3>5, <3>6, ResumableJoin
    <3>8. q'["appToBtm"] = s \o <<e>>
      BY <1>5, <1>8, <3>4 DEF Moved
    <3>9. Startable(s \o <<e>>, DOMAIN torrents, g)
      <4>1. <<"Start", g>> \in Range(s \o <<e>>) <=> <<"Start", g>> \in Range(s) \/ <<"Start", g>> \in Range(<<e>>)
        BY <3>4, <3>5, Joining
      <4>2. QED
        BY <3>2, <3>4, <4>1 DEF Startable
    <3>10. KnownFirst(g)'
      BY <1>6, <3>7, <3>8, <3>9 DEF KnownFirst
    <3>11. QED
      BY <2>1, <3>10
  <2>4. QED
    BY <2>2, <2>3
<1>12. Lives'
  BY <1>6, <1>11 DEF Inv, Lives, Early
<1>13. QED
  BY <1>5, <1>7, <1>12 DEF Inv, Typed

(* removeTorrent: the torrent goes from its entry to its removal, or is    *)
(* forgotten when another info hash is read.                               *)
LEMMA RemoveCommandStep ==
  ASSUME Inv, NEW id \in DOMAIN idTorrentMap, removeTorrent(id)
  PROVE  Inv'
<1>1. PICK h \in Hashes : h = idTorrentMap[id].hash
  BY DEF Inv, Typed, EntriesTyped
<1>2. PICK read \in {h, NoHash} :
          /\ Pushes([appToBtm |-> << <<"Remove", read>> >>])
          /\ IF read = h THEN UNCHANGED history ELSE Note("misread", h)
  BY <1>1 DEF removeTorrent
<1>3. PICK e : e = <<"Remove", read>>
  OBVIOUS
<1>4. e \in EventsOf("appToBtm") /\ Pushes([appToBtm |-> <<e>>])
  <2>1. read \in Hashes
    BY DEF Hashes
  <2>2. <<"Remove", read>> \in EventsOf("appToBtm")
    BY <2>1, Made
  <2>3. QED
    BY <1>2, <1>3, <2>2
<1>5. active' = active /\ idCounter' = idCounter /\ torrents' = torrents /\ db' = db /\ torrentIds' = torrentIds
      /\ history \subseteq history'
  BY <1>2 DEF removeTorrent, btmVars, persistVars, Note
<1>6. PICK sent : /\ QueuesTyped' /\ Exits' /\ Moved(None, sent)
                  /\ \A d \in Channels : Sent(sent, d) \in Seq(EventsOf(d))
                  /\ \A d \in Loading : Sent(sent, d) = <<>>
                  /\ Sent(sent, "appToBtm") = <<e>>
                  /\ \A d, x : x \in Range(Sent(sent, d)) => d = "appToBtm" /\ x = e
  BY <1>4, <1>5, ToBtm
<1>7. /\ idTorrentMap' = Without(idTorrentMap, id) /\ hashToIdMap' = Without(hashToIdMap, h)
  BY <1>1 DEF removeTorrent
<1>8. /\ DOMAIN idTorrentMap' = DOMAIN idTorrentMap \ {id}
      /\ \A x \in DOMAIN idTorrentMap' : idTorrentMap'[x] = idTorrentMap[x]
      /\ DOMAIN hashToIdMap' \subseteq DOMAIN hashToIdMap
      /\ \A x \in DOMAIN hashToIdMap' : hashToIdMap'[x] = hashToIdMap[x]
  BY <1>7 DEF Without
<1>9. EntriesTyped'
  BY <1>5, <1>8 DEF Inv, Typed, EntriesTyped
<1>10. \A g : Shown(g)' = Shown(g) \ {id}
  BY <1>8 DEF Shown
<1>11. None \notin Channels /\ None \notin Loading /\ None # "appToBtm" /\ "appToBtm" \in Channels /\ QueuesTyped
  BY DEF None, Channels, Loading, Inv, Typed
<1>12. ASSUME NEW g \in Torrents, OneLife(g), KnownFirst(g) PROVE OneLife(g)' /\ KnownFirst(g)'
  <2>1. <<"Resume", g>> # e /\ <<"Added", g>> # e
    BY <1>3
  <2>2. <<"Resume", g>> \notin Range(Sent(sent, "appToBtm"))
    BY <1>6, <2>1
  <2>3. Shown(g)' \subseteq Shown(g)
    BY <1>10
  <2>4. CASE g # read
    <3>1. <<"Remove", g>> # e
      BY <1>3, <2>4
    <3>2. \A k \in DOMAIN Marks : /\ <<Marks[k], g>> \notin Range(Sent(sent, k))
                                  /\ k = None => Head(q[k]) # <<Marks[k], g>>
      BY <1>6, <1>11, <2>1, <3>1, PlacesAre
    <3>3. QED
      BY <1>5, <1>6, <1>11, <1>12, <2>2, <2>3, <3>2, OthersStay
  <2>5. CASE g = read
    <3>1. g = h /\ g # NoHash
      BY <2>5, LifecycleAssumption
    <3>2. Shown(g) = {id} /\ Shown(g)' = {}
      <4>1. id \in Shown(g)
        BY <1>1, <3>1 DEF Shown
      <4>2. QED
        BY <1>10, <1>12, <4>1 DEF OneLife
    <3>3. /\ "appToBtm" \in DOMAIN Marks /\ Marks["appToBtm"] = "Remove" /\ "entry" # "appToBtm"
          /\ "appToBtm" \in Places /\ "entry" \in Places /\ DOMAIN Marks \subseteq Places
      BY PlacesAre DEF Places
    <3>4. Carries("entry", g) /\ ~Carries("entry", g)'
      BY <3>2, CarriesWhat
    <3>5. ~Carries("appToBtm", g)
      BY <1>12, <3>3, <3>4 DEF OneLife
    <3>6. AtMostOnce(q'["appToBtm"], <<"Remove", g>>)
      <4>1. /\ <<Marks["appToBtm"], g>> = e /\ e \in EventsOf("appToBtm") /\ Sent(sent, "appToBtm") = <<e>>
        BY <1>3, <1>4, <1>6, <2>5, <3>3
      <4>2. QED
        BY <1>6, <1>11, <3>3, <3>5, <4>1, MarkComes
    <3>7. ASSUME NEW k \in DOMAIN Marks, k # "appToBtm"
          PROVE  (Carries(k, g)' <=> Carries(k, g)) /\ AtMostOnce(q'[k], <<Marks[k], g>>)
      <4>1. k \in Channels /\ k # None /\ <<Marks[k], g>> \notin Range(Sent(sent, k))
        BY <1>6, <1>11, <3>7, PlacesAre
      <4>2. AtMostOnce(q[k], <<Marks[k], g>>)
        BY <1>12 DEF OneLife
      <4>3. QED
        BY <1>6, <1>11, <4>1, <4>2, MarkStays
    <3>8. q'["persistToApp"] = q["persistToApp"] /\ q'["appToPersist"] = q["appToPersist"]
      BY <1>6, <1>11, PlacesAre, Untouched DEF Loading
    <3>9. Carries("persistToApp", g)' <=> Carries("persistToApp", g)
      BY <3>8, CarriesWhat
    <3>10. \A m \in Places \ {"entry", "appToBtm"} : Carries(m, g)' => Carries(m, g)
      BY <3>7, <3>9 DEF Places
    <3>11. \A m \in DOMAIN Marks : AtMostOnce(q'[m], <<Marks[m], g>>)
      BY <3>3, <3>6, <3>7
    <3>12. g \in torrentIds'
      BY <1>5, <1>12, <3>3, <3>4 DEF OneLife
    <3>13. \A i, j \in Shown(g)' : i = j
      BY <3>2
    <3>14. OneLife(g)'
      BY <1>12, <3>3, <3>4, <3>8, <3>10, <3>11, <3>12, <3>13, LifeMoves
    <3>15. Resumable(q["appToBtm"], DOMAIN torrents, g)
      BY <1>12 DEF KnownFirst
    <3>16. Resumable(q'["appToBtm"], DOMAIN torrents', g)
      BY <1>5, <1>6, <1>11, <2>2, <3>15, KnownStays
    <3>17. KnownFirst(g)'
      BY <3>2, <3>16 DEF KnownFirst
    <3>18. QED
      BY <3>14, <3>17
  <2>6. QED
    BY <2>4, <2>5
<1>13. Lives'
  BY <1>5, <1>12 DEF Inv, Lives, Early
<1>14. QED
  BY <1>6, <1>9, <1>13 DEF Inv, Typed

(* Taking the first event of queue c takes torrent h away from c, and what *)
(* is sent carries h to place l or nowhere.                                *)
PassedOn(c, l, h, sent) ==
  /\ Moved(c, sent) /\ q[c] # <<>> /\ Head(q[c]) = <<Marks[c], h>>
  /\ \A d \in Channels : Sent(sent, d) \in Seq(EventsOf(d))
  /\ \A d \in Loading : Sent(sent, d) = <<>>
  /\ \A k \in DOMAIN Marks \ {c} :
       \/ <<Marks[k], h>> \notin Range(Sent(sent, k))
       \/ /\ k = l /\ Sent(sent, k) = << <<Marks[k], h>> >>
          /\ <<Marks[k], h>> \in EventsOf(k)
  /\ l \in Places => h \in torrentIds'

(* The event that carries a torrent is taken, and goes on to place l. *)
LEMMA Passes ==
  ASSUME QueuesTyped, NEW h, OneLife(h), NEW c \in DOMAIN Marks, NEW sent, NEW l, l # c,
         PassedOn(c, l, h, sent), Shown(h)' \subseteq Shown(h)
  PROVE  OneLife(h)' /\ Shown(h) = {}
<1>0. /\ Moved(c, sent) /\ q[c] # <<>> /\ Head(q[c]) = <<Marks[c], h>>
      /\ \A d \in Channels : Sent(sent, d) \in Seq(EventsOf(d))
      /\ \A d \in Loading : Sent(sent, d) = <<>>
      /\ \A k \in DOMAIN Marks \ {c} :
           \/ <<Marks[k], h>> \notin Range(Sent(sent, k))
           \/ /\ k = l /\ Sent(sent, k) = << <<Marks[k], h>> >>
              /\ <<Marks[k], h>> \in EventsOf(k)
      /\ l \in Places => h \in torrentIds'
  BY DEF PassedOn
<1>1. /\ c \in Places /\ DOMAIN Marks \subseteq Places /\ "entry" \in Places /\ "persistToApp" \in Places
      /\ c # "entry" /\ c # "persistToApp" /\ c \in Channels /\ c \notin Loading
  BY PlacesAre DEF Places
<1>2. AtMostOnce(q[c], <<Marks[c], h>>)
  BY DEF OneLife
<1>3. Carries(c, h) /\ ~Carries(c, h)' /\ AtMostOnce(q'[c], <<Marks[c], h>>)
  BY <1>0, <1>1, <1>2, MarkGoes
<1>4. \A k \in Places : Carries(k, h) => k = c
  BY <1>1, <1>3 DEF OneLife
<1>5. Shown(h) = {}
  BY <1>1, <1>4, CarriesWhat
<1>6. ASSUME NEW k \in DOMAIN Marks \ {c}
      PROVE  (k # l => (Carries(k, h)' => Carries(k, h))) /\ AtMostOnce(q'[k], <<Marks[k], h>>)
  <2>1. k \in Channels /\ k # c /\ AtMostOnce(q[k], <<Marks[k], h>>) /\ ~Carries(k, h)
    BY <1>1, <1>4, PlacesAre DEF OneLife
  <2>2. CASE <<Marks[k], h>> \notin Range(Sent(sent, k))
    BY <1>0, <2>1, <2>2, MarkStays
  <2>3. CASE k = l /\ Sent(sent, k) = << <<Marks[k], h>> >> /\ <<Marks[k], h>> \in EventsOf(k)
    BY <1>0, <2>1, <2>3, MarkComes
  <2>4. QED
    BY <1>0, <2>2, <2>3
<1>7. ASSUME NEW d \in Loading PROVE q'[d] = q[d]
  BY <1>0, <1>1, PlacesAre, Untouched
<1>8. q'["persistToApp"] = q["persistToApp"] /\ q'["appToPersist"] = q["appToPersist"]
  BY <1>7 DEF Loading
<1>9. Carries("persistToApp", h)' <=> Carries("persistToApp", h)
  BY <1>8, CarriesWhat
<1>10. l # "entry" => (Carries("entry", h)' => Carries("entry", h))
  BY CarriesWhat
<1>11. \A m \in Places \ {c, l} : Carries(m, h)' => Carries(m, h)
  BY <1>6, <1>9, <1>10 DEF Places
<1>12. \A m \in DOMAIN Marks : AtMostOnce(q'[m], <<Marks[m], h>>)
  BY <1>3, <1>6
<1>13. \A i, j \in Shown(h)' : i = j
  BY <1>5
<1>14. (\E m \in Places : Carries(m, h)') => h \in torrentIds'
  BY <1>0, <1>3, <1>4, <1>11
<1>15. OneLife(h)'
  BY <1>1, <1>3, <1>8, <1>11, <1>12, <1>13, <1>14, LifeMoves
<1>16. QED
  BY <1>5, <1>15

(* ProcessAdded. *)
LEMMA AddedStep ==
  ASSUME Inv, ProcessAdded
  PROVE  Inv'
<1>1. Forwards("persistToBtm", "Added", "btmToApp", "Added")
  BY DEF ProcessAdded
<1>2. /\ "persistToBtm" \in Channels \ Loading /\ "btmToApp" \in Channels \ Loading
      /\ "persistToBtm" \in DOMAIN Marks /\ "btmToApp" \in DOMAIN Marks /\ QueuesTyped /\ Exits
      /\ Marks["persistToBtm"] = "Added" /\ Marks["btmToApp"] = "Added"
  BY Names, PlacesAre DEF Inv, Typed
<1>3. /\ q["persistToBtm"] # <<>> /\ Event("persistToBtm") = Head(q["persistToBtm"])
      /\ Event("persistToBtm") \in EventsOf("persistToBtm") /\ Event("persistToBtm")[1] = "Added"
  BY <1>1, <1>2, Taken DEF Forwards
<1>4. PICK h \in Hashes : Head(q["persistToBtm"]) = <<"Added", h>>
  BY <1>3, Shapes
<1>5. PICK e \in EventsOf("btmToApp") : e = <<"Added", h>>
  BY Made
<1>6. PICK sent : sent = [t \in {"btmToApp"} |-> <<e>>]
  OBVIOUS
<1>7. Answers("persistToBtm", sent)
  <2>0. Event("persistToBtm") = <<"Added", h>>
    BY <1>3, <1>4
  <2>1. [Event("persistToBtm") EXCEPT ![1] = "Added"] = <<"Added", h>>
    BY <2>0
  <2>2. QED
    BY <1>1, <1>5, <1>6, <2>1 DEF Forwards
<1>8. Step("persistToBtm", sent) /\ DOMAIN sent = {"btmToApp"} /\ sent["btmToApp"] = <<e>>
  <2>1. "persistToBtm" # "btmToApp"
    OBVIOUS
  <2>2. QED
    BY <1>2, <1>3, <1>6, <1>7, <2>1, OneSent
<1>9. active' = active /\ idTorrentMap' = idTorrentMap /\ hashToIdMap' = hashToIdMap /\ idCounter' = idCounter
      /\ torrents' = torrents /\ db' = db /\ torrentIds' = torrentIds /\ history' = history
  BY <1>1 DEF Forwards, appVars, btmVars, persistVars
<1>10. QueuesTyped'
  BY <1>2, <1>8, QueuesStep
<1>11. Exits'
  <2>1. \A d \in {"btmToDisk", "btmToPersist"} : d \notin DOMAIN sent /\ d # "persistToBtm"
    BY <1>8
  <2>2. QED
    BY <1>2, <1>8, <1>9, <2>1, ExitsStay
<1>12. EntriesTyped'
  BY <1>9 DEF Inv, Typed, EntriesTyped
<1>13. /\ Moved("persistToBtm", sent) /\ \A d \in Channels : Sent(sent, d) \in Seq(EventsOf(d))
       /\ \A d : d \notin DOMAIN sent => Sent(sent, d) = <<>>
       /\ \A d, x : x \in Range(Sent(sent, d)) => d \in DOMAIN sent /\ sent[d] = <<x>>
  BY <1>2, <1>8, StepMoves
<1>14. \A d, x : x \in Range(Sent(sent, d)) => d = "btmToApp" /\ x = e
  BY <1>8, <1>13
<1>15. (\A d \in Loading : Sent(sent, d) = <<>>) /\ Sent(sent, "btmToApp") = <<e>>
  BY <1>2, <1>8, <1>13 DEF Sent
<1>16. ASSUME NEW g \in Torrents, OneLife(g), KnownFirst(g) PROVE OneLife(g)' /\ KnownFirst(g)'
  <2>1. Shown(g)' = Shown(g)
    BY <1>9 DEF Shown
  <2>2. <<"Resume", g>> \notin Range(Sent(sent, "appToBtm")) /\ "persistToBtm" # "appToBtm"
    BY <1>14
  <2>3. CASE g # h
    <3>1. <<"Added", g>> # e /\ <<"Added", g>> # Head(q["persistToBtm"])
      BY <1>4, <1>5, <2>3
    <3>2. \A k \in DOMAIN Marks : /\ <<Marks[k], g>> \notin Range(Sent(sent, k))
                                  /\ k = "persistToBtm" => Head(q[k]) # <<Marks[k], g>>
      BY <1>2, <1>14, <3>1
    <3>3. QED
      BY <1>2, <1>3, <1>9, <1>13, <1>15, <1>16, <2>1, <2>2, <3>2, OthersStay
  <2>4. CASE g = h
    <3>1. Head(q["persistToBtm"]) = <<Marks["persistToBtm"], g>>
      BY <1>2, <1>4, <2>4
    <3>2. ASSUME NEW k \in DOMAIN Marks \ {"persistToBtm"}
          PROVE  \/ <<Marks[k], g>> \notin Range(Sent(sent, k))
                 \/ k = "btmToApp" /\ Sent(sent, k) = << <<Marks[k], g>> >> /\ <<Marks[k], g>> \in EventsOf(k)
      <4>1. CASE k # "btmToApp"
        BY <1>14, <4>1
      <4>2. CASE k = "btmToApp"
        <5>1. <<Marks[k], g>> = e /\ Sent(sent, k) = <<e>> /\ e \in EventsOf(k)
          BY <1>2, <1>5, <1>15, <2>4, <4>2
        <5>2. QED
          BY <4>2, <5>1
      <4>3. QED
        BY <4>1, <4>2
    <3>3. g \in torrentIds'
      <4>1. AtMostOnce(q["persistToBtm"], <<Marks["persistToBtm"], g>>)
        BY <1>2, <1>16 DEF OneLife
      <4>2. Carries("persistToBtm", g)
        BY <1>2, <1>3, <1>13, <3>1, <4>1, MarkGoes
      <4>3. QED
        BY <1>2, <1>9, <1>16, <4>2 DEF OneLife, Places
    <3>4. OneLife(g)' /\ Shown(g) = {}
      <4>1. "btmToApp" # "persistToBtm" /\ "persistToBtm" \in DOMAIN Marks /\ QueuesTyped /\ Shown(g)' \subseteq Shown(g)
        BY <1>2, <2>1
      <4>2. PassedOn("persistToBtm", "btmToApp", g, sent)
        BY <1>3, <1>13, <1>15, <3>1, <3>2, <3>3 DEF PassedOn
      <4>3. QED
        BY <1>16, <4>1, <4>2, Passes
    <3>5. Resumable(q'["appToBtm"], DOMAIN torrents', g)
      <4>1. "appToBtm" \in Channels /\ Resumable(q["appToBtm"], DOMAIN torrents, g)
        BY <1>16 DEF KnownFirst, Channels
      <4>2. QED
        BY <1>2, <1>9, <1>13, <2>2, <4>1, KnownStays
    <3>6. KnownFirst(g)'
      BY <2>1, <3>4, <3>5 DEF KnownFirst
    <3>7. QED
      BY <3>4, <3>6
  <2>5. QED
    BY <2>3, <2>4
<1>17. Lives'
  BY <1>9, <1>16 DEF Inv, Lives, Early
<1>18. QED
  BY <1>10, <1>11, <1>12, <1>17 DEF Inv, Typed

(* ProcessRemove: the torrent's removal goes on, and no resume is left. *)
LEMMA RemoveStep ==
  ASSUME Inv, ProcessRemove
  PROVE  Inv'
<1>1. Takes("btm", "appToBtm", "Remove")
  BY DEF ProcessRemove
<1>2. /\ "appToBtm" \in Channels \ Loading /\ "btmToApp" \in Channels \ Loading
      /\ "btmToPersist" \in Channels \ Loading /\ QueuesTyped /\ Exits
      /\ "appToBtm" \in DOMAIN Marks /\ "btmToPersist" \in DOMAIN Marks
      /\ Marks["appToBtm"] = "Remove" /\ Marks["btmToPersist"] = "Remove"
  BY Names, PlacesAre DEF Inv, Typed
<1>3. /\ q["appToBtm"] # <<>> /\ Event("appToBtm") = Head(q["appToBtm"]) /\ "btm" \in active
      /\ Event("appToBtm") \in EventsOf("appToBtm") /\ Event("appToBtm")[1] = "Remove"
  BY <1>1, <1>2, Taken
<1>4. PICK h \in Hashes : Event("appToBtm") = <<"Remove", h>>
  BY <1>3, Shapes
<1>5. Event("appToBtm")[2] = h /\ Head(q["appToBtm"]) = <<"Remove", h>>
  BY <1>3, <1>4
<1>6. PICK e \in EventsOf("btmToPersist") : e = <<"Remove", h>>
  BY Made
<1>7. PICK f \in EventsOf("btmToApp") : f = <<"Removed", h>>
  BY Made
<1>8. PICK sent : sent = [btmToPersist |-> <<e>>, btmToApp |-> <<f>>]
  OBVIOUS
<1>9. DOMAIN sent = {"btmToPersist", "btmToApp"} /\ sent["btmToPersist"] = <<e>> /\ sent["btmToApp"] = <<f>>
  BY <1>8
<1>10. Step("appToBtm", sent)
  <2>1. Answers("appToBtm", sent)
    BY <1>5, <1>6, <1>7, <1>8 DEF ProcessRemove
  <2>2. "appToBtm" \notin DOMAIN sent
    BY <1>9
  <2>3. QED
    BY <1>2, <1>3, <1>9, <2>1, <2>2 DEF Step
<1>11. active' = active /\ idTorrentMap' = idTorrentMap /\ hashToIdMap' = hashToIdMap /\ idCounter' = idCounter
       /\ db' = db /\ torrentIds' = torrentIds
  BY DEF ProcessRemove, appVars, persistVars
<1>12. DOMAIN torrents' = DOMAIN torrents \ {h} /\ history \subseteq history'
  BY <1>5 DEF ProcessRemove, Without, Note
<1>13. QueuesTyped'
  BY <1>2, <1>9, <1>10, QueuesStep
<1>14. Exits'
  <2>1. e # <<"Shutdown">>
    BY <1>6
  <2>2. \A d \in {"btmToDisk", "btmToPersist"} :
             /\ d \in DOMAIN sent => sent[d] # << <<"Shutdown">> >> /\ "btm" \in active
             /\ d = "appToBtm" => Head(q[d]) # <<"Shutdown">>
    BY <1>3, <1>9, <2>1
  <2>3. QED
    BY <1>2, <1>10, <1>11, <2>2, ExitsStay
<1>15. EntriesTyped'
  BY <1>11 DEF Inv, Typed, EntriesTyped
<1>16. /\ Moved("appToBtm", sent) /\ \A d \in Channels : Sent(sent, d) \in Seq(EventsOf(d))
       /\ \A d : d \notin DOMAIN sent => Sent(sent, d) = <<>>
       /\ \A d, x : x \in Range(Sent(sent, d)) => d \in DOMAIN sent /\ sent[d] = <<x>>
  BY <1>2, <1>10, StepMoves
<1>17. \A d, x : x \in Range(Sent(sent, d)) => (d = "btmToPersist" /\ x = e) \/ (d = "btmToApp" /\ x = f)
  BY <1>9, <1>16
<1>18. (\A d \in Loading : Sent(sent, d) = <<>>) /\ Sent(sent, "btmToPersist") = <<e>>
  BY <1>2, <1>9, <1>16 DEF Sent
<1>19. ASSUME NEW g \in Torrents, OneLife(g), KnownFirst(g) PROVE OneLife(g)' /\ KnownFirst(g)'
  <2>1. Shown(g)' = Shown(g)
    BY <1>11 DEF Shown
  <2>2. <<"Added", g>> # f /\ <<"Remove", g>> # f /\ <<"Added", g>> # e
    BY <1>6, <1>7
  <2>3. <<"Resume", g>> \notin Range(Sent(sent, "appToBtm"))
    BY <1>17
  <2>4. CASE g # h
    <3>1. <<"Remove", g>> # e /\ <<"Remove", g>> # Head(q["appToBtm"]) /\ <<"Start", g>> # Head(q["appToBtm"])
      BY <1>5, <1>6, <2>4
    <3>2. \A k \in DOMAIN Marks : Marks[k] \in {"Added", "Remove"}
      BY PlacesAre
    <3>3. \A k \in DOMAIN Marks : /\ <<Marks[k], g>> \notin Range(Sent(sent, k))
                                  /\ k = "appToBtm" => Head(q[k]) # <<Marks[k], g>>
      BY <1>2, <1>17, <2>2, <3>1, <3>2
    <3>4. QED
      BY <1>2, <1>3, <1>11, <1>12, <1>16, <1>18, <1>19, <2>1, <2>3, <2>4, <3>1, <3>3, OthersStay
  <2>5. CASE g = h
    <3>1. Head(q["appToBtm"]) = <<Marks["appToBtm"], g>>
      BY <1>2, <1>5, <2>5
    <3>2. ASSUME NEW k \in DOMAIN Marks \ {"appToBtm"}
          PROVE  \/ <<Marks[k], g>> \notin Range(Sent(sent, k))
                 \/ k = "btmToPersist" /\ Sent(sent, k) = << <<Marks[k], g>> >> /\ <<Marks[k], g>> \in EventsOf(k)
      <4>1. CASE k # "btmToPersist"
        <5>1. Marks[k] \in {"Added", "Remove"}
          BY PlacesAre
        <5>2. QED
          BY <1>17, <2>2, <4>1, <5>1
      <4>2. CASE k = "btmToPersist"
        <5>1. <<Marks[k], g>> = e /\ Sent(sent, k) = <<e>> /\ e \in EventsOf(k)
          BY <1>2, <1>6, <1>18, <2>5, <4>2
        <5>2. QED
          BY <4>2, <5>1
      <4>3. QED
        BY <4>1, <4>2
    <3>3. g \in torrentIds'
      <4>1. AtMostOnce(q["appToBtm"], <<Marks["appToBtm"], g>>)
        BY <1>2, <1>19 DEF OneLife
      <4>2. Carries("appToBtm", g)
        BY <1>2, <1>3, <1>16, <3>1, <4>1, MarkGoes
      <4>3. QED
        BY <1>2, <1>11, <1>19, <4>2 DEF OneLife, Places
    <3>4. OneLife(g)' /\ Shown(g) = {}
      <4>1. "btmToPersist" # "appToBtm" /\ "appToBtm" \in DOMAIN Marks /\ QueuesTyped /\ Shown(g)' \subseteq Shown(g)
        BY <1>2, <2>1
      <4>2. PassedOn("appToBtm", "btmToPersist", g, sent)
        BY <1>3, <1>16, <1>18, <3>1, <3>2, <3>3 DEF PassedOn
      <4>3. QED
        BY <1>19, <4>1, <4>2, Passes
    <3>5. Resumable(q'["appToBtm"], DOMAIN torrents', g)
      <4>1. q["appToBtm"] \in Seq(EventsOf("appToBtm")) /\ Resumable(q["appToBtm"], DOMAIN torrents, g)
        BY <1>2, <1>19 DEF KnownFirst, QueuesTyped
      <4>2. q'["appToBtm"] = Tail(q["appToBtm"]) /\ Head(q["appToBtm"]) = <<"Remove", g>>
        BY <1>2, <1>5, <1>16, <2>5 DEF Moved
      <4>3. Resumable(Tail(q["appToBtm"]), DOMAIN torrents', g)
        BY <1>3, <4>1, <4>2, ResumableRemove
      <4>4. QED
        BY <4>2, <4>3
    <3>6. KnownFirst(g)'
      BY <2>1, <3>4, <3>5 DEF KnownFirst
    <3>7. QED
      BY <3>4, <3>6
  <2>6. QED
    BY <2>4, <2>5
<1>20. Lives'
  BY <1>12, <1>19 DEF Inv, Lives, Early
<1>21. QED
  BY <1>13, <1>14, <1>15, <1>20 DEF Inv, Typed

(* PersistRemove: the torrent's life ends. *)
LEMMA PersistRemoveStep ==
  ASSUME Inv, PersistRemove
  PROVE  Inv'
<1>1. Takes("persist", "btmToPersist", "Remove")
  BY DEF PersistRemove
<1>2. /\ "btmToPersist" \in Channels \ Loading /\ "btmToPersist" \in DOMAIN Marks
      /\ Marks["btmToPersist"] = "Remove" /\ QueuesTyped /\ Exits /\ "btmToPersist" # "appToBtm"
  BY Names, PlacesAre DEF Inv, Typed
<1>3. /\ q["btmToPersist"] # <<>> /\ Event("btmToPersist") = Head(q["btmToPersist"])
      /\ Event("btmToPersist") \in EventsOf("btmToPersist") /\ Event("btmToPersist")[1] = "Remove"
  BY <1>1, <1>2, Taken
<1>4. PICK h \in Hashes : Event("btmToPersist") = <<"Remove", h>>
  BY <1>3, Shapes
<1>5. Event("btmToPersist")[2] = h /\ Head(q["btmToPersist"]) = <<"Remove", h>>
  BY <1>3, <1>4
<1>6. DOMAIN Nothing = {}
  BY Records
<1>7. Step("btmToPersist", Nothing)
  BY <1>2, <1>3, <1>6 DEF Step, PersistRemove
<1>8. active' = active /\ idTorrentMap' = idTorrentMap /\ hashToIdMap' = hashToIdMap /\ idCounter' = idCounter
      /\ torrents' = torrents /\ history' = history
  BY DEF PersistRemove, appVars, btmVars
<1>9. DOMAIN db' \in {DOMAIN db, DOMAIN db \ {h}} /\ torrentIds' = torrentIds \ {h}
  BY <1>5 DEF PersistRemove, Without
<1>10. QueuesTyped'
  BY <1>2, <1>6, <1>7, QueuesStep
<1>11. Exits'
  <2>1. \A d \in {"btmToDisk", "btmToPersist"} :
             /\ d \in DOMAIN Nothing => Nothing[d] # << <<"Shutdown">> >> /\ "btm" \in active
             /\ d = "btmToPersist" => Head(q[d]) # <<"Shutdown">>
    BY <1>5, <1>6
  <2>2. QED
    BY <1>2, <1>7, <1>8, <2>1, ExitsStay
<1>12. EntriesTyped'
  <2>1. IsFiniteSet(DOMAIN db) /\ EntriesTyped
    BY DEF Inv, Typed, EntriesTyped
  <2>2. IsFiniteSet(DOMAIN db \ {h})
    BY <2>1, FS_RemoveElement
  <2>3. IsFiniteSet(DOMAIN db')
    BY <1>9, <2>1, <2>2
  <2>4. QED
    BY <1>8, <1>9, <2>1, <2>3 DEF EntriesTyped
<1>13. /\ Moved("btmToPersist", Nothing) /\ \A d \in Channels : Sent(Nothing, d) \in Seq(EventsOf(d))
       /\ \A d : Sent(Nothing, d) = <<>>
       /\ \A d, x : x \notin Range(Sent(Nothing, d))
  BY <1>2, <1>6, <1>7, StepMoves
<1>14. ASSUME NEW g \in Torrents, OneLife(g), KnownFirst(g) PROVE OneLife(g)' /\ KnownFirst(g)'
  <2>1. Shown(g)' = Shown(g)
    BY <1>8 DEF Shown
  <2>2. CASE g # h
    <3>1. <<"Remove", g>> # Head(q["btmToPersist"]) /\ (g \in torrentIds' <=> g \in torrentIds)
      BY <1>5, <1>9, <2>2
    <3>2. \A k \in DOMAIN Marks : /\ <<Marks[k], g>> \notin Range(Sent(Nothing, k))
                                  /\ k = "btmToPersist" => Head(q[k]) # <<Marks[k], g>>
      BY <1>2, <1>13, <3>1
    <3>3. QED
      BY <1>2, <1>3, <1>8, <1>13, <1>14, <2>1, <3>1, <3>2, OthersStay
  <2>3. CASE g = h
    <3>1. Head(q["btmToPersist"]) = <<Marks["btmToPersist"], g>>
      BY <1>2, <1>5, <2>3
    <3>2. None # "btmToPersist" /\ None \notin Places
      BY PlacesAre DEF None, Places
    <3>3. OneLife(g)'
      <4>1. PassedOn("btmToPersist", None, g, Nothing)
        BY <1>3, <1>13, <3>1, <3>2 DEF PassedOn
      <4>2. QED
        BY <1>2, <1>14, <2>1, <3>2, <4>1, Passes
    <3>4. Resumable(q["appToBtm"], DOMAIN torrents, g) /\ "appToBtm" \in Channels
          /\ (Shown(g) # {} => Startable(q["appToBtm"], DOMAIN torrents, g))
      BY <1>14 DEF KnownFirst, Channels
    <3>5. Resumable(q'["appToBtm"], DOMAIN torrents', g)
          /\ (Startable(q["appToBtm"], DOMAIN torrents, g) => Startable(q'["appToBtm"], DOMAIN torrents', g))
      BY <1>2, <1>8, <1>13, <3>4, KnownStays
    <3>6. KnownFirst(g)'
      BY <2>1, <3>4, <3>5 DEF KnownFirst
    <3>7. QED
      BY <3>3, <3>6
  <2>4. QED
    BY <2>2, <2>3
<1>15. Lives'
  BY <1>8, <1>14 DEF Inv, Lives, Early
<1>16. QED
  BY <1>10, <1>11, <1>12, <1>15 DEF Inv, Typed

(* A life begins. *)
LEMMA LifeBegins ==
  ASSUME NEW h, OneLife(h), h \notin torrentIds, NEW l,
         \A m \in Places \ {l} : Carries(m, h)' => Carries(m, h), \A i, j \in Shown(h)' : i = j,
         \A m \in DOMAIN Marks : AtMostOnce(q'[m], <<Marks[m], h>>),
         h \in torrentIds', q'["appToPersist"] = <<>>
  PROVE  OneLife(h)'
<1>1. \A m \in Places : ~Carries(m, h)
  BY DEF OneLife
<1>2. \A m \in Places : Carries(m, h)' => m = l
  BY <1>1
<1>3. QED
  BY <1>2 DEF OneLife, Places, Marks

(* PersistAdd of a torrent that is new. *)
LEMMA PersistAddStep ==
  ASSUME Inv, PersistAdd, Event("btmToPersist")[2] \notin torrentIds
  PROVE  Inv'
<1>1. Takes("persist", "btmToPersist", "AddTorrent")
  BY DEF PersistAdd
<1>2. /\ "btmToPersist" \in Channels \ Loading /\ "persistToBtm" \in Channels \ Loading
      /\ "persistToBtm" \in DOMAIN Marks /\ Marks["persistToBtm"] = "Added" /\ Marks["btmToPersist"] = "Remove"
      /\ QueuesTyped /\ Exits /\ "btmToPersist" # "appToBtm" /\ "btmToPersist" # "persistToBtm"
  BY Names, PlacesAre DEF Inv, Typed
<1>3. /\ q["btmToPersist"] # <<>> /\ Event("btmToPersist") = Head(q["btmToPersist"])
      /\ Event("btmToPersist") \in EventsOf("btmToPersist") /\ Event("btmToPersist")[1] = "AddTorrent"
  BY <1>1, <1>2, Taken
<1>4. PICK h \in Hashes : Event("btmToPersist") = <<"AddTorrent", h>>
  BY <1>3, Shapes
<1>5. Event("btmToPersist")[2] = h /\ Head(q["btmToPersist"]) = <<"AddTorrent", h>>
  BY <1>3, <1>4
<1>6. PICK e \in EventsOf("persistToBtm") : e = <<"Added", h>>
  BY Made
<1>7. PICK sent : sent = [persistToBtm |-> <<e>>]
  OBVIOUS
<1>8. DOMAIN sent = {"persistToBtm"} /\ sent["persistToBtm"] = <<e>>
  BY <1>7, Records
<1>9. /\ h \notin torrentIds /\ torrentIds' = torrentIds \cup {h} /\ db' = With(db, h, {})
      /\ Answers("btmToPersist", sent)
      /\ IF q["appToPersist"] # <<>> THEN Note("early", h) ELSE UNCHANGED history
  BY <1>5, <1>6, <1>7 DEF PersistAdd
<1>10. Step("btmToPersist", sent)
  BY <1>2, <1>3, <1>8, <1>9 DEF Step
<1>11. active' = active /\ idTorrentMap' = idTorrentMap /\ hashToIdMap' = hashToIdMap /\ idCounter' = idCounter
       /\ torrents' = torrents
  BY DEF PersistAdd, appVars, btmVars
<1>12. QueuesTyped'
  BY <1>2, <1>8, <1>10, QueuesStep
<1>13. Exits'
  <2>1. \A d \in {"btmToDisk", "btmToPersist"} :
             /\ d \in DOMAIN sent => sent[d] # << <<"Shutdown">> >> /\ "btm" \in active
             /\ d = "btmToPersist" => Head(q[d]) # <<"Shutdown">>
    BY <1>5, <1>8
  <2>2. QED
    BY <1>2, <1>10, <1>11, <2>1, ExitsStay
<1>14. EntriesTyped'
  <2>1. IsFiniteSet(DOMAIN db) /\ EntriesTyped
    BY DEF Inv, Typed, EntriesTyped
  <2>2. IsFiniteSet(DOMAIN db \cup {h})
    BY <2>1, FS_AddElement
  <2>3. DOMAIN db' = DOMAIN db \cup {h}
    BY <1>9 DEF With
  <2>4. IsFiniteSet(DOMAIN db') /\ DOMAIN db' \subseteq Hashes
    BY <2>1, <2>2, <2>3 DEF EntriesTyped
  <2>5. QED
    BY <1>11, <2>1, <2>4 DEF EntriesTyped
<1>15. /\ Moved("btmToPersist", sent) /\ \A d \in Channels : Sent(sent, d) \in Seq(EventsOf(d))
       /\ \A d : d \notin DOMAIN sent => Sent(sent, d) = <<>>
       /\ \A d, x : x \in Range(Sent(sent, d)) => d \in DOMAIN sent /\ sent[d] = <<x>>
  BY <1>2, <1>10, StepMoves
<1>16. \A d, x : x \in Range(Sent(sent, d)) => d = "persistToBtm" /\ x = e
  BY <1>8, <1>15
<1>17. (\A d \in Loading : Sent(sent, d) = <<>>) /\ Sent(sent, "persistToBtm") = <<e>>
  BY <1>2, <1>8, <1>15 DEF Sent
<1>18. history \subseteq history' /\ (q["appToPersist"] # <<>> => Early(h)')
  BY <1>9 DEF Note, Early
<1>19. ASSUME NEW g \in Torrents, OneLife(g), KnownFirst(g) PROVE Early(g)' \/ (OneLife(g)' /\ KnownFirst(g)')
  <2>1. Shown(g)' = Shown(g)
    BY <1>11 DEF Shown
  <2>2. <<"Resume", g>> \notin Range(Sent(sent, "appToBtm"))
    BY <1>16
  <2>3. \A k \in DOMAIN Marks : k = "btmToPersist" => Head(q[k]) # <<Marks[k], g>>
    BY <1>2, <1>5
  <2>4. CASE g # h
    <3>1. <<"Added", g>> # e /\ (g \in torrentIds' <=> g \in torrentIds)
      BY <1>6, <1>9, <2>4
    <3>2. \A k \in DOMAIN Marks : /\ <<Marks[k], g>> \notin Range(Sent(sent, k))
                                  /\ k = "btmToPersist" => Head(q[k]) # <<Marks[k], g>>
      BY <1>2, <1>16, <2>3, <3>1
    <3>3. QED
      BY <1>2, <1>3, <1>11, <1>15, <1>17, <1>19, <2>1, <2>2, <3>1, <3>2, OthersStay
  <2>5. CASE g = h /\ q["appToPersist"] = <<>>
    <3>1. g \notin torrentIds /\ g \in torrentIds'
      BY <1>9, <2>5
    <3>2. ~Carries("persistToBtm", g)
      BY <1>2, <1>19, <3>1 DEF OneLife, Places
    <3>3. ASSUME NEW k \in DOMAIN Marks
          PROVE  (k # "persistToBtm" => (Carries(k, g)' => Carries(k, g))) /\ AtMostOnce(q'[k], <<Marks[k], g>>)
      <4>1. k \in Channels /\ AtMostOnce(q[k], <<Marks[k], g>>)
        BY <1>19, PlacesAre DEF OneLife
      <4>2. CASE k # "persistToBtm"
        <5>1. <<Marks[k], g>> \notin Range(Sent(sent, k)) /\ (k = "btmToPersist" => Head(q[k]) # <<Marks[k], g>>)
          BY <1>16, <2>3, <4>2
        <5>2. QED
          BY <1>2, <1>3, <1>15, <4>1, <5>1, MarkStays
      <4>3. CASE k = "persistToBtm"
        <5>1. <<Marks[k], g>> = e /\ Sent(sent, k) = <<e>> /\ e \in EventsOf(k) /\ "btmToPersist" # k
          BY <1>2, <1>6, <1>17, <2>5, <4>3
        <5>2. QED
          BY <1>2, <1>15, <3>2, <4>3, <5>1, MarkComes
      <4>4. QED
        BY <4>2, <4>3
    <3>4. ASSUME NEW d \in Loading PROVE q'[d] = q[d]
      BY <1>2, <1>15, <1>17, PlacesAre, Untouched
    <3>5. q'["persistToApp"] = q["persistToApp"] /\ q'["appToPersist"] = <<>>
      BY <2>5, <3>4 DEF Loading
    <3>6. (Carries("persistToApp", g)' <=> Carries("persistToApp", g)) /\ (Carries("entry", g)' <=> Carries("entry", g))
      BY <2>1, <3>5, CarriesWhat
    <3>7. \A m \in Places \ {"persistToBtm"} : Carries(m, g)' => Carries(m, g)
      BY <3>3, <3>6 DEF Places
    <3>8. \A i, j \in Shown(g)' : i = j
      BY <1>19, <2>1 DEF OneLife
    <3>9. OneLife(g)'
      BY <1>19, <3>1, <3>3, <3>5, <3>7, <3>8, LifeBegins
    <3>10. Resumable(q["appToBtm"], DOMAIN torrents, g) /\ "appToBtm" \in Channels
           /\ (Shown(g) # {} => Startable(q["appToBtm"], DOMAIN torrents, g))
      BY <1>19 DEF KnownFirst, Channels
    <3>11. Resumable(q'["appToBtm"], DOMAIN torrents', g)
           /\ (Startable(q["appToBtm"], DOMAIN torrents, g) => Startable(q'["appToBtm"], DOMAIN torrents', g))
      BY <1>2, <1>11, <1>15, <2>2, <3>10, KnownStays
    <3>12. KnownFirst(g)'
      BY <2>1, <3>10, <3>11 DEF KnownFirst
    <3>13. QED
      BY <3>9, <3>12
  <2>6. CASE g = h /\ q["appToPersist"] # <<>>
    BY <1>18, <2>6
  <2>7. QED
    BY <2>4, <2>5, <2>6
<1>20. \A g \in Torrents : Early(g) => Early(g)'
  BY <1>18 DEF Early
<1>21. Lives'
  BY <1>19, <1>20 DEF Inv, Lives
<1>22. QED
  BY <1>12, <1>13, <1>14, <1>21 DEF Inv, Typed

(* PersistLoadTorrents: the torrents of the database begin their lives. *)
LEMMA LoadTorrentsStep ==
  ASSUME Inv, PersistLoadTorrents
  PROVE  Inv'
<1>1. Takes("persist", "appToPersist", "LoadTorrents")
  BY DEF PersistLoadTorrents
<1>2. /\ "appToPersist" \in Channels /\ "persistToApp" \in Channels /\ QueuesTyped /\ Exits /\ EntriesTyped
      /\ "appToPersist" # "persistToApp"
  BY DEF Channels, Inv, Typed
<1>3. q["appToPersist"] # <<>>
  BY <1>1, <1>2, Taken
<1>4. Tail(q["appToPersist"]) = <<>> /\ q["persistToApp"] = <<>>
  BY <1>2, <1>3 DEF QueuesTyped
<1>5. PICK S \in SUBSET Hashes : S = DOMAIN db /\ IsFiniteSet(S)
  BY <1>2 DEF EntriesTyped
<1>6. PICK e \in EventsOf("persistToApp") : e = <<"AllTorrents", S>>
  BY <1>5, Made
<1>7. PICK sent : sent = [persistToApp |-> <<e>>]
  OBVIOUS
<1>8. DOMAIN sent = {"persistToApp"} /\ sent["persistToApp"] = <<e>>
  BY <1>7
<1>9. Answers("appToPersist", sent) /\ torrentIds' = torrentIds \cup S
  BY <1>5, <1>6, <1>7 DEF PersistLoadTorrents
<1>10. Step("appToPersist", sent)
  BY <1>2, <1>3, <1>8, <1>9 DEF Step
<1>11. /\ q' = [d \in Channels |-> q'[d]] /\ Moved("appToPersist", sent)
       /\ \A d \in Channels : Sent(sent, d) \in Seq(EventsOf(d))
       /\ \A d : d \notin DOMAIN sent => Sent(sent, d) = <<>>
  BY <1>2, <1>10, StepMoves
<1>12. active' = active /\ idTorrentMap' = idTorrentMap /\ hashToIdMap' = hashToIdMap /\ idCounter' = idCounter
       /\ torrents' = torrents /\ history' = history /\ db' = db
  BY DEF PersistLoadTorrents, appVars, btmVars
<1>13. \A d \in Channels \ Loading : q'[d] = q[d]
  <2>1. ASSUME NEW d \in Channels \ Loading PROVE q'[d] = q[d]
    <3>1. d # "appToPersist" /\ Sent(sent, d) = <<>>
      BY <1>8, <1>11 DEF Loading
    <3>2. QED
      BY <1>2, <1>11, <3>1, Untouched
  <2>2. QED
    BY <2>1
<1>14. q'["appToPersist"] = <<>> /\ q'["persistToApp"] = <<e>>
  <2>1. <<e>> \in Seq(EventsOf("persistToApp")) /\ <<>> \o <<e>> = <<e>>
    OBVIOUS
  <2>2. QED
    BY <1>2, <1>4, <1>8, <1>11, <2>1 DEF Moved, Sent
<1>15. QueuesTyped'
  <2>1. /\ <<>> \in Seq(EventsOf("appToPersist")) /\ <<e>> \in Seq(EventsOf("persistToApp")) /\ Tail(<<e>>) = <<>>
    OBVIOUS
  <2>2. \A d \in Channels : q'[d] \in Seq(EventsOf(d))
    BY <1>2, <1>13, <1>14, <2>1 DEF QueuesTyped, Loading
  <2>3. QED
    BY <1>11, <1>14, <2>1, <2>2 DEF QueuesTyped
<1>16. Exits'
  <2>1. q'["btmToDisk"] = q["btmToDisk"] /\ q'["btmToPersist"] = q["btmToPersist"]
    BY <1>13, Names
  <2>2. QED
    BY <1>2, <1>12, <2>1 DEF Exits, Stops
<1>17. EntriesTyped'
  BY <1>2, <1>12 DEF EntriesTyped
<1>18. ASSUME NEW g \in Torrents, OneLife(g), KnownFirst(g) PROVE OneLife(g)' /\ KnownFirst(g)'
  <2>1. Shown(g)' = Shown(g)
    BY <1>12 DEF Shown
  <2>2. g \notin torrentIds
    BY <1>3, <1>18 DEF OneLife
  <2>3. KnownFirst(g)'
    <3>1. q'["appToBtm"] = q["appToBtm"]
      BY <1>13, Names
    <3>2. QED
      BY <1>12, <1>18, <2>1, <3>1 DEF KnownFirst
  <2>4. \A k \in DOMAIN Marks : q'[k] = q[k]
    BY <1>13, PlacesAre
  <2>5. \A k \in DOMAIN Marks : (Carries(k, g)' <=> Carries(k, g)) /\ AtMostOnce(q'[k], <<Marks[k], g>>)
    BY <1>18, <2>4, CarriesWhat DEF OneLife
  <2>6. Carries("entry", g)' <=> Carries("entry", g)
    BY <2>1, CarriesWhat
  <2>7. \A i, j \in Shown(g)' : i = j
    BY <1>18, <2>1 DEF OneLife
  <2>8. \A m \in Places \ {"persistToApp"} : Carries(m, g)' => Carries(m, g)
    BY <2>5, <2>6 DEF Places
  <2>9. Carries("persistToApp", g)' <=> g \in S
    <3>1. \A x : x \in Range(<<e>>) <=> x = e
      BY Single
    <3>2. e[2] = S
      BY <1>6
    <3>3. QED
      BY <1>14, <3>1, <3>2, CarriesWhat
  <2>10. CASE g \in S
    <3>1. g \in torrentIds'
      BY <1>9, <2>10
    <3>2. QED
      BY <1>14, <1>18, <2>2, <2>3, <2>5, <2>7, <2>8, <3>1, LifeBegins
  <2>11. CASE g \notin S
    <3>1. g \in torrentIds' <=> g \in torrentIds
      BY <1>9, <2>11
    <3>2. \A m \in Places : Carries(m, g)' => Carries(m, g)
      BY <2>8, <2>9, <2>11
    <3>3. OneLife(g)'
      BY <1>14, <1>18, <2>1, <2>5, <3>1, <3>2, LifeStays
    <3>4. QED
      BY <2>3, <3>3
  <2>12. QED
    BY <2>10, <2>11
<1>19. Lives'
  BY <1>12, <1>18 DEF Inv, Lives, Early
<1>20. QED
  BY <1>15, <1>16, <1>17, <1>19 DEF Inv, Typed

(* A life that no event of a step is about. *)
LEMMA ShutdownLives ==
  ASSUME Inv, NEW c \in Channels \ Loading, NEW sent, Step(c, sent), Head(q[c]) = <<"Shutdown">>,
         \A d \in DOMAIN sent : sent[d] = << <<"Shutdown">> >>, DOMAIN sent \cap Loading = {},
         UNCHANGED <<appVars, btmVars, persistVars, history>>
  PROVE  Typed' /\ Lives'
<1>1. /\ idTorrentMap' = idTorrentMap /\ hashToIdMap' = hashToIdMap /\ idCounter' = idCounter
      /\ torrents' = torrents /\ history' = history /\ db' = db /\ torrentIds' = torrentIds
  BY DEF appVars, btmVars, persistVars
<1>2. QueuesTyped /\ EntriesTyped
  BY DEF Inv, Typed
<1>3. QueuesTyped'
  BY <1>2, QueuesStep
<1>4. EntriesTyped'
  BY <1>1, <1>2 DEF EntriesTyped
<1>5. /\ Moved(c, sent) /\ \A d \in Channels : Sent(sent, d) \in Seq(EventsOf(d))
      /\ c \in Channels => q[c] # <<>>
      /\ \A d : d \notin DOMAIN sent => Sent(sent, d) = <<>>
      /\ \A d, x : x \in Range(Sent(sent, d)) => d \in DOMAIN sent /\ sent[d] = <<x>>
  BY <1>2, StepMoves
<1>6. \A d, x : x \in Range(Sent(sent, d)) => x = <<"Shutdown">>
  BY <1>5
<1>7. ASSUME NEW g \in Torrents, OneLife(g), KnownFirst(g) PROVE OneLife(g)' /\ KnownFirst(g)'
  <2>1. Shown(g)' = Shown(g)
    BY <1>1 DEF Shown
  <2>2. \A t : <<t, g>> # <<"Shutdown">>
    OBVIOUS
  <2>3. \A k \in DOMAIN Marks : /\ <<Marks[k], g>> \notin Range(Sent(sent, k))
                                /\ k = c => Head(q[k]) # <<Marks[k], g>>
    BY <1>6, <2>2
  <2>4. <<"Resume", g>> \notin Range(Sent(sent, "appToBtm"))
        /\ ~(c = "appToBtm" /\ Head(q["appToBtm"]) = <<"Start", g>>)
    BY <1>6, <2>2
  <2>5. \A d \in Loading : Sent(sent, d) = <<>>
    BY <1>5
  <2>6. c \notin Loading
    OBVIOUS
  <2>7. QED
    BY <1>1, <1>2, <1>5, <1>7, <2>1, <2>3, <2>4, <2>5, <2>6, OthersStay
<1>8. Lives'
  BY <1>1, <1>7 DEF Inv, Lives, Early
<1>9. QED
  BY <1>3, <1>4, <1>8 DEF Typed

(* The Shutdown is sent behind the other events. *)
LEMMA StopsSent ==
  ASSUME QueuesTyped, NEW s, NEW d \in Channels, Stops(s, d), "btm" \in active, "btm" \notin active',
         s \in active => s \in active', q'[d] = q[d] \o << <<"Shutdown">> >>
  PROVE  Stops(s, d)'
<1> DEFINE w == q[d]
           v == q'[d]
           X == <<"Shutdown">>
           n == Len(w)
<1>1. w \in Seq(EventsOf(d)) /\ s \in active' /\ X \notin Range(w)
  BY DEF Stops, QueuesTyped
<1>2. v = w \o <<X>> /\ Len(<<X>>) = 1 /\ <<X>>[1] = X
  OBVIOUS
<1>3. \A i \in 1 .. n : w[i] # X
  BY <1>1, InRange
<1> HIDE DEF w, v, X
<1>4. Len(v) = n + 1 /\ n \in Nat /\ v[n + 1] = X /\ \A i \in 1 .. n : v[i] = w[i]
  BY <1>1, <1>2
<1>5. v # <<>>
  BY <1>4, EmptySeq
<1> HIDE DEF n
<1>6. ASSUME NEW i \in 1 .. n + 1 PROVE v[i] = X <=> i = n + 1
  <2>1. i \in 1 .. n \/ i = n + 1
    BY <1>4
  <2>2. i \in 1 .. n => i # n + 1
    BY <1>4
  <2>3. QED
    BY <1>3, <1>4, <2>1, <2>2
<1>7. QED
  BY <1>1, <1>4, <1>5, <1>6 DEF Stops, v, X

(* The Shutdown that is taken was the last event. *)
LEMMA StopsTaken ==
  ASSUME QueuesTyped, NEW s, NEW d \in Channels, Stops(s, d), s # "btm", s \in active, q[d] # <<>>,
         Head(q[d]) = <<"Shutdown">>, active' = active \ {s}, q'[d] = Tail(q[d])
  PROVE  Stops(s, d)' /\ "btm" \notin active
<1> DEFINE w == q[d]
           X == <<"Shutdown">>
           n == Len(w)
<1>1. w \in Seq(EventsOf(d)) /\ w # <<>> /\ Head(w) = X
  BY DEF QueuesTyped
<1>2. X \in Range(w)
  BY <1>1, Taking
<1>3. "btm" \notin active /\ \A i \in 1 .. n : w[i] = X <=> i = n
  BY <1>2 DEF Stops
<1> HIDE DEF w, X
<1>4. n \in Nat \ {0} /\ w[1] = X /\ Len(Tail(w)) = n - 1 /\ Tail(w) \in Seq(EventsOf(d))
  BY <1>1
<1>5. n = 1
  <2>1. 1 \in 1 .. n
    BY <1>4
  <2>2. QED
    BY <1>3, <1>4, <2>1
<1>6. Tail(w) = <<>>
  <2>1. Len(Tail(w)) = 0
    BY <1>4, <1>5
  <2>2. QED
    BY <1>4, <2>1, EmptySeq
<1>7. s \notin active' /\ "btm" \notin active' /\ q'[d] = <<>>
  BY <1>3, <1>6 DEF w
<1>8. QED
  BY <1>3, <1>7 DEF Stops

(* A queue that a step leaves alone. *)
LEMMA StopsSame ==
  ASSUME NEW s, NEW d, Stops(s, d), q'[d] = q[d], "btm" \in active' <=> "btm" \in active,
         s \in active' <=> s \in active
  PROVE  Stops(s, d)'
BY DEF Stops

(* BitTorrentManager ends. *)
LEMMA ProcessShutdownStep ==
  ASSUME Inv, ProcessShutdown
  PROVE  Inv'
<1>1. Takes("btm", "appToBtm", "Shutdown")
  BY DEF ProcessShutdown
<1>2. /\ "appToBtm" \in Channels \ Loading /\ "btmToDisk" \in Channels \ Loading
      /\ "btmToPersist" \in Channels \ Loading /\ QueuesTyped /\ Exits
  BY Names DEF Inv, Typed
<1>3. /\ q["appToBtm"] # <<>> /\ Event("appToBtm") = Head(q["appToBtm"]) /\ "btm" \in active
      /\ Event("appToBtm") \in EventsOf("appToBtm") /\ Event("appToBtm")[1] = "Shutdown"
  BY <1>1, <1>2, Taken
<1>4. Head(q["appToBtm"]) = <<"Shutdown">>
  BY <1>3, Shapes
<1>5. PICK e : e = <<"Shutdown">>
  OBVIOUS
<1>6. e \in EventsOf("btmToDisk") /\ e \in EventsOf("btmToPersist")
  BY <1>5, Made
<1>7. PICK sent : sent = [btmToPersist |-> <<e>>, btmToDisk |-> <<e>>]
  OBVIOUS
<1>8. DOMAIN sent = {"btmToPersist", "btmToDisk"} /\ sent["btmToPersist"] = <<e>> /\ sent["btmToDisk"] = <<e>>
  BY <1>7
<1>9. Step("appToBtm", sent)
  <2>1. Answers("appToBtm", sent)
    BY <1>5, <1>7 DEF ProcessShutdown
  <2>2. "appToBtm" \notin DOMAIN sent
    BY <1>8
  <2>3. QED
    BY <1>2, <1>3, <1>6, <1>8, <2>1, <2>2 DEF Step
<1>10. Typed' /\ Lives'
  <2>1. \A d \in DOMAIN sent : sent[d] = << <<"Shutdown">> >>
    BY <1>5, <1>8
  <2>2. DOMAIN sent \cap Loading = {}
    BY <1>2, <1>8
  <2>3. UNCHANGED <<appVars, btmVars, persistVars, history>>
    BY DEF ProcessShutdown
  <2>4. QED
    BY <1>2, <1>4, <1>9, <2>1, <2>2, <2>3, ShutdownLives
<1>11. Moved("appToBtm", sent)
  BY <1>2, <1>9, StepMoves
<1>12. \A d \in {"btmToDisk", "btmToPersist"} : q'[d] = q[d] \o << <<"Shutdown">> >>
  BY <1>2, <1>5, <1>8, <1>11 DEF Moved, Sent
<1>13. active' = active \ {"btm"}
  BY DEF ProcessShutdown
<1>14. Exits'
  <2>1. Stops("disk", "btmToDisk") /\ Stops("persist", "btmToPersist")
    BY <1>2 DEF Exits
  <2>2. Stops("disk", "btmToDisk")'
    BY <1>2, <1>3, <1>12, <1>13, <2>1, StopsSent
  <2>3. Stops("persist", "btmToPersist")'
    BY <1>2, <1>3, <1>12, <1>13, <2>1, StopsSent
  <2>4. QED
    BY <2>2, <2>3 DEF Exits
<1>15. QED
  BY <1>10, <1>14 DEF Inv

(* The disk service or the persist service ends. *)
LEMMA ServiceEnds ==
  ASSUME Inv, DiskShutdown \/ PersistShutdown
  PROVE  Inv'
<1>1. PICK s \in {"disk", "persist"}, c \in {"btmToDisk", "btmToPersist"} :
          /\ Takes(s, c, "Shutdown") /\ active' = active \ {s} /\ Answers(c, Nothing)
          /\ UNCHANGED <<appVars, btmVars, known, onDisk, persistVars, history, turns>>
          /\ s = "disk" <=> c = "btmToDisk"
  BY DEF DiskShutdown, PersistShutdown
<1>2. c \in Channels \ Loading /\ QueuesTyped /\ Exits /\ {"btmToDisk", "btmToPersist"} \subseteq Channels
  BY Names DEF Inv, Typed
<1>3. q[c] # <<>> /\ s \in active /\ Head(q[c]) \in EventsOf(c) /\ Head(q[c])[1] = "Shutdown"
  BY <1>1, <1>2, Taken
<1>4. Head(q[c]) = <<"Shutdown">>
  BY <1>3, Shapes
<1>5. DOMAIN Nothing = {}
  BY Records
<1>6. Step(c, Nothing)
  BY <1>1, <1>2, <1>3, <1>5 DEF Step
<1>7. Typed' /\ Lives'
  <2>1. (\A d \in DOMAIN Nothing : Nothing[d] = << <<"Shutdown">> >>) /\ DOMAIN Nothing \cap Loading = {}
    BY <1>5
  <2>2. UNCHANGED <<appVars, btmVars, persistVars, history>>
    BY <1>1
  <2>3. QED
    BY <1>2, <1>4, <1>6, <2>1, <2>2, ShutdownLives
<1>8. Moved(c, Nothing) /\ \A d : Sent(Nothing, d) = <<>>
  BY <1>2, <1>5, <1>6, StepMoves
<1>9. q'[c] = Tail(q[c]) /\ \A d \in {"btmToDisk", "btmToPersist"} \ {c} : q'[d] = q[d]
  BY <1>2, <1>8, Untouched DEF Moved
<1>10. s # "btm" /\ ("btm" \in active' <=> "btm" \in active)
  BY <1>1
<1>11. Stops("disk", "btmToDisk") /\ Stops("persist", "btmToPersist")
  BY <1>2 DEF Exits
<1>12. Stops(s, c)'
  BY <1>1, <1>2, <1>3, <1>4, <1>9, <1>10, <1>11, StopsTaken
<1>13. s = "disk" => Stops("persist", "btmToPersist")'
  BY <1>1, <1>9, <1>10, <1>11, StopsSame
<1>14. s = "persist" => Stops("disk", "btmToDisk")'
  BY <1>1, <1>9, <1>10, <1>11, StopsSame
<1>15. Exits'
  BY <1>1, <1>12, <1>13, <1>14 DEF Exits
<1>16. QED
  BY <1>7, <1>15 DEF Inv

(* A process that has just been started, or that has ended, has no events  *)
(* but the request to load, and knows no torrent.                          *)
Fresh ==
    /\ q = [c \in Channels |-> q[c]]
    /\ \A c \in Channels \ {"appToPersist"} : q[c] = <<>>
    /\ q["appToPersist"] = <<>> \/ q["appToPersist"] = << <<"LoadTorrents">> >>
    /\ active = Services \/ active = {}
    /\ idTorrentMap = Empty /\ hashToIdMap = Empty /\ idCounter = 0 /\ torrentIds = {}
    /\ DOMAIN db \subseteq Hashes /\ IsFiniteSet(DOMAIN db)

(* Such a process satisfies the invariant. *)
LEMMA FreshInv ==
  ASSUME Fresh
  PROVE  Inv
<1>1. /\ "appToPersist" \in Channels /\ "persistToApp" \in Channels \ {"appToPersist"}
      /\ {"btmToDisk", "btmToPersist", "appToBtm"} \subseteq Channels \ {"appToPersist"}
      /\ {"btm", "disk", "persist"} \subseteq Services
      /\ DOMAIN Marks \subseteq Channels \ {"appToPersist"}
  BY DEF Channels, Services, Marks
<1>2. QueuesTyped
  <2>0. \A S : <<>> \in Seq(S)
    OBVIOUS
  <2>1. \A c \in Channels \ {"appToPersist"} : q[c] \in Seq(EventsOf(c))
    BY <2>0 DEF Fresh
  <2>2. PICK e \in EventsOf("appToPersist") : e = <<"LoadTorrents">>
    BY Made
  <2>a. <<e>> \in Seq(EventsOf("appToPersist")) /\ Tail(<<e>>) = <<>>
    OBVIOUS
  <2>3. q["appToPersist"] \in Seq(EventsOf("appToPersist")) /\ Tail(<< <<"LoadTorrents">> >>) = <<>>
    BY <2>0, <2>2, <2>a DEF Fresh
  <2>4. q["persistToApp"] = <<>>
    BY <1>1 DEF Fresh
  <2>5. QED
    BY <2>1, <2>3, <2>4 DEF Fresh, QueuesTyped
<1>3. DOMAIN idTorrentMap = {} /\ DOMAIN hashToIdMap = {}
  BY DEF Fresh, Empty
<1>4. EntriesTyped
  BY <1>3 DEF Fresh, EntriesTyped
<1>5. Range(<<>>) = {} /\ Len(<<>>) = 0
  BY DEF Range
<1>6. Exits
  <2>1. q["btmToDisk"] = <<>> /\ q["btmToPersist"] = <<>>
    BY <1>1 DEF Fresh
  <2>2. QED
    BY <1>1, <1>5, <2>1 DEF Fresh, Exits, Stops
<1>7. ASSUME NEW h \in Torrents PROVE OneLife(h) /\ KnownFirst(h)
  <2>1. Shown(h) = {}
    BY <1>3 DEF Shown
  <2>2. \A k \in DOMAIN Marks : q[k] = <<>>
    BY <1>1 DEF Fresh
  <2>3. q["persistToApp"] = <<>> /\ q["appToBtm"] = <<>>
    BY <1>1 DEF Fresh
  <2>4. \A k \in Places : ~Carries(k, h)
    BY <1>5, <2>1, <2>2, <2>3, CarriesWhat DEF Places
  <2>5. \A k \in DOMAIN Marks : AtMostOnce(q[k], <<Marks[k], h>>)
    BY <1>5, <2>2 DEF AtMostOnce
  <2>6. h \notin torrentIds
    BY DEF Fresh
  <2>7. OneLife(h)
    BY <2>1, <2>4, <2>5, <2>6 DEF OneLife
  <2>8. KnownFirst(h)
    BY <1>5, <2>1, <2>3 DEF KnownFirst, Resumable
  <2>9. QED
    BY <2>7, <2>8
<1>8. QED
  BY <1>2, <1>4, <1>6, <1>7 DEF Inv, Typed, Lives

(* The start, the exception and every restart. *)
LEMMA Restarts ==
  /\ Init => Inv
  /\ Inv /\ (PersistThrows \/ Restart) => Inv'
<1>1. ASSUME Init PROVE Inv
  <2>1. DOMAIN db = {} /\ IsFiniteSet({})
    BY <1>1, FS_EmptySet DEF Init, Empty
  <2>2. Fresh
    BY <1>1, <2>1 DEF Init, Fresh, Started, Channels
  <2>3. QED
    BY <2>2, FreshInv
<1>2. ASSUME Inv, PersistThrows \/ Restart PROVE Inv'
  <2>1. DOMAIN db \subseteq Hashes /\ IsFiniteSet(DOMAIN db) /\ db' = db
    BY <1>2 DEF Inv, Typed, EntriesTyped, PersistThrows, Restart
  <2>2. Fresh'
    <3>1. CASE Restart
      BY <2>1, <3>1 DEF Fresh, Restart, MemoryLost, Started, Channels
    <3>2. CASE PersistThrows
      BY <2>1, <3>2 DEF Fresh, PersistThrows, MemoryLost, Channels
    <3>3. QED
      BY <1>2, <3>1, <3>2
  <2>3. Fresh' => Inv'
    BY FreshInv, PTL
  <2>4. QED
    BY <2>2, <2>3
<1>3. QED
  BY <1>1, <1>2

(* The entries that are made have ids of their own. *)
LEMMA Entries ==
  ASSUME EntriesTyped, NEW hashes \in Seq(Hashes),
         \A i, j \in 1 .. Len(hashes) : hashes[i] = hashes[j] => i = j, NEW c, NewEntries(c, hashes)
  PROVE  /\ EntriesTyped'
         /\ \A g : g \notin Range(hashes) => Shown(g)' = Shown(g)
         /\ \A g : Shown(g) = {} => \A i, j \in Shown(g)' : i = j
<1> DEFINE n == Len(hashes)
           N == idCounter
           ids == [i \in 1 .. n |-> N + i]
           id(h) == CHOOSE m \in Range(ids) : hashes[m - N] = h
<1>1. n \in Nat /\ N \in Nat /\ \A i \in 1 .. n : hashes[i] \in Hashes
  BY DEF EntriesTyped
<1>2. \A h : h \in Range(hashes) <=> \E i \in 1 .. n : hashes[i] = h
  BY InRange
<1>3. Range(ids) = N + 1 .. N + n
  <2>1. Range(ids) = {N + i : i \in 1 .. n}
    BY DEF Range
  <2> HIDE DEF ids, n, N
  <2>2. \A m : m \in N + 1 .. N + n <=> m \in {N + i : i \in 1 .. n}
    <3>1. ASSUME NEW m \in N + 1 .. N + n PROVE m \in {N + i : i \in 1 .. n}
      <4>1. m - N \in 1 .. n /\ m = N + (m - N)
        BY <1>1
      <4>2. QED
        BY <4>1
    <3>2. \A i \in 1 .. n : N + i \in N + 1 .. N + n
      BY <1>1
    <3>3. QED
      BY <3>1, <3>2
  <2>3. QED
    BY <2>1, <2>2
<1>4. /\ idCounter' = N + n
      /\ idTorrentMap' = [m \in DOMAIN idTorrentMap \cup Range(ids) |->
                             IF m \in Range(ids) THEN [hash |-> hashes[m - N], state |-> "Running"]
                             ELSE idTorrentMap[m]]
      /\ hashToIdMap' = [h \in DOMAIN hashToIdMap \cup Range(hashes) |->
                            IF h \in DOMAIN hashToIdMap THEN hashToIdMap[h] ELSE id(h)]
      /\ db' = db
  BY DEF NewEntries, persistVars
<1>5. ASSUME NEW h \in Range(hashes) PROVE id(h) \in N + 1 .. N + n
  <2>1. PICK i \in 1 .. n : hashes[i] = h
    BY <1>2
  <2>2. N + i \in N + 1 .. N + n /\ (N + i) - N = i
    BY <1>1
  <2>3. \E m \in Range(ids) : hashes[m - N] = h
    BY <1>3, <2>1, <2>2
  <2>4. QED
    BY <1>3, <2>3
<1> HIDE DEF ids, id
<1>6. /\ DOMAIN idTorrentMap' = DOMAIN idTorrentMap \cup (N + 1 .. N + n)
      /\ \A m \in DOMAIN idTorrentMap' :
            idTorrentMap'[m].hash = IF m \in N + 1 .. N + n THEN hashes[m - N] ELSE idTorrentMap[m].hash
      /\ DOMAIN hashToIdMap' = DOMAIN hashToIdMap \cup Range(hashes)
      /\ \A h \in DOMAIN hashToIdMap' :
            hashToIdMap'[h] = IF h \in DOMAIN hashToIdMap THEN hashToIdMap[h] ELSE id(h)
  BY <1>3, <1>4
<1>7. /\ DOMAIN idTorrentMap \subseteq 0 .. N
      /\ \A m \in DOMAIN idTorrentMap : idTorrentMap[m].hash \in Hashes
      /\ \A h \in DOMAIN hashToIdMap : hashToIdMap[h] \in 0 .. N
      /\ DOMAIN db \subseteq Hashes /\ IsFiniteSet(DOMAIN db)
  BY DEF EntriesTyped
<1>8. \A m \in N + 1 .. N + n : m - N \in 1 .. n /\ m \notin 0 .. N /\ m \in 0 .. N + n
  BY <1>1
<1>9. \A m \in 0 .. N : m \in 0 .. N + n
  BY <1>1
<1> HIDE DEF n, N
<1>10. EntriesTyped'
  <2>1. idCounter' \in Nat /\ DOMAIN idTorrentMap' \subseteq 0 .. idCounter'
    BY <1>1, <1>4, <1>6, <1>7, <1>8, <1>9
  <2>2. \A m \in DOMAIN idTorrentMap' : idTorrentMap'[m].hash \in Hashes
    BY <1>1, <1>6, <1>7, <1>8
  <2>3. \A h \in DOMAIN hashToIdMap' : hashToIdMap'[h] \in 0 .. idCounter'
    BY <1>4, <1>5, <1>6, <1>7, <1>8, <1>9
  <2>4. QED
    BY <1>4, <1>7, <2>1, <2>2, <2>3 DEF EntriesTyped
<1>11. \A g, m : m \in Shown(g)' <=> (m \in Shown(g) \/ (m \in N + 1 .. N + n /\ hashes[m - N] = g))
  <2>1. ASSUME NEW g, NEW m
        PROVE  m \in Shown(g)' <=> (m \in Shown(g) \/ (m \in N + 1 .. N + n /\ hashes[m - N] = g))
    <3>1. /\ m \in Shown(g)' <=> m \in DOMAIN idTorrentMap' /\ idTorrentMap'[m].hash = g
          /\ m \in Shown(g) <=> m \in DOMAIN idTorrentMap /\ idTorrentMap[m].hash = g
      BY DEF Shown
    <3>2. QED
      BY <1>6, <1>7, <1>8, <3>1
  <2>2. QED
    BY <2>1
<1>12. ASSUME NEW g, g \notin Range(hashes) PROVE Shown(g)' = Shown(g)
  <2>1. \A m \in N + 1 .. N + n : hashes[m - N] # g
    BY <1>2, <1>8, <1>12
  <2>2. QED
    BY <1>11, <2>1
<1>13. ASSUME NEW g, Shown(g) = {}, NEW i \in Shown(g)', NEW j \in Shown(g)' PROVE i = j
  <2>1. i \in N + 1 .. N + n /\ j \in N + 1 .. N + n /\ hashes[i - N] = hashes[j - N]
    BY <1>11, <1>13
  <2>2. i - N = j - N
    BY <1>8, <2>1 DEF n
  <2>3. QED
    BY <1>1, <2>1, <2>2
<1>14. QED
  BY <1>10, <1>12, <1>13

(* The events that start the torrents of the new entries. *)
Starts(hashes) == [i \in 1 .. Len(hashes) |-> <<"Start", hashes[i]>>]

(* One for each of them. *)
LEMMA StartsAre ==
  ASSUME NEW hashes \in Seq(Hashes)
  PROVE  /\ Starts(hashes) \in Seq(EventsOf("appToBtm"))
         /\ \A x : x \in Range(Starts(hashes)) <=> \E g \in Range(hashes) : x = <<"Start", g>>
<1> DEFINE n == Len(hashes)
           w == Starts(hashes)
<1>1. n \in Nat /\ \A i \in 1 .. n : hashes[i] \in Hashes
  OBVIOUS
<1>2. \A g \in Hashes : <<"Start", g>> \in EventsOf("appToBtm")
  BY Made
<1>3. w = [i \in 1 .. n |-> w[i]] /\ \A i \in 1 .. n : w[i] = <<"Start", hashes[i]>>
  BY DEF Starts
<1> HIDE DEF n, w
<1>4. \A i \in 1 .. n : w[i] \in EventsOf("appToBtm")
  BY <1>1, <1>2, <1>3
<1>5. w \in [1 .. n -> EventsOf("appToBtm")]
  BY <1>3, <1>4
<1>6. w \in Seq(EventsOf("appToBtm")) /\ Len(w) = n
  BY <1>1, <1>5
<1>7. \A x : x \in Range(w) <=> \E i \in 1 .. n : w[i] = x
  BY <1>6, InRange
<1>8. \A g : g \in Range(hashes) <=> \E i \in 1 .. n : hashes[i] = g
  BY InRange DEF n
<1>9. \A x : x \in Range(w) <=> \E g \in Range(hashes) : x = <<"Start", g>>
  <2>1. \A i \in 1 .. n : w[i] = <<"Start", hashes[i]>>
    BY <1>3
  <2>2. ASSUME NEW x, NEW g \in Range(hashes), x = <<"Start", g>> PROVE x \in Range(w)
    BY <1>7, <1>8, <2>1, <2>2
  <2>3. ASSUME NEW x, x \in Range(w) PROVE \E g \in Range(hashes) : x = <<"Start", g>>
    <3>1. PICK i \in 1 .. n : w[i] = x
      BY <1>7, <2>3
    <3>2. hashes[i] \in Range(hashes) /\ x = <<"Start", hashes[i]>>
      BY <1>8, <2>1, <3>1
    <3>3. QED
      BY <3>2
  <2>4. QED
    BY <2>2, <2>3
<1>10. QED
  BY <1>6, <1>9 DEF w

(* New entries: each torrent goes from the event that is taken to its one  *)
(* entry, and is started.                                                  *)
LEMMA EntriesStep ==
  ASSUME Inv, NEW c \in {"btmToApp", "persistToApp"}, q[c] # <<>>, NEW hashes \in Seq(Hashes),
         \A i, j \in 1 .. Len(hashes) : hashes[i] = hashes[j] => i = j, NewEntries(c, hashes),
         c = "btmToApp" => \A g : g \in Range(hashes) <=> Head(q[c]) = <<"Added", g>>,
         c = "persistToApp" => Range(hashes) = Head(q[c])[2]
  PROVE  Inv'
<1>1. /\ QueuesTyped /\ Exits /\ EntriesTyped /\ c \in Channels /\ "appToBtm" \in Channels
      /\ "persistToApp" \in Channels /\ "appToPersist" \in Channels /\ c # "appToBtm" /\ c # "appToPersist"
      /\ c # None /\ {"btmToDisk", "btmToPersist"} \subseteq Channels /\ c \notin {"btmToDisk", "btmToPersist"}
  BY DEF Inv, Typed, Channels, None
<1>2. /\ EntriesTyped'
      /\ \A g : g \notin Range(hashes) => Shown(g)' = Shown(g)
      /\ \A g : Shown(g) = {} => \A i, j \in Shown(g)' : i = j
  BY <1>1, Entries
<1>3. PICK w : w = Starts(hashes)
  OBVIOUS
<1>4. /\ w \in Seq(EventsOf("appToBtm"))
      /\ \A x : x \in Range(w) <=> \E g \in Range(hashes) : x = <<"Start", g>>
  BY <1>3, StartsAre
<1>5. PICK sent : sent = [appToBtm |-> w]
  OBVIOUS
<1>6. DOMAIN sent = {"appToBtm"} /\ sent["appToBtm"] = w
  BY <1>5, Records
<1>7. Answers(c, sent)
  BY <1>3, <1>5 DEF NewEntries, Starts
<1>8. Sent(sent, "appToBtm") = w /\ \A d : d # "appToBtm" => Sent(sent, d) = <<>>
  BY <1>6 DEF Sent
<1>9. \A d \in Channels : Sent(sent, d) \in Seq(EventsOf(d))
  <2>1. ASSUME NEW d \in Channels PROVE Sent(sent, d) \in Seq(EventsOf(d))
    <3>1. <<>> \in Seq(EventsOf(d))
      OBVIOUS
    <3>2. CASE d = "appToBtm"
      BY <1>4, <1>8, <3>2
    <3>3. CASE d # "appToBtm"
      BY <1>8, <3>1, <3>3
    <3>4. QED
      BY <3>2, <3>3
  <2>2. QED
    BY <2>1
<1>10. q' = [d \in Channels |-> q'[d]] /\ Moved(c, sent)
  BY <1>1, <1>6, <1>7, <1>9, Answered
<1>11. QueuesTyped'
  BY <1>1, <1>8, <1>9, <1>10, QueuesStay
<1>12. active' = active /\ torrents' = torrents /\ torrentIds' = torrentIds /\ history' = history
  BY DEF NewEntries, btmVars, persistVars
<1>13. Exits'
  <2>1. ASSUME NEW s, NEW d \in {"btmToDisk", "btmToPersist"}, Stops(s, d) PROVE Stops(s, d)'
    <3>1. d \in Channels /\ c # d /\ Sent(sent, d) = <<>>
      BY <1>1, <1>8
    <3>2. q'[d] = q[d]
      BY <1>1, <1>10, <3>1, Untouched
    <3>3. QED
      BY <1>12, <2>1, <3>2, StopsSame
  <2>2. QED
    BY <1>1, <2>1 DEF Exits
<1>14. \A x : \A d : x \in Range(Sent(sent, d)) => \E g : x = <<"Start", g>>
  <2>1. Range(<<>>) = {}
    BY DEF Range
  <2>2. QED
    BY <1>4, <1>8, <2>1
<1>15. ASSUME NEW g \in Torrents, OneLife(g), KnownFirst(g) PROVE OneLife(g)' /\ KnownFirst(g)'
  <2>1. /\ \A d : <<"Added", g>> \notin Range(Sent(sent, d)) /\ <<"Remove", g>> \notin Range(Sent(sent, d))
        /\ <<"Resume", g>> \notin Range(Sent(sent, "appToBtm"))
    BY <1>14
  <2>2. \A k \in DOMAIN Marks : /\ k \in Channels /\ <<Marks[k], g>> \notin Range(Sent(sent, k))
                                /\ AtMostOnce(q[k], <<Marks[k], g>>)
    BY <1>15, <2>1, PlacesAre DEF OneLife
  <2>3. ASSUME NEW k \in DOMAIN Marks, k = c => Head(q[k]) # <<Marks[k], g>>
        PROVE  (Carries(k, g)' <=> Carries(k, g)) /\ AtMostOnce(q'[k], <<Marks[k], g>>)
    BY <1>1, <1>9, <1>10, <2>2, <2>3, MarkStays
  <2>4. q'["appToPersist"] = q["appToPersist"]
    BY <1>1, <1>8, <1>10, Untouched
  <2>5. c # "persistToApp" => (Carries("persistToApp", g)' <=> Carries("persistToApp", g))
    <3>1. c # "persistToApp" => q'["persistToApp"] = q["persistToApp"]
      BY <1>1, <1>8, <1>10, Untouched
    <3>2. QED
      BY <3>1, CarriesWhat
  <2>6. \A m \in Places \ {c, "entry"} : Carries(m, g)' => Carries(m, g)
    BY <2>3, <2>5 DEF Places
  <2>7. \A m \in DOMAIN Marks \ {c} : AtMostOnce(q'[m], <<Marks[m], g>>)
    BY <2>3
  <2>8. /\ c \in DOMAIN Marks => AtMostOnce(q'[c], <<Marks[c], g>>)
        /\ g \in Range(hashes) => Carries(c, g) /\ ~Carries(c, g)'
        /\ Carries(c, g)' => Carries(c, g)
    <3>1. CASE c = "btmToApp"
      <4>1. c \in DOMAIN Marks /\ Marks[c] = "Added"
        BY <3>1, PlacesAre
      <4>2. g \in Range(hashes) <=> Head(q[c]) = <<Marks[c], g>>
        BY <3>1, <4>1
      <4>3. CASE Head(q[c]) = <<Marks[c], g>>
        BY <1>1, <1>10, <2>2, <4>1, <4>3, MarkGoes
      <4>4. CASE Head(q[c]) # <<Marks[c], g>>
        BY <2>3, <4>1, <4>2, <4>4
      <4>5. QED
        BY <4>3, <4>4
    <3>2. CASE c = "persistToApp"
      <4>1. c \notin DOMAIN Marks
        BY <3>2, PlacesAre
      <4>2. q'[c] = <<>> /\ Range(<<>>) = {}
        <5>1. Tail(q[c]) = <<>>
          BY <1>1, <3>2 DEF QueuesTyped
        <5>2. q'[c] = Tail(q[c])
          BY <1>1, <1>10 DEF Moved
        <5>3. Range(<<>>) = {}
          BY DEF Range
        <5>4. QED
          BY <5>1, <5>2, <5>3
      <4>3. ~Carries(c, g)'
        BY <3>2, <4>2, CarriesWhat
      <4>4. Head(q[c]) \in Range(q[c])
        <5>1. q[c] \in Seq(EventsOf(c))
          BY <1>1 DEF QueuesTyped
        <5>2. QED
          BY <5>1, Taking
      <4>5. g \in Range(hashes) => Carries(c, g)
        BY <3>2, <4>4, CarriesWhat
      <4>6. QED
        BY <4>1, <4>3, <4>5
    <3>3. QED
      BY <3>1, <3>2
  <2>9. \A m \in DOMAIN Marks : AtMostOnce(q'[m], <<Marks[m], g>>)
    BY <2>7, <2>8
  <2>10. c \in Places /\ "entry" \in Places /\ c # "entry"
    BY PlacesAre DEF Places
  <2>11. Resumable(q["appToBtm"], DOMAIN torrents, g)
         /\ (Shown(g) # {} => Startable(q["appToBtm"], DOMAIN torrents, g))
    BY <1>15 DEF KnownFirst
  <2>12. /\ Resumable(q'["appToBtm"], DOMAIN torrents', g)
         /\ Startable(q["appToBtm"], DOMAIN torrents, g) => Startable(q'["appToBtm"], DOMAIN torrents', g)
    BY <1>1, <1>9, <1>10, <1>12, <2>1, <2>11, KnownStays
  <2>13. CASE g \in Range(hashes)
    <3>1. Carries(c, g) /\ ~Carries(c, g)'
      BY <2>8, <2>13
    <3>2. Shown(g) = {} /\ g \in torrentIds
      <4>1. ~Carries("entry", g) /\ g \in torrentIds
        BY <1>15, <2>10, <3>1 DEF OneLife
      <4>2. QED
        BY <4>1, CarriesWhat
    <3>3. \A i, j \in Shown(g)' : i = j
      BY <1>2, <3>2
    <3>4. OneLife(g)'
      BY <1>12, <1>15, <2>4, <2>6, <2>9, <2>10, <3>1, <3>2, <3>3, LifeMoves
    <3>5. <<"Start", g>> \in Range(q'["appToBtm"])
      <4>1. q'["appToBtm"] = q["appToBtm"] \o w /\ q["appToBtm"] \in Seq(EventsOf("appToBtm"))
        BY <1>1, <1>8, <1>10 DEF Moved, QueuesTyped
      <4>2. <<"Start", g>> \in Range(w)
        BY <1>4, <2>13
      <4>3. <<"Start", g>> \in Range(q["appToBtm"] \o w)
        BY <1>4, <4>1, <4>2, Joining
      <4>4. QED
        BY <4>1, <4>3
    <3>6. KnownFirst(g)'
      BY <2>12, <3>5 DEF KnownFirst, Startable
    <3>7. QED
      BY <3>4, <3>6
  <2>14. CASE g \notin Range(hashes)
    <3>1. Shown(g)' = Shown(g)
      BY <1>2, <2>14
    <3>2. Carries("entry", g)' <=> Carries("entry", g)
      BY <3>1, CarriesWhat
    <3>3. \A m \in Places : Carries(m, g)' => Carries(m, g)
      BY <2>6, <2>8, <3>2
    <3>4. OneLife(g)'
      BY <1>12, <1>15, <2>4, <2>9, <3>1, <3>3, LifeStays
    <3>5. KnownFirst(g)'
      BY <2>11, <2>12, <3>1 DEF KnownFirst
    <3>6. QED
      BY <3>4, <3>5
  <2>15. QED
    BY <2>13, <2>14
<1>16. Lives'
  BY <1>12, <1>15 DEF Inv, Lives, Early
<1>17. QED
  BY <1>2, <1>11, <1>13, <1>16 DEF Inv, Typed

(* AddedTorrent. *)
LEMMA AddedTorrentStep ==
  ASSUME Inv, AddedTorrent
  PROVE  Inv'
<1>1. Takes("app", "btmToApp", "Added") /\ NewEntries("btmToApp", <<Event("btmToApp")[2]>>)
  BY DEF AddedTorrent
<1>2. "btmToApp" \in Channels
  BY DEF Channels
<1>3. /\ q["btmToApp"] # <<>> /\ Event("btmToApp") = Head(q["btmToApp"])
      /\ Event("btmToApp") \in EventsOf("btmToApp") /\ Event("btmToApp")[1] = "Added"
  BY <1>1, <1>2, Taken
<1>4. PICK h \in Hashes : Event("btmToApp") = <<"Added", h>>
  BY <1>3, Shapes
<1>5. Event("btmToApp")[2] = h /\ Head(q["btmToApp"]) = <<"Added", h>>
  BY <1>3, <1>4
<1>6. PICK hashes : hashes = <<h>>
  OBVIOUS
<1>7. NewEntries("btmToApp", hashes)
  BY <1>1, <1>5, <1>6
<1>8. hashes \in Seq(Hashes) /\ (\A g : g \in Range(hashes) <=> g = h)
  BY <1>6, Single
<1>9. \A i, j \in 1 .. Len(hashes) : i = j
  BY <1>6
<1>10. \A g : g \in Range(hashes) <=> Head(q["btmToApp"]) = <<"Added", g>>
  BY <1>5, <1>8
<1>11. QED
  <2>1. "btmToApp" # "persistToApp" /\ "btmToApp" \in {"btmToApp", "persistToApp"}
    OBVIOUS
  <2>2. \A i, j \in 1 .. Len(hashes) : hashes[i] = hashes[j] => i = j
    BY <1>9
  <2>3. QED
    BY <1>3, <1>7, <1>8, <1>10, <2>1, <2>2, EntriesStep

(* The order in which the torrents of a finite set are listed. *)
LEMMA Listed ==
  ASSUME NEW S, IsFiniteSet(S), NEW T, S \subseteq T
  PROVE  /\ SetToSeq(S) \in Seq(T) /\ Range(SetToSeq(S)) = S
         /\ \A i, j \in 1 .. Len(SetToSeq(S)) : SetToSeq(S)[i] = SetToSeq(S)[j] => i = j
<1> DEFINE n == Cardinality(S)
           f == SetToSeq(S)
<1>1. n \in Nat /\ ExistsBijection(1 .. n, S)
  BY FS_CardinalityType
<1>2. PICK b : b \in Bijection(1 .. n, S)
  BY <1>1 DEF ExistsBijection
<1>3. b \in [1 .. n -> S] /\ \A x, y \in 1 .. n : b[x] = b[y] => x = y
  BY <1>2, Fun_BijectionProperties
<1>4. b \in [1 .. n -> S] /\ IsInjective(b)
  BY <1>3 DEF IsInjective
<1>5. f \in [1 .. n -> S] /\ IsInjective(f)
  BY <1>4, Zenon DEF SetToSeq
<1> HIDE DEF f, n
<1>6. f \in Injection(1 .. n, S)
  BY <1>5 DEF Injection
<1>7. IsFiniteSet(1 .. n) /\ Cardinality(1 .. n) = n
  BY <1>1, FS_Interval
<1>8. f \in Surjection(1 .. n, S)
  BY <1>6, <1>7, FS_Injection DEF n
<1>9. Range(f) = S
  BY <1>8, Fun_SurjectionProperties
<1>10. f \in Seq(T) /\ Len(f) = n
  <2>1. f \in [1 .. n -> T]
    BY <1>5
  <2>2. QED
    BY <1>1, <2>1
<1>11. \A i, j \in 1 .. n : f[i] = f[j] => i = j
  BY <1>5 DEF IsInjective
<1>12. QED
  BY <1>9, <1>10, <1>11 DEF f

(* AllTorrents. *)
LEMMA AllTorrentsStep ==
  ASSUME Inv, AllTorrents
  PROVE  Inv'
<1>1. Takes("app", "persistToApp", "AllTorrents")
      /\ NewEntries("persistToApp", SetToSeq(Event("persistToApp")[2]))
  BY DEF AllTorrents
<1>2. "persistToApp" \in Channels
  BY DEF Channels
<1>3. /\ q["persistToApp"] # <<>> /\ Event("persistToApp") = Head(q["persistToApp"])
      /\ Event("persistToApp") \in EventsOf("persistToApp")
  BY <1>1, <1>2, Taken
<1>4. PICK S \in SUBSET Hashes : Event("persistToApp") = <<"AllTorrents", S>> /\ IsFiniteSet(S)
  BY <1>3, Made
<1>5. Event("persistToApp")[2] = S /\ Head(q["persistToApp"])[2] = S
  BY <1>3, <1>4
<1>6. PICK hashes : hashes = SetToSeq(S)
  OBVIOUS
<1>7. NewEntries("persistToApp", hashes)
  BY <1>1, <1>5, <1>6
<1>8. /\ hashes \in Seq(Hashes) /\ Range(hashes) = S
      /\ \A i, j \in 1 .. Len(hashes) : hashes[i] = hashes[j] => i = j
  BY <1>4, <1>6, Listed
<1>9. "btmToApp" # "persistToApp" /\ "persistToApp" \in {"btmToApp", "persistToApp"}
      /\ Range(hashes) = Head(q["persistToApp"])[2]
  BY <1>5, <1>8
<1>10. QED
  BY <1>3, <1>7, <1>8, <1>9, EntriesStep

------------------------------------------------------------------------------
(* The theorems. *)

(* Every step keeps the invariant. *)
LEMMA InvStep ==
  ASSUME Inv, [Next]_vars
  PROVE  Inv'
<1>1. CASE User
  <2>1. CASE (\E h \in Torrents : addTorrent(h)) \/ (\E id \in DOMAIN idTorrentMap : stopTorrent(id))
    BY <2>1, CommandStep
  <2>2. CASE \E id \in DOMAIN idTorrentMap : resumeTorrent(id)
    BY <2>2, ResumeCommandStep
  <2>3. CASE \E id \in DOMAIN idTorrentMap : removeTorrent(id)
    BY <2>3, RemoveCommandStep
  <2>4. CASE exit
    BY <2>4, ExitStep
  <2>5. QED
    BY <1>1, <2>1, <2>2, <2>3, <2>4 DEF User
<1>2. CASE App
  BY <1>2, AddedTorrentStep, AllTorrentsStep, StateStep, SilentStep DEF App
<1>3. CASE BtmApp
  BY <1>3, ForwardsStep, StartStep, StopStep, ResumeStep, RemoveStep, ProcessShutdownStep DEF BtmApp
<1>4. CASE BtmDisk
  BY <1>4, ForwardsStep DEF BtmDisk
<1>5. CASE BtmPersist
  BY <1>5, AddedStep, ForwardsStep, PiecesStep, SilentStep DEF BtmPersist
<1>6. CASE Peers
  BY <1>6, PeersStep DEF Peers
<1>7. CASE Disk
  BY <1>7, DiskStep, ServiceEnds DEF Disk
<1>8. CASE PersistBtm
  <2>1. CASE PersistAdd
    BY <2>1, LoadStep, PersistAddStep
  <2>2. QED
    BY <1>8, <2>1, PersistRemoveStep, SilentStep, LoadStep, ServiceEnds DEF PersistBtm
<1>9. CASE PersistLoadTorrents
  BY <1>9, LoadTorrentsStep
<1>10. CASE PersistThrows \/ Restart
  BY <1>10, Restarts
<1>11. CASE UNCHANGED vars
  <2>1. UNCHANGED <<q, active, idTorrentMap, hashToIdMap, idCounter, torrents, db, torrentIds, history>>
    BY <1>11 DEF vars, appVars, btmVars, persistVars
  <2>2. Typed' /\ Exits'
    BY <2>1 DEF Inv, Typed, QueuesTyped, EntriesTyped, Exits, Stops
  <2>3. ASSUME NEW h \in Torrents, OneLife(h), KnownFirst(h) PROVE OneLife(h)' /\ KnownFirst(h)'
    <3>1. Shown(h)' = Shown(h)
      BY <2>1 DEF Shown
    <3>2. \A k \in Places : Carries(k, h)' <=> Carries(k, h)
      BY <2>1, <3>1, CarriesWhat DEF Places
    <3>3. \A k \in DOMAIN Marks : AtMostOnce(q[k], <<Marks[k], h>>) => AtMostOnce(q'[k], <<Marks[k], h>>)
      BY <2>1
    <3>4. OneLife(h)'
      BY <2>1, <2>3, <3>1, <3>2, <3>3, LifeStays
    <3>5. KnownFirst(h)'
      BY <2>1, <2>3, <3>1 DEF KnownFirst
    <3>6. QED
      BY <3>4, <3>5
  <2>4. Lives'
    BY <2>1, <2>3 DEF Inv, Lives, Early
  <2>5. QED
    BY <2>2, <2>4 DEF Inv
<1>12. QED
  BY <1>1, <1>2, <1>3, <1>4, <1>5, <1>6, <1>7, <1>8, <1>9, <1>10, <1>11 DEF Next

(* The invariant holds always. *)
THEOREM LifecycleInvariant == Spec => []Inv
<1>1. Init => Inv
  BY Restarts
<1>2. Inv /\ [Next]_vars => Inv'
  BY InvStep
<1>3. QED
  BY <1>1, <1>2, PTL DEF Spec

(* Exit ends every service after its work: when BitTorrentManager has      *)
(* ended, the disk and persist services that still run have an event to    *)
(* wake them, and no verified piece is left unwritten by a disk service    *)
(* that has ended, whatever else is in the queues when exit is given.      *)
THEOREM ExitIsOrderly == Spec => []ExitFinishesWrites
<1>1. ASSUME Inv PROVE ExitFinishesWrites
  <2>1. Stops("disk", "btmToDisk") /\ Stops("persist", "btmToPersist")
    BY <1>1 DEF Inv, Exits
  <2>2. "btm" \notin active => /\ "disk" \in active => q["btmToDisk"] # <<>>
                               /\ "persist" \in active => q["btmToPersist"] # <<>>
    BY <2>1 DEF Stops
  <2>3. ASSUME "disk" \notin active, NEW h \in Torrents PROVE Writing(h) = {}
    <3>1. q["btmToDisk"] = <<>> /\ Range(<<>>) = {}
      BY <2>1, <2>3 DEF Stops, Range
    <3>2. QED
      BY <3>1 DEF Writing
  <2>4. QED
    BY <2>2, <2>3 DEF ExitFinishesWrites
<1>2. QED
  BY <1>1, LifecycleInvariant, PTL

(* BitTorrentManager knows every torrent it is asked to resume, although   *)
(* the display, which asks, and the torrent's removal are two events       *)
(* apart: the iterator that processResume goes on with is past the end     *)
(* only for a torrent that was added before the known ones were loaded or  *)
(* for the nameless entry of a torrent that is gone.                       *)
THEOREM ResumesAreKnown == Spec => []ResumeKnown
<1>1. ASSUME Inv PROVE ResumeKnown
  <2>1. SUFFICES ASSUME Takes("btm", "appToBtm", "Resume"), NEW h, h = Event("appToBtm")[2], h # NoHash,
                        ~Unexpected({"early"}, h)
                 PROVE  h \in DOMAIN torrents
    BY DEF ResumeKnown
  <2>2. "appToBtm" \in Channels
    BY DEF Channels
  <2>3. /\ Event("appToBtm") = Head(q["appToBtm"]) /\ Event("appToBtm") \in EventsOf("appToBtm")
        /\ Event("appToBtm")[1] = "Resume" /\ q["appToBtm"] # <<>>
    BY <1>1, <2>1, <2>2, Taken
  <2>4. PICK g \in Hashes : Event("appToBtm") = <<"Resume", g>>
    BY <2>3, Shapes
  <2>5. g = h /\ h \in Torrents
    BY <2>1, <2>4 DEF Hashes
  <2>6. ~Early(h)
    BY <2>1 DEF Unexpected, Early
  <2>7. Resumable(q["appToBtm"], DOMAIN torrents, h)
    BY <1>1, <2>5, <2>6 DEF Inv, Lives, KnownFirst
  <2>8. q["appToBtm"] \in Seq(EventsOf("appToBtm"))
    BY <1>1, <2>2 DEF Inv, Typed, QueuesTyped
  <2>9. 1 \in 1 .. Len(q["appToBtm"]) /\ q["appToBtm"][1] = Head(q["appToBtm"])
    BY <2>3, <2>8
  <2>10. q["appToBtm"][1] = <<"Resume", h>>
    BY <2>3, <2>4, <2>5, <2>9
  <2>11. h \in DOMAIN torrents \/ \E j \in 1 .. 1 - 1 : q["appToBtm"][j] = <<"Start", h>>
    BY <2>7, <2>9, <2>10 DEF Resumable
  <2>12. QED
    BY <2>11
<1>2. QED
  BY <1>1, LifecycleInvariant, PTL

-------------------------------------------------------------------------------
(* The order of events in a queue. *)

(* No y stands before an x; a y stands before each x; the last event of a  *)
(* kind about a torrent.                                                   *)
NoneBefore(s, x, y) == \A i \in 1 .. Len(s) : s[i] = x => \A j \in 1 .. i - 1 : s[j] # y
SomeBefore(s, x, y) == \A i \in 1 .. Len(s) : s[i] = x => \E j \in 1 .. i - 1 : s[j] = y
LastOf(s, x, X) == \E i \in 1 .. Len(s) : s[i] = x /\ \A j \in i + 1 .. Len(s) : s[j] \notin X

(* The elements of a sequence behind which others are pushed. *)
LEMMA Concat ==
  ASSUME NEW S, NEW s \in Seq(S), NEW t \in Seq(S)
  PROVE  /\ s \o t \in Seq(S) /\ Len(s \o t) = Len(s) + Len(t) /\ Len(s) \in Nat /\ Len(t) \in Nat
         /\ \A i \in 1 .. Len(s) : (s \o t)[i] = s[i]
         /\ \A i \in 1 .. Len(s) + Len(t) : ~(i <= Len(s)) => /\ i - Len(s) \in 1 .. Len(t)
                                                            /\ (s \o t)[i] = t[i - Len(s)]
<1>1. s \o t \in Seq(S) /\ Len(s \o t) = Len(s) + Len(t) /\ Len(s) \in Nat /\ Len(t) \in Nat
  BY ConcatProperties, LenProperties
<1>2. \A i \in 1 .. Len(s) + Len(t) : (s \o t)[i] = IF i <= Len(s) THEN s[i] ELSE t[i - Len(s)]
  BY ConcatProperties
<1>3. QED
  BY <1>1, <1>2

(* The elements of a sequence whose first one is taken. *)
LEMMA Rest ==
  ASSUME NEW S, NEW s \in Seq(S), s # <<>>
  PROVE  /\ Tail(s) \in Seq(S) /\ Len(s) \in Nat /\ Len(s) >= 1 /\ Len(Tail(s)) = Len(s) - 1
         /\ Head(s) = s[1] /\ \A i \in 1 .. Len(s) - 1 : Tail(s)[i] = s[i + 1]
OBVIOUS

(* No y before an x: pushing and taking. *)
LEMMA NonePush ==
  ASSUME NEW S, NEW s \in Seq(S), NEW t \in Seq(S), NEW x, NEW y, NoneBefore(s, x, y),
         x \notin Range(t) \/ (y \notin Range(s) /\ y \notin Range(t))
  PROVE  NoneBefore(s \o t, x, y)
<1> DEFINE a == s \o t
           n == Len(s)
           m == Len(t)
<1>1. /\ Len(a) = n + m /\ n \in Nat /\ m \in Nat /\ \A i \in 1 .. n : a[i] = s[i]
      /\ \A i \in 1 .. n + m : ~(i <= n) => i - n \in 1 .. m /\ a[i] = t[i - n]
  BY Concat
<1>2. \A z : (z \in Range(s) <=> \E i \in 1 .. n : s[i] = z) /\ (z \in Range(t) <=> \E i \in 1 .. m : t[i] = z)
  BY InRange
<1>3. \A i \in 1 .. n : s[i] = x => \A j \in 1 .. i - 1 : s[j] # y
  BY DEF NoneBefore
<1> HIDE DEF a, n, m
<1>4. ASSUME NEW i \in 1 .. n + m, a[i] = x, NEW j \in 1 .. i - 1 PROVE a[j] # y
  <2>1. CASE i <= n
    <3>1. i \in 1 .. n /\ j \in 1 .. n
      BY <1>1, <2>1
    <3>2. QED
      BY <1>1, <1>3, <1>4, <3>1
  <2>2. CASE ~(i <= n)
    <3>1. x \in Range(t)
      BY <1>1, <1>2, <1>4, <2>2
    <3>2. j \in 1 .. n + m /\ (j <= n => j \in 1 .. n)
      BY <1>1
    <3>3. QED
      BY <1>1, <1>2, <3>1, <3>2
  <2>3. QED
    BY <2>1, <2>2
<1>5. QED
  BY <1>1, <1>4 DEF NoneBefore, a

(* An event that is taken leaves the order of the others. *)
LEMMA NoneTake ==
  ASSUME NEW S, NEW s \in Seq(S), s # <<>>, NEW x, NEW y, NoneBefore(s, x, y)
  PROVE  /\ NoneBefore(Tail(s), x, y)
         /\ Head(s) = y => x \notin Range(Tail(s))
<1> DEFINE t == Tail(s)
           n == Len(s)
<1>1. /\ t \in Seq(S) /\ n \in Nat /\ n >= 1 /\ Len(t) = n - 1 /\ Head(s) = s[1]
      /\ \A i \in 1 .. n - 1 : t[i] = s[i + 1]
  BY Rest
<1>2. \A i \in 1 .. n : s[i] = x => \A j \in 1 .. i - 1 : s[j] # y
  BY DEF NoneBefore
<1> HIDE DEF t, n
<1>3. x \in Range(t) => \E i \in 1 .. n - 1 : t[i] = x
  BY <1>1, InRange
<1>4. ASSUME NEW i \in 1 .. n - 1, t[i] = x PROVE Head(s) # y /\ \A j \in 1 .. i - 1 : t[j] # y
  <2>1. i + 1 \in 1 .. n /\ s[i + 1] = x /\ 1 \in 1 .. (i + 1) - 1
    BY <1>1, <1>4
  <2>2. \A j \in 1 .. (i + 1) - 1 : s[j] # y
    BY <1>2, <2>1
  <2>3. \A j \in 1 .. i - 1 : j + 1 \in 1 .. (i + 1) - 1 /\ t[j] = s[j + 1]
    BY <1>1
  <2>4. QED
    BY <1>1, <2>1, <2>2, <2>3
<1>5. QED
  BY <1>1, <1>3, <1>4 DEF NoneBefore, t

(* With one of them absent there is no order to break. *)
LEMMA NoneWithout ==
  ASSUME NEW S, NEW s \in Seq(S), NEW x, NEW y, x \notin Range(s) \/ y \notin Range(s)
  PROVE  NoneBefore(s, x, y)
<1> DEFINE n == Len(s)
<1>1. \A z : z \in Range(s) <=> \E i \in 1 .. n : s[i] = z
  BY InRange
<1>2. n \in Nat
  BY LenProperties
<1> HIDE DEF n
<1>3. ASSUME NEW i \in 1 .. n, s[i] = x, NEW j \in 1 .. i - 1 PROVE s[j] # y
  <2>1. j \in 1 .. n
    BY <1>2
  <2>2. QED
    BY <1>1, <1>3, <2>1
<1>4. QED
  BY <1>3 DEF NoneBefore, n

(* A y before each x: pushing and taking. *)
LEMMA SomePush ==
  ASSUME NEW S, NEW s \in Seq(S), NEW t \in Seq(S), NEW x, NEW y, SomeBefore(s, x, y),
         x \notin Range(t) \/ y \in Range(s)
  PROVE  SomeBefore(s \o t, x, y)
<1> DEFINE a == s \o t
           n == Len(s)
           m == Len(t)
<1>1. /\ Len(a) = n + m /\ n \in Nat /\ m \in Nat /\ \A i \in 1 .. n : a[i] = s[i]
      /\ \A i \in 1 .. n + m : ~(i <= n) => i - n \in 1 .. m /\ a[i] = t[i - n]
  BY Concat
<1>2. \A z : (z \in Range(s) <=> \E i \in 1 .. n : s[i] = z) /\ (z \in Range(t) <=> \E i \in 1 .. m : t[i] = z)
  BY InRange
<1>3. \A i \in 1 .. n : s[i] = x => \E j \in 1 .. i - 1 : s[j] = y
  BY DEF SomeBefore
<1> HIDE DEF a, n, m
<1>4. ASSUME NEW i \in 1 .. n + m, a[i] = x PROVE \E j \in 1 .. i - 1 : a[j] = y
  <2>1. CASE i <= n
    <3>1. i \in 1 .. n /\ \A j \in 1 .. i - 1 : j \in 1 .. n
      BY <1>1, <2>1
    <3>2. QED
      BY <1>1, <1>3, <1>4, <3>1
  <2>2. CASE ~(i <= n)
    <3>1. x \in Range(t)
      BY <1>1, <1>2, <1>4, <2>2
    <3>2. PICK j \in 1 .. n : s[j] = y
      BY <1>2, <3>1
    <3>3. j \in 1 .. i - 1 /\ a[j] = y
      BY <1>1, <2>2, <3>2
    <3>4. QED
      BY <3>3
  <2>3. QED
    BY <2>1, <2>2
<1>5. QED
  BY <1>1, <1>4 DEF SomeBefore, a

(* The first event is no x, and one that is no y leaves the order. *)
LEMMA SomeTake ==
  ASSUME NEW S, NEW s \in Seq(S), s # <<>>, NEW x, NEW y, SomeBefore(s, x, y)
  PROVE  /\ Head(s) # x
         /\ Head(s) # y => SomeBefore(Tail(s), x, y)
<1> DEFINE t == Tail(s)
           n == Len(s)
<1>1. /\ t \in Seq(S) /\ n \in Nat /\ n >= 1 /\ Len(t) = n - 1 /\ Head(s) = s[1]
      /\ \A i \in 1 .. n - 1 : t[i] = s[i + 1]
  BY Rest
<1>2. \A i \in 1 .. n : s[i] = x => \E j \in 1 .. i - 1 : s[j] = y
  BY DEF SomeBefore
<1> HIDE DEF t, n
<1>3. Head(s) # x
  <2>1. 1 \in 1 .. n /\ \A j : j \notin 1 .. 1 - 1
    BY <1>1
  <2>2. QED
    BY <1>1, <1>2, <2>1
<1>4. ASSUME Head(s) # y, NEW i \in 1 .. n - 1, t[i] = x PROVE \E j \in 1 .. i - 1 : t[j] = y
  <2>1. i + 1 \in 1 .. n /\ s[i + 1] = x
    BY <1>1, <1>4
  <2>2. PICK j \in 1 .. (i + 1) - 1 : s[j] = y
    BY <1>2, <2>1
  <2>3. j # 1
    BY <1>1, <1>4, <2>2
  <2>4. j - 1 \in 1 .. i - 1 /\ t[j - 1] = s[j]
    BY <1>1, <2>3
  <2>5. QED
    BY <2>2, <2>4
<1>5. QED
  BY <1>1, <1>3, <1>4 DEF SomeBefore, t

(* Without an x nothing has to stand before it. *)
LEMMA SomeWithout ==
  ASSUME NEW S, NEW s \in Seq(S), NEW x, NEW y, x \notin Range(s)
  PROVE  SomeBefore(s, x, y)
<1>1. \A i \in 1 .. Len(s) : s[i] # x
  BY InRange
<1>2. QED
  BY <1>1 DEF SomeBefore

(* The last event: pushing others, pushing one, and taking. *)
LEMMA LastPush ==
  ASSUME NEW S, NEW s \in Seq(S), NEW t \in Seq(S), NEW x, NEW X, x \in X, LastOf(s \o t, x, X),
         \A e \in X : e \notin Range(t)
  PROVE  LastOf(s, x, X)
<1> DEFINE a == s \o t
           n == Len(s)
           m == Len(t)
<1>1. /\ Len(a) = n + m /\ n \in Nat /\ m \in Nat /\ \A i \in 1 .. n : a[i] = s[i]
      /\ \A i \in 1 .. n + m : ~(i <= n) => i - n \in 1 .. m /\ a[i] = t[i - n]
  BY Concat
<1>2. \A z : z \in Range(t) <=> \E i \in 1 .. m : t[i] = z
  BY InRange
<1>3. PICK i \in 1 .. Len(a) : a[i] = x /\ \A j \in i + 1 .. Len(a) : a[j] \notin X
  BY DEF LastOf
<1> HIDE DEF a, n, m
<1>4. i <= n
  BY <1>1, <1>2, <1>3
<1>5. i \in 1 .. n /\ \A j \in i + 1 .. n : j \in i + 1 .. n + m /\ j \in 1 .. n
  BY <1>1, <1>4
<1>6. s[i] = x /\ \A j \in i + 1 .. n : s[j] \notin X
  BY <1>1, <1>3, <1>5
<1>7. QED
  BY <1>5, <1>6 DEF LastOf, n

(* The last event of its kind is the one that is pushed. *)
LEMMA LastComes ==
  ASSUME NEW S, NEW s \in Seq(S), NEW e \in S, NEW x, NEW X, e \in X, x \in X, LastOf(s \o <<e>>, x, X)
  PROVE  x = e
<1> DEFINE a == s \o <<e>>
           n == Len(s)
<1>1. <<e>> \in Seq(S) /\ Len(<<e>>) = 1 /\ <<e>>[1] = e
  OBVIOUS
<1>2. /\ Len(a) = n + 1 /\ n \in Nat
      /\ \A i \in 1 .. n + 1 : ~(i <= n) => i - n \in 1 .. 1 /\ a[i] = <<e>>[i - n]
  BY <1>1, Concat
<1>3. PICK i \in 1 .. Len(a) : a[i] = x /\ \A j \in i + 1 .. Len(a) : a[j] \notin X
  BY DEF LastOf
<1> HIDE DEF a, n
<1>4. n + 1 \in 1 .. n + 1 /\ ~(n + 1 <= n) /\ (n + 1) - n = 1
  BY <1>2
<1>5. a[n + 1] = e
  BY <1>1, <1>2, <1>4
<1>6. i = n + 1 \/ n + 1 \in i + 1 .. Len(a)
  BY <1>2, <1>3
<1>7. QED
  BY <1>3, <1>5, <1>6

(* The last event stays last when the first is taken, unless it is that. *)
LEMMA LastTake ==
  ASSUME NEW S, NEW s \in Seq(S), s # <<>>, NEW x, NEW X
  PROVE  /\ LastOf(Tail(s), x, X) => LastOf(s, x, X)
         /\ x = Head(s) /\ (\A e \in X : e \notin Range(Tail(s))) => LastOf(s, x, X)
<1> DEFINE t == Tail(s)
           n == Len(s)
<1>1. /\ t \in Seq(S) /\ n \in Nat /\ n >= 1 /\ Len(t) = n - 1 /\ Head(s) = s[1]
      /\ \A i \in 1 .. n - 1 : t[i] = s[i + 1]
  BY Rest
<1> HIDE DEF t, n
<1>2. \A z : z \in Range(t) <=> \E i \in 1 .. n - 1 : t[i] = z
  BY <1>1, InRange
<1>3. \A j \in 2 .. n : j - 1 \in 1 .. n - 1 /\ t[j - 1] = s[j]
  <2>1. ASSUME NEW j \in 2 .. n PROVE j - 1 \in 1 .. n - 1 /\ (j - 1) + 1 = j
    BY <1>1
  <2>2. QED
    BY <1>1, <2>1
<1>4. ASSUME LastOf(t, x, X) PROVE LastOf(s, x, X)
  <2>1. PICK i \in 1 .. n - 1 : t[i] = x /\ \A j \in i + 1 .. n - 1 : t[j] \notin X
    BY <1>1, <1>4 DEF LastOf
  <2>2. i + 1 \in 1 .. n /\ s[i + 1] = x
    BY <1>1, <2>1
  <2>3. ASSUME NEW j \in (i + 1) + 1 .. n PROVE s[j] \notin X
    <3>1. j \in 2 .. n /\ j - 1 \in i + 1 .. n - 1
      BY <1>1
    <3>2. QED
      BY <1>3, <2>1, <3>1
  <2>4. QED
    BY <2>2, <2>3 DEF LastOf, n
<1>5. ASSUME x = Head(s), \A e \in X : e \notin Range(t) PROVE LastOf(s, x, X)
  <2>1. 1 \in 1 .. n /\ s[1] = x
    BY <1>1, <1>5
  <2>2. ASSUME NEW j \in 1 + 1 .. n PROVE s[j] \notin X
    <3>1. j \in 2 .. n
      BY <1>1
    <3>2. QED
      BY <1>2, <1>3, <1>5, <3>1
  <2>3. QED
    BY <2>1, <2>2 DEF LastOf, n
<1>6. QED
  BY <1>4, <1>5 DEF t

-------------------------------------------------------------------------------
(* What is on its way, and what a step leaves of it. *)

(* An event about a torrent is on its way; in queue d, no u before a t. *)
Way(d, t, h) == <<t, h>> \in Range(q[d])
Ahead(d, t, u, h) == NoneBefore(q[d], <<t, h>>, <<u, h>>)

(* Pieces on their way to BitTorrentManager, all of which it needs; writes *)
(* that the disk service will know the torrent for; the last report.       *)
PiecesWay(h) == \E M \in SUBSET Pieces : <<"Pieces", h, M>> \in Range(q["persistToBtm"])
Covered(h) == \A M \in SUBSET Pieces :
                 <<"Pieces", h, M>> \in Range(q["persistToBtm"]) => Pieces \ M \subseteq onDisk[h]
Storing(h, p) == \/ <<"WriteSuccess", h, p>> \in Range(q["diskToBtm"])
                 \/ <<"PieceComplete", h, p>> \in Range(q["btmToPersist"])
Prefixed(h) == \A p \in Pieces : SomeBefore(q["btmToDisk"], <<"Write", h, p>>, <<"Init", h>>)
Reports == {"Stopped", "Completed", "Resumed"}
Latest(t, h) == LastOf(q["btmToApp"], <<t, h>>, Reports \X {h})

Known(h) == h \in DOMAIN torrents
Undone(h) == h \in DOMAIN torrents /\ ~torrents[h]
Active(h) == h \in DOMAIN pieceMan /\ pieceMan[h].active
Have(h) == onDisk[h] \cup Writing(h)
Good(h) == h \in DOMAIN pieceMan /\ Pieces \ pieceMan[h].mAvailable \subseteq Have(h)

(* A step takes an event of kind k and sends events of kinds S, as far as  *)
(* torrent g is concerned; a kind is a queue and a type.                   *)
NoKind == <<"none", "none">>
Shift(c, sent) ==
    /\ Moved(c, sent) /\ q' = [d \in Channels |-> q'[d]]
    /\ c \in Channels \cup {None} /\ (c \in Channels => q[c] # <<>>)
    /\ \A d \in Channels : Sent(sent, d) \in Seq(EventsOf(d))
Clear(c, sent, k, S, g) ==
    /\ \A d \in Channels : \A x \in Range(Sent(sent, d)) : x[2] = g => <<d, x[1]>> \in S
    /\ c \in Channels /\ Head(q[c])[2] = g => <<c, Head(q[c])[1]>> = k
    /\ Sent(sent, "appToPersist") = <<>>
    /\ Sent(sent, "persistToApp") = <<>> \/ <<"persistToApp", "AllTorrents">> \in S
    /\ c = "appToPersist" => k = <<"appToPersist", "LoadTorrents">>
    /\ c = "persistToApp" => k = <<"persistToApp", "AllTorrents">>

(* What such a step leaves as it is. *)
WayFrame(k, S, d, t, g) ==
    /\ <<d, t>> \in S \/ (Way(d, t, g)' => Way(d, t, g))
    /\ <<d, t>> = k \/ (Way(d, t, g) => Way(d, t, g)')
AheadFrame(S, d, t, u, g) == <<d, t>> \in S \/ (Ahead(d, t, u, g) => Ahead(d, t, u, g)')
Frame(k, S, g) ==
    /\ WayFrame(k, S, "appToBtm", "Start", g) /\ WayFrame(k, S, "appToBtm", "Remove", g)
    /\ WayFrame(k, S, "btmToApp", "Added", g) /\ WayFrame(k, S, "btmToApp", "Stopped", g)
    /\ WayFrame(k, S, "btmToApp", "Completed", g) /\ WayFrame(k, S, "btmToApp", "Resumed", g)
    /\ WayFrame(k, S, "btmToPersist", "Remove", g) /\ WayFrame(k, S, "btmToPersist", "LoadPieces", g)
    /\ WayFrame(k, S, "btmToPersist", "LoadTrackers", g)
    /\ WayFrame(k, S, "persistToBtm", "Added", g) /\ WayFrame(k, S, "persistToBtm", "Trackers", g)
    /\ WayFrame(k, S, "btmToDisk", "Init", g) /\ WayFrame(k, S, "diskToBtm", "Initialized", g)
    /\ AheadFrame(S, "appToBtm", "Start", "Remove", g)
    /\ AheadFrame(S, "btmToPersist", "LoadPieces", "Remove", g)
    /\ AheadFrame(S, "btmToPersist", "LoadTrackers", "Remove", g)
    /\ AheadFrame(S, "persistToBtm", "Trackers", "Added", g)
    /\ <<"persistToBtm", "Pieces">> \in S \/ (PiecesWay(g)' => PiecesWay(g))
    /\ <<"persistToBtm", "Pieces">> = k \/ (PiecesWay(g) => PiecesWay(g)')
    /\ <<"persistToBtm", "Pieces">> \in S \/ (Covered(g) /\ onDisk[g] \subseteq onDisk'[g] => Covered(g)')
    /\ <<"btmToDisk", "Write">> \in S \/ k = <<"btmToDisk", "Init">> \/ (Prefixed(g) => Prefixed(g)')
    /\ <<"btmToDisk", "Write">> = k \/ Writing(g) \subseteq Writing(g)'
    /\ \/ <<"diskToBtm", "WriteSuccess">> \in S \/ <<"btmToPersist", "PieceComplete">> \in S
       \/ \A p \in Pieces : Storing(g, p)' => Storing(g, p)
    /\ \/ \E t \in Reports : <<"btmToApp", t>> \in S
       \/ \A t \in Reports : Latest(t, g)' => Latest(t, g)
    /\ \/ k = <<"persistToApp", "AllTorrents">> \/ <<"persistToApp", "AllTorrents">> \in S
       \/ Carries("persistToApp", g)' <=> Carries("persistToApp", g)
    /\ k = <<"appToPersist", "LoadTorrents">> \/ q'["appToPersist"] = q["appToPersist"]

(* The events of a queue after a step. *)
LEMMA Shifted ==
  ASSUME QueuesTyped, NEW c, NEW sent, Shift(c, sent), NEW d \in Channels
  PROVE  /\ q[d] \in Seq(EventsOf(d)) /\ Sent(sent, d) \in Seq(EventsOf(d))
         /\ d # c => q'[d] = q[d] \o Sent(sent, d)
         /\ d = c => q'[d] = Tail(q[d]) /\ q[d] # <<>>
         /\ \A x : x \in Range(q'[d]) => x \in Range(q[d]) \/ (d # c /\ x \in Range(Sent(sent, d)))
         /\ \A x : x \in Range(q[d]) => x \in Range(q'[d]) \/ (d = c /\ x = Head(q[c]))
         /\ \A x : d # c /\ x \in Range(Sent(sent, d)) => x \in Range(q'[d])
         /\ d = c => Head(q[d]) \in Range(q[d])
<1>1. q[d] \in Seq(EventsOf(d)) /\ Sent(sent, d) \in Seq(EventsOf(d))
  BY DEF QueuesTyped, Shift
<1>2. d # c => q'[d] = q[d] \o Sent(sent, d)
  BY DEF Shift, Moved
<1>3. d = c => q'[d] = Tail(q[d]) /\ q[d] # <<>>
  BY DEF Shift, Moved
<1>4. CASE d # c
  <2>1. \A x : x \in Range(q'[d]) <=> x \in Range(q[d]) \/ x \in Range(Sent(sent, d))
    BY <1>1, <1>2, <1>4, Joining
  <2>2. QED
    BY <1>1, <1>2, <1>4, <2>1
<1>5. CASE d = c
  <2>1. \A x : x \in Range(q[d]) <=> x \in Range(q'[d]) \/ x = Head(q[d])
    BY <1>1, <1>3, <1>5, Taking
  <2>2. QED
    BY <1>1, <1>3, <1>5, <2>1
<1>6. QED
  BY <1>4, <1>5

(* An event in an order that a step keeps. *)
LEMMA AheadStays ==
  ASSUME QueuesTyped, NEW c, NEW sent, Shift(c, sent), NEW d \in Channels, NEW t, NEW u, NEW g,
         Ahead(d, t, u, g),
         \/ <<t, g>> \notin Range(Sent(sent, d))
         \/ ~Way(d, u, g) /\ <<u, g>> \notin Range(Sent(sent, d))
  PROVE  Ahead(d, t, u, g)'
<1>1. /\ q[d] \in Seq(EventsOf(d)) /\ Sent(sent, d) \in Seq(EventsOf(d))
      /\ d # c => q'[d] = q[d] \o Sent(sent, d)
      /\ d = c => q'[d] = Tail(q[d]) /\ q[d] # <<>>
  BY Shifted
<1>2. NoneBefore(q[d], <<t, g>>, <<u, g>>)
  BY DEF Ahead
<1>3. CASE d # c
  <2>1. NoneBefore(q[d] \o Sent(sent, d), <<t, g>>, <<u, g>>)
    BY <1>1, <1>2, NonePush DEF Way
  <2>2. QED
    BY <1>1, <1>3, <2>1 DEF Ahead
<1>4. CASE d = c
  <2>1. NoneBefore(Tail(q[d]), <<t, g>>, <<u, g>>)
    BY <1>1, <1>2, <1>4, NoneTake
  <2>2. QED
    BY <1>1, <1>4, <2>1 DEF Ahead
<1>5. QED
  BY <1>3, <1>4

(* The frame of a step. *)
LEMMA Framed ==
  ASSUME QueuesTyped, NEW c, NEW sent, Shift(c, sent), NEW k, NEW S, NEW g, Clear(c, sent, k, S, g)
  PROVE  Frame(k, S, g)
<1> DEFINE Old(d, x) == x \in Range(q[d])
           New(d, x) == x \in Range(q'[d])
           Put(d, x) == d # c /\ x \in Range(Sent(sent, d))
           Got(d, x) == d = c /\ x = Head(q[c])
<1>1. \A d \in Channels : \A x : (New(d, x) => Old(d, x) \/ Put(d, x)) /\ (Old(d, x) => New(d, x) \/ Got(d, x))
  BY Shifted
<1>2. \A d \in Channels : \A x : Put(d, x) /\ x[2] = g => <<d, x[1]>> \in S
  BY DEF Clear
<1>3. \A d \in Channels : \A x : Got(d, x) /\ x[2] = g => <<d, x[1]>> = k
  BY DEF Clear
<1>4. \A t : <<t, g>>[1] = t /\ <<t, g>>[2] = g
  OBVIOUS
<1>5. \A t, z : <<t, g, z>>[1] = t /\ <<t, g, z>>[2] = g
  OBVIOUS
<1>6. {"appToBtm", "btmToApp", "btmToPersist", "persistToBtm", "btmToDisk", "diskToBtm"} \subseteq Channels
  BY DEF Channels
<1> HIDE DEF Old, New, Put, Got
<1>7. ASSUME NEW d \in Channels, NEW t PROVE WayFrame(k, S, d, t, g)
  <2>1. Way(d, t, g) <=> Old(d, <<t, g>>)
    BY DEF Way, Old
  <2>2. Way(d, t, g)' <=> New(d, <<t, g>>)
    BY DEF Way, New
  <2>3. QED
    BY <1>1, <1>2, <1>3, <1>4, <2>1, <2>2 DEF WayFrame
<1>8. ASSUME NEW d \in Channels, NEW t, NEW u PROVE AheadFrame(S, d, t, u, g)
  <2>1. SUFFICES ASSUME <<d, t>> \notin S, Ahead(d, t, u, g) PROVE Ahead(d, t, u, g)'
    BY DEF AheadFrame
  <2>2. <<t, g>> \notin Range(Sent(sent, d))
    BY <1>4, <2>1 DEF Clear
  <2>3. QED
    BY <2>1, <2>2, AheadStays
<1>9. /\ <<"persistToBtm", "Pieces">> \in S \/ (PiecesWay(g)' => PiecesWay(g))
      /\ <<"persistToBtm", "Pieces">> = k \/ (PiecesWay(g) => PiecesWay(g)')
      /\ <<"persistToBtm", "Pieces">> \in S \/ (Covered(g) /\ onDisk[g] \subseteq onDisk'[g] => Covered(g)')
  <2>1. PiecesWay(g) <=> \E M \in SUBSET Pieces : Old("persistToBtm", <<"Pieces", g, M>>)
    BY DEF PiecesWay, Old
  <2>2. PiecesWay(g)' <=> \E M \in SUBSET Pieces : New("persistToBtm", <<"Pieces", g, M>>)
    BY DEF PiecesWay, New
  <2>3. Covered(g) <=> \A M \in SUBSET Pieces : Old("persistToBtm", <<"Pieces", g, M>>) => Pieces \ M \subseteq onDisk[g]
    BY DEF Covered, Old
  <2>4. Covered(g)' <=> \A M \in SUBSET Pieces : New("persistToBtm", <<"Pieces", g, M>>) => Pieces \ M \subseteq onDisk'[g]
    BY DEF Covered, New
  <2>5. \A M : <<"persistToBtm", "Pieces">> \in S \/ (New("persistToBtm", <<"Pieces", g, M>>) => Old("persistToBtm", <<"Pieces", g, M>>))
    BY <1>1, <1>2, <1>5, <1>6
  <2>6. \A M : <<"persistToBtm", "Pieces">> = k \/ (Old("persistToBtm", <<"Pieces", g, M>>) => New("persistToBtm", <<"Pieces", g, M>>))
    BY <1>1, <1>3, <1>5, <1>6
  <2>7. <<"persistToBtm", "Pieces">> \in S \/ (PiecesWay(g)' => PiecesWay(g))
    BY <2>1, <2>2, <2>5
  <2>8. <<"persistToBtm", "Pieces">> = k \/ (PiecesWay(g) => PiecesWay(g)')
    BY <2>1, <2>2, <2>6
  <2>9. <<"persistToBtm", "Pieces">> \in S \/ (Covered(g) /\ onDisk[g] \subseteq onDisk'[g] => Covered(g)')
    BY <2>3, <2>4, <2>5
  <2>10. QED
    BY <2>7, <2>8, <2>9
<1>10. <<"btmToDisk", "Write">> \in S \/ k = <<"btmToDisk", "Init">> \/ (Prefixed(g) => Prefixed(g)')
  <2>1. SUFFICES ASSUME <<"btmToDisk", "Write">> \notin S, k # <<"btmToDisk", "Init">>, Prefixed(g), NEW p \in Pieces
                 PROVE  SomeBefore(q'["btmToDisk"], <<"Write", g, p>>, <<"Init", g>>)
    BY DEF Prefixed
  <2>2. PICK s : s = q["btmToDisk"]
    OBVIOUS
  <2>3. PICK r : r = Sent(sent, "btmToDisk")
    OBVIOUS
  <2>4. PICK x : x = <<"Write", g, p>>
    OBVIOUS
  <2>5. PICK y : y = <<"Init", g>>
    OBVIOUS
  <2>6. SomeBefore(s, x, y)
    BY <2>1, <2>2, <2>4, <2>5 DEF Prefixed
  <2>7. /\ s \in Seq(EventsOf("btmToDisk")) /\ r \in Seq(EventsOf("btmToDisk"))
        /\ "btmToDisk" # c => q'["btmToDisk"] = s \o r
        /\ "btmToDisk" = c => q'["btmToDisk"] = Tail(s) /\ s # <<>>
    BY <1>6, <2>2, <2>3, Shifted
  <2>8. CASE "btmToDisk" # c
    <3>1. x \notin Range(r)
      BY <1>2, <1>5, <1>6, <2>1, <2>3, <2>4, <2>8 DEF Put
    <3>2. SomeBefore(s \o r, x, y)
      BY <2>6, <2>7, <3>1, SomePush
    <3>3. QED
      BY <2>4, <2>5, <2>7, <2>8, <3>2
  <2>9. CASE "btmToDisk" = c
    <3>1. Head(s) # y
      BY <1>3, <1>4, <1>6, <2>1, <2>2, <2>5, <2>9 DEF Got
    <3>2. SomeBefore(Tail(s), x, y)
      BY <2>6, <2>7, <2>9, <3>1, SomeTake
    <3>3. QED
      BY <2>4, <2>5, <2>7, <2>9, <3>2
  <2>10. QED
    BY <2>8, <2>9
<1>11. <<"btmToDisk", "Write">> = k \/ Writing(g) \subseteq Writing(g)'
  <2>1. Writing(g) = {p \in Pieces : Old("btmToDisk", <<"Write", g, p>>)}
    BY DEF Writing, Old
  <2>2. Writing(g)' = {p \in Pieces : New("btmToDisk", <<"Write", g, p>>)}
    BY DEF Writing, New
  <2>3. \A p : <<"btmToDisk", "Write">> = k \/ (Old("btmToDisk", <<"Write", g, p>>) => New("btmToDisk", <<"Write", g, p>>))
    BY <1>1, <1>3, <1>5, <1>6
  <2>4. QED
    BY <2>1, <2>2, <2>3
<1>12. \/ \E t \in Reports : <<"btmToApp", t>> \in S
       \/ \A t \in Reports : Latest(t, g)' => Latest(t, g)
  <2>1. SUFFICES ASSUME \A t \in Reports : <<"btmToApp", t>> \notin S, NEW t \in Reports, Latest(t, g)'
                 PROVE  Latest(t, g)
    OBVIOUS
  <2>2. PICK s : s = q["btmToApp"]
    OBVIOUS
  <2>3. PICK r : r = Sent(sent, "btmToApp")
    OBVIOUS
  <2>4. PICK x : x = <<t, g>>
    OBVIOUS
  <2>5. PICK X : X = Reports \X {g}
    OBVIOUS
  <2>6. LastOf(q'["btmToApp"], x, X)
    BY <2>1, <2>4, <2>5 DEF Latest
  <2>7. x \in X /\ \A e \in X : \E u \in Reports : e = <<u, g>>
    BY <2>4, <2>5
  <2>8. /\ s \in Seq(EventsOf("btmToApp")) /\ r \in Seq(EventsOf("btmToApp"))
        /\ "btmToApp" # c => q'["btmToApp"] = s \o r
        /\ "btmToApp" = c => q'["btmToApp"] = Tail(s) /\ s # <<>>
    BY <1>6, <2>2, <2>3, Shifted
  <2>9. CASE "btmToApp" # c
    <3>1. \A u \in Reports : <<u, g>> \notin Range(r)
      BY <1>2, <1>4, <1>6, <2>1, <2>3, <2>9 DEF Put
    <3>2. \A e \in X : e \notin Range(r)
      BY <2>7, <3>1
    <3>3. LastOf(s, x, X)
      BY <2>6, <2>7, <2>8, <2>9, <3>2, LastPush
    <3>4. QED
      BY <2>2, <2>4, <2>5, <3>3 DEF Latest
  <2>10. CASE "btmToApp" = c
    <3>1. LastOf(s, x, X)
      BY <2>6, <2>8, <2>10, LastTake
    <3>2. QED
      BY <2>2, <2>4, <2>5, <3>1 DEF Latest
  <2>11. QED
    BY <2>9, <2>10
<1>13. ASSUME NEW d \in Channels, d # c, Sent(sent, d) = <<>> PROVE q'[d] = q[d]
  BY <1>13, Untouched DEF Shift
<1>14. \/ k = <<"persistToApp", "AllTorrents">> \/ <<"persistToApp", "AllTorrents">> \in S
       \/ Carries("persistToApp", g)' <=> Carries("persistToApp", g)
  <2>1. SUFFICES ASSUME k # <<"persistToApp", "AllTorrents">>, <<"persistToApp", "AllTorrents">> \notin S
                 PROVE  Carries("persistToApp", g)' <=> Carries("persistToApp", g)
    OBVIOUS
  <2>2. q'["persistToApp"] = q["persistToApp"]
    BY <1>13, <2>1 DEF Clear, Channels
  <2>3. QED
    BY <2>2, CarriesWhat
<1>15. k = <<"appToPersist", "LoadTorrents">> \/ q'["appToPersist"] = q["appToPersist"]
  BY <1>13 DEF Clear, Channels
<1>16. \/ <<"diskToBtm", "WriteSuccess">> \in S \/ <<"btmToPersist", "PieceComplete">> \in S
       \/ \A p \in Pieces : Storing(g, p)' => Storing(g, p)
  <2>1. \A p : Storing(g, p) <=> \/ Old("diskToBtm", <<"WriteSuccess", g, p>>)
                                \/ Old("btmToPersist", <<"PieceComplete", g, p>>)
    BY DEF Storing, Old
  <2>2. \A p : Storing(g, p)' <=> \/ New("diskToBtm", <<"WriteSuccess", g, p>>)
                                 \/ New("btmToPersist", <<"PieceComplete", g, p>>)
    BY DEF Storing, New
  <2>3. \A p : <<"diskToBtm", "WriteSuccess">> \in S \/ (New("diskToBtm", <<"WriteSuccess", g, p>>) => Old("diskToBtm", <<"WriteSuccess", g, p>>))
    BY <1>1, <1>2, <1>5, <1>6
  <2>4. \A p : <<"btmToPersist", "PieceComplete">> \in S \/ (New("btmToPersist", <<"PieceComplete", g, p>>) => Old("btmToPersist", <<"PieceComplete", g, p>>))
    BY <1>1, <1>2, <1>5, <1>6
  <2>5. QED
    BY <2>1, <2>2, <2>3, <2>4
<1>17. QED
  BY <1>6, <1>7, <1>8, <1>9, <1>10, <1>11, <1>12, <1>14, <1>15, <1>16 DEF Frame

(* A step that is about torrent h. *)
Hop(c, sent, k, S, h) ==
    /\ Shift(c, sent) /\ Clear(c, sent, k, S, h)
    /\ \A g : g # h => Clear(c, sent, NoKind, {}, g)
Says(sent, S, h, c) ==
    /\ DOMAIN sent \subseteq Channels \ (Loading \cup {c})
    /\ \A d \in DOMAIN sent :
          sent[d] = <<>> \/ \E e \in EventsOf(d) : sent[d] = <<e>> /\ <<d, e[1]>> \in S /\ e[2] = h

(* What is said keeps all others out. *)
LEMMA SaysClear ==
  ASSUME QueuesTyped, NEW c \in (Channels \ Loading) \cup {None}, NEW sent, Step(c, sent),
         NEW S, NEW h, NEW k, Says(sent, S, h, c),
         c \in Channels => Head(q[c])[2] = h /\ <<c, Head(q[c])[1]>> = k
  PROVE  Hop(c, sent, k, S, h)
<1>1. Shift(c, sent) /\ \A d, x : x \in Range(Sent(sent, d)) => d \in DOMAIN sent /\ sent[d] = <<x>>
  BY StepMoves DEF Shift
<1>2. \A d : d \notin DOMAIN sent => Sent(sent, d) = <<>>
  BY StepMoves
<1>3. ASSUME NEW d, NEW x \in Range(Sent(sent, d)) PROVE <<d, x[1]>> \in S /\ x[2] = h
  <2>1. d \in DOMAIN sent /\ sent[d] = <<x>>
    BY <1>1
  <2>2. <<x>> # <<>>
    OBVIOUS
  <2>3. PICK e \in EventsOf(d) : sent[d] = <<e>> /\ <<d, e[1]>> \in S /\ e[2] = h
    BY <2>1, <2>2 DEF Says
  <2>4. e = x
    BY <2>1, <2>3
  <2>5. QED
    BY <2>3, <2>4
<1>4. /\ Sent(sent, "appToPersist") = <<>> /\ Sent(sent, "persistToApp") = <<>>
      /\ c # "appToPersist" /\ c # "persistToApp"
  BY <1>2 DEF Says, Loading, Channels, None
<1>5. Clear(c, sent, k, S, h)
  BY <1>3, <1>4 DEF Clear
<1>6. ASSUME NEW g, g # h PROVE Clear(c, sent, NoKind, {}, g)
  <2>1. \A d \in Channels : \A x \in Range(Sent(sent, d)) : x[2] # g
    BY <1>3, <1>6
  <2>2. ~(c \in Channels /\ Head(q[c])[2] = g)
    BY <1>6
  <2>3. QED
    BY <1>4, <2>1, <2>2 DEF Clear
<1>7. QED
  BY <1>1, <1>5, <1>6 DEF Hop

(* A handler, and a step that only sends. *)
LEMMA HopTaken ==
  ASSUME Inv, NEW s, NEW c \in Channels \ Loading, NEW type, Takes(s, c, type), NEW h, Event(c)[2] = h,
         NEW sent, Answers(c, sent), NEW S, Says(sent, S, h, c)
  PROVE  Hop(c, sent, <<c, type>>, S, h) /\ s \in active
<1>1. s \in active /\ q[c] # <<>> /\ Event(c) = Head(q[c]) /\ Event(c)[1] = type
  BY Taken
<1>2. Step(c, sent)
  BY <1>1 DEF Says, Step
<1>3. QED
  BY <1>1, <1>2, SaysClear DEF Inv, Typed

(* A step that only sends. *)
LEMMA HopSent ==
  ASSUME Inv, NEW sent, Pushes(sent), NEW S, NEW h, Says(sent, S, h, None)
  PROVE  Hop(None, sent, NoKind, S, h)
<1>1. Step(None, sent)
  BY DEF Says, Step
<1>2. None \notin Channels
  BY DEF None, Channels
<1>3. QED
  BY <1>1, <1>2, SaysClear DEF Inv, Typed

(* Nothing, one event and two events. *)
LEMMA SaysNothing ==
  ASSUME NEW S, NEW h, NEW c
  PROVE  Says(Nothing, S, h, c)
BY Records DEF Says

(* One event is sent. *)
LEMMA SaysOne ==
  ASSUME NEW c, NEW d \in Channels \ (Loading \cup {c}), NEW e \in EventsOf(d), NEW S, <<d, e[1]>> \in S,
         NEW h, e[2] = h, NEW sent, DOMAIN sent = {d}, sent[d] = <<e>>
  PROVE  Says(sent, S, h, c)
BY DEF Says

(* Two events are sent, to two queues. *)
LEMMA SaysTwo ==
  ASSUME NEW c, NEW d \in Channels \ (Loading \cup {c}), NEW e \in EventsOf(d), NEW S, <<d, e[1]>> \in S,
         NEW f \in Channels \ (Loading \cup {c}), NEW i \in EventsOf(f), <<f, i[1]>> \in S,
         NEW h, e[2] = h, i[2] = h, NEW sent, DOMAIN sent = {d, f}, sent[d] = <<e>>, sent[f] = <<i>>
  PROVE  Says(sent, S, h, c)
BY DEF Says

(* A step about one torrent keeps the frames of all. *)
LEMMA Hopped ==
  ASSUME Inv, NEW c, NEW sent, NEW k, NEW S, NEW h, Hop(c, sent, k, S, h)
  PROVE  Frame(k, S, h) /\ \A g : g # h => Frame(NoKind, {}, g)
BY Framed DEF Hop, Inv, Typed

(* What is sent arrives, and the last report is the one that is sent; what *)
(* is taken was there.                                                     *)
LEMMA Arrives ==
  ASSUME Inv, NEW c, NEW sent, Shift(c, sent), NEW d \in Channels, d # c, NEW t, NEW h,
         d \in DOMAIN sent, sent[d] = << <<t, h>> >>
  PROVE  /\ Way(d, t, h)'
         /\ d = "btmToApp" /\ t \in Reports => \A u \in Reports : Latest(u, h)' => u = t
<1>1. PICK s : s = q[d]
  OBVIOUS
<1>2. PICK e : e = <<t, h>>
  OBVIOUS
<1>3. Sent(sent, d) = <<e>>
  BY <1>2 DEF Sent
<1>4. s \in Seq(EventsOf(d)) /\ <<e>> \in Seq(EventsOf(d)) /\ q'[d] = s \o <<e>>
  <2>1. /\ q[d] \in Seq(EventsOf(d)) /\ Sent(sent, d) \in Seq(EventsOf(d))
        /\ q'[d] = q[d] \o Sent(sent, d)
    BY Shifted DEF Inv, Typed
  <2>2. QED
    BY <1>1, <1>3, <2>1
<1>5. e \in EventsOf(d)
  <2>1. Len(<<e>>) = 1 /\ <<e>>[1] = e /\ 1 \in 1 .. Len(<<e>>)
    OBVIOUS
  <2>2. \A i \in 1 .. Len(<<e>>) : <<e>>[i] \in EventsOf(d)
    BY <1>4, ElementOfSeq
  <2>3. QED
    BY <2>1, <2>2
<1>6. e \in Range(<<e>>)
  BY <1>5, Single
<1>7. Way(d, t, h)'
  BY <1>2, <1>4, <1>6, Joining DEF Way
<1>8. ASSUME d = "btmToApp", t \in Reports, NEW u \in Reports, Latest(u, h)' PROVE u = t
  <2>1. PICK X : X = Reports \X {h}
    OBVIOUS
  <2>2. PICK x : x = <<u, h>>
    OBVIOUS
  <2>3. e \in X /\ x \in X
    BY <1>2, <1>8, <2>1, <2>2
  <2>4. LastOf(s \o <<e>>, x, X)
    BY <1>4, <1>8, <2>1, <2>2 DEF Latest
  <2>5. x = e
    BY <1>4, <1>5, <2>3, <2>4, LastComes
  <2>6. QED
    BY <1>2, <2>2, <2>5
<1>9. QED
  BY <1>7, <1>8

(* The event that is taken was on its way. *)
LEMMA WasThere ==
  ASSUME Inv, NEW c \in Channels, NEW sent, Shift(c, sent), NEW t, NEW h, Head(q[c]) = <<t, h>>
  PROVE  Way(c, t, h)
BY Shifted DEF Inv, Typed, Way

(* After the first event is taken, no x is left if it was a y. *)
LEMMA NoneLeft ==
  ASSUME Inv, NEW c \in Channels, NEW sent, Shift(c, sent), NEW t, NEW u, NEW h, Head(q[c]) = <<u, h>>,
         Ahead(c, t, u, h)
  PROVE  ~Way(c, t, h)'
<1>1. PICK s : s = q[c]
  OBVIOUS
<1>2. s \in Seq(EventsOf(c)) /\ s # <<>> /\ q'[c] = Tail(s)
  BY <1>1, Shifted DEF Inv, Typed
<1>3. <<t, h>> \notin Range(Tail(s))
  BY <1>1, <1>2, NoneTake DEF Ahead
<1>4. QED
  BY <1>2, <1>3 DEF Way

------------------------------------------------------------------------------
(* The invariant.  It has a part for all torrents, and two for each: one   *)
(* about its data, which a removal before its pieces are loaded ("late")   *)
(* and a second entry ("early") excuse, and one about its entry, which a   *)
(* removal that read another info hash ("misread") and a report for an     *)
(* entry that was gone ("ghost") excuse as well.                           *)

(* What is in the database and on its way there is on disk. *)
Backed ==
    /\ onDisk \in [Torrents -> SUBSET Pieces] /\ torrentIds \subseteq DOMAIN db
    /\ \A h \in Torrents : h \in DOMAIN db => db[h] \subseteq onDisk[h]
    /\ \A h \in Torrents, p \in Pieces : Storing(h, p) => p \in onDisk[h]
(* An info hash leads to its entry, or to the nameless one, as 0 does. *)
Mapped ==
    /\ 0 \in DOMAIN idTorrentMap => idTorrentMap[0].hash = NoHash
    /\ \A g \in DOMAIN hashToIdMap : hashToIdMap[g] \in DOMAIN idTorrentMap
          => idTorrentMap[hashToIdMap[g]].hash \in {g, NoHash}
Loaded == "persist" \in active /\ q["appToPersist"] = <<>> => DOMAIN db \subseteq torrentIds
Held == DOMAIN torrents \subseteq DOMAIN pieceMan
Global == Backed /\ Mapped /\ Loaded /\ Held

(* A torrent that is to be downloaded is stored, and stays so. *)
Current(h) ==
    /\ \/ Way("appToBtm", "Start", h) \/ Undone(h) \/ Way("btmToDisk", "Init", h)
       \/ Way("diskToBtm", "Initialized", h)
       => h \in torrentIds /\ ~Way("btmToPersist", "Remove", h)
    /\ Ahead("appToBtm", "Start", "Remove", h)
    /\ Way("btmToPersist", "LoadPieces", h) => h \in torrentIds
    /\ Ahead("btmToPersist", "LoadPieces", "Remove", h)

(* The disk service knows a torrent before its pieces are written. *)
Prepared(h) ==
    /\ \/ Known(h) \/ Way("btmToPersist", "LoadPieces", h) \/ Way("diskToBtm", "Initialized", h)
       \/ PiecesWay(h)
       => h \in known \/ Way("btmToDisk", "Init", h)
    /\ h \in known \/ Prefixed(h)

(* A torrent that has peers has been told what it lacks; requests for its  *)
(* trackers that are not, are those of a torrent that was removed.         *)
Tracked(h) == Way("btmToPersist", "LoadTrackers", h) \/ Way("persistToBtm", "Trackers", h)
Stale(h) ==
    /\ ~Known(h) /\ ~Way("appToBtm", "Start", h) /\ ~Way("btmToApp", "Added", h)
    /\ ~Carries("persistToApp", h) /\ q["appToPersist"] = <<>>
    /\ Ahead("persistToBtm", "Trackers", "Added", h)
    /\ Ahead("btmToPersist", "LoadTrackers", "Remove", h)
    /\ Way("btmToPersist", "LoadTrackers", h) => h \in torrentIds /\ ~Way("persistToBtm", "Added", h)
Populated(h) ==
    /\ Covered(h)
    /\ h \in announced => Good(h)
    /\ Tracked(h) => Good(h) \/ Stale(h)

(* A torrent that is complete, or said or shown to be so, has its pieces. *)
ShownDone(h) == \E id \in Shown(h) : idTorrentMap[id].state = "Completed"
Had(h) ==
    IsComplete(h) \/ Way("btmToApp", "Completed", h) \/ ShownDone(h) => Pieces \subseteq Have(h)

(* A torrent that is to be downloaded is on its way to its trackers. *)
OnTheWay(h) ==
    Undone(h) => \/ h \in announced \/ <<"silent", h>> \in history
                 \/ Way("btmToDisk", "Init", h) \/ Way("diskToBtm", "Initialized", h)
                 \/ Way("btmToPersist", "LoadPieces", h) \/ PiecesWay(h) \/ Tracked(h)

(* A torrent that is stored has a life. *)
Registered(h) ==
    h \in torrentIds => \/ Shown(h) # {} \/ Carries("persistToApp", h)
                        \/ Way("persistToBtm", "Added", h) \/ Way("btmToApp", "Added", h)
                        \/ Way("appToBtm", "Remove", h) \/ Way("btmToPersist", "Remove", h)
MapsTo(h) ==
    /\ Shown(h) = {} => h \notin DOMAIN hashToIdMap
    /\ \A id \in Shown(h) : id # 0 /\ h \in DOMAIN hashToIdMap /\ hashToIdMap[h] = id

(* What BitTorrentManager last reported, or else what is shown, is what it *)
(* has.                                                                    *)
Fits(state, h) ==
    \/ state = "Running" /\ Undone(h) /\ Active(h)
    \/ state = "Stopped" /\ Known(h) /\ ~Active(h)
    \/ state = "Completed" /\ IsComplete(h)
Reported(t, h) ==
    \/ t = "Resumed" /\ Undone(h) /\ Active(h)
    \/ t = "Stopped" /\ Known(h) /\ ~Active(h)
    \/ t = "Completed" /\ IsComplete(h)
Unreported(h) == /\ ~Way("btmToApp", "Stopped", h) /\ ~Way("btmToApp", "Completed", h)
                 /\ ~Way("btmToApp", "Resumed", h)
AllFit(h) == \A id \in Shown(h) : Fits(idTorrentMap[id].state, h)
Agrees(h) ==
    Shown(h) # {} /\ ~Way("appToBtm", "Start", h) =>
        /\ \A t \in Reports : Latest(t, h) => Reported(t, h)
        /\ Unreported(h) => AllFit(h)

Spoilt(h) == Unexpected({"late", "early"}, h)
Muddled(h) == Unexpected({"late", "early", "misread", "ghost"}, h)
Sound(h) == Current(h) /\ Prepared(h) /\ Populated(h) /\ Had(h) /\ OnTheWay(h)
Tidy(h) == Registered(h) /\ MapsTo(h) /\ Agrees(h)
Each(h) == (Spoilt(h) \/ Sound(h)) /\ (Muddled(h) \/ Tidy(h))
Whole == Global /\ \A h \in Torrents : Each(h)

------------------------------------------------------------------------------
(* Torrents that a step is not about. *)
SameAt(f, g, h) == (h \in DOMAIN g <=> h \in DOMAIN f) /\ (h \in DOMAIN f => g[h] = f[h])
SameEntries(h) == /\ Shown(h)' = Shown(h) /\ SameAt(hashToIdMap, hashToIdMap', h)
                  /\ \A id \in Shown(h) : idTorrentMap'[id].state = idTorrentMap[id].state
SameBtm(h) == /\ SameAt(torrents, torrents', h) /\ SameAt(pieceMan, pieceMan', h)
              /\ (h \in announced' <=> h \in announced)
SameStored(h) == /\ (h \in known' <=> h \in known) /\ onDisk'[h] = onDisk[h]
                 /\ (h \in torrentIds' <=> h \in torrentIds)

(* BitTorrentManager has a torrent as before, and nothing stored is lost. *)
LEMMA SameState ==
  ASSUME NEW h, SameBtm(h), onDisk[h] \subseteq onDisk'[h], Writing(h) \subseteq Writing(h)'
  PROVE  /\ Known(h)' <=> Known(h)
         /\ Undone(h)' <=> Undone(h)
         /\ IsComplete(h)' <=> IsComplete(h)
         /\ Active(h)' <=> Active(h)
         /\ Good(h) => Good(h)'
         /\ Have(h) \subseteq Have(h)'
<1>1. /\ h \in DOMAIN torrents' <=> h \in DOMAIN torrents
      /\ h \in DOMAIN torrents => torrents'[h] = torrents[h]
      /\ h \in DOMAIN pieceMan' <=> h \in DOMAIN pieceMan
      /\ h \in DOMAIN pieceMan => pieceMan'[h] = pieceMan[h]
  BY DEF SameBtm, SameAt
<1>2. Have(h) \subseteq Have(h)'
  BY DEF Have
<1>3. Good(h) => Good(h)'
  BY <1>1, <1>2 DEF Good
<1>4. Known(h)' <=> Known(h)
  BY <1>1 DEF Known
<1>5. (Undone(h)' <=> Undone(h)) /\ (IsComplete(h)' <=> IsComplete(h)) /\ (Active(h)' <=> Active(h))
  BY <1>1 DEF Undone, IsComplete, Active
<1>6. QED
  BY <1>2, <1>3, <1>4, <1>5

(* What is noted stays noted. *)
LEMMA Noted ==
  ASSUME history \subseteq history', NEW h
  PROVE  (Spoilt(h) => Spoilt(h)') /\ (Muddled(h) => Muddled(h)') /\ (Spoilt(h) => Muddled(h))
BY DEF Spoilt, Muddled, Unexpected

(* The invariant of a torrent that a step is not about. *)
LEMMA EachKeeps ==
  ASSUME NEW h, Each(h), Frame(NoKind, {}, h), history \subseteq history',
         SameBtm(h), SameStored(h), SameEntries(h)
  PROVE  Each(h)'
<1>1. (Spoilt(h) => Spoilt(h)') /\ (Muddled(h) => Muddled(h)')
  BY Noted
<1>2. /\ Known(h)' <=> Known(h)
      /\ Undone(h)' <=> Undone(h)
      /\ IsComplete(h)' <=> IsComplete(h)
      /\ Active(h)' <=> Active(h)
      /\ Good(h) => Good(h)'
      /\ Have(h) \subseteq Have(h)'
  <2>1. Writing(h) \subseteq Writing(h)'
    BY DEF Frame, NoKind
  <2>2. onDisk[h] \subseteq onDisk'[h]
    BY DEF SameStored
  <2>3. QED
    BY <2>1, <2>2, SameState
<1>3. /\ h \in announced' <=> h \in announced
      /\ h \in known' <=> h \in known
      /\ h \in torrentIds' <=> h \in torrentIds
      /\ onDisk[h] \subseteq onDisk'[h]
      /\ Shown(h)' = Shown(h)
  BY DEF SameBtm, SameStored, SameEntries
<1>4. Current(h) => Current(h)'
  BY <1>2, <1>3 DEF Frame, WayFrame, AheadFrame, NoKind, Current
<1>5. Prepared(h) => Prepared(h)'
  BY <1>2, <1>3 DEF Frame, WayFrame, AheadFrame, NoKind, Prepared
<1>6. Populated(h) => Populated(h)'
  <2>1. Tracked(h)' => Tracked(h)
    BY DEF Frame, WayFrame, NoKind, Tracked
  <2>2. Stale(h) => Stale(h)'
    BY <1>2, <1>3 DEF Frame, WayFrame, AheadFrame, NoKind, Stale
  <2>3. Covered(h) => Covered(h)'
    BY <1>3 DEF Frame, NoKind
  <2>4. QED
    BY <1>2, <1>3, <2>1, <2>2, <2>3 DEF Populated
<1>7. Had(h) => Had(h)'
  <2>1. ShownDone(h)' => ShownDone(h)
    BY DEF SameEntries, ShownDone
  <2>2. Way("btmToApp", "Completed", h)' => Way("btmToApp", "Completed", h)
    BY DEF Frame, WayFrame, NoKind
  <2>3. QED
    BY <1>2, <2>1, <2>2 DEF Had
<1>8. OnTheWay(h) => OnTheWay(h)'
  BY <1>2, <1>3 DEF Frame, WayFrame, NoKind, OnTheWay, Tracked
<1>9. Registered(h) => Registered(h)'
  BY <1>3 DEF Frame, WayFrame, NoKind, Registered
<1>10. MapsTo(h) => MapsTo(h)'
  BY <1>3 DEF SameEntries, SameAt, MapsTo
<1>11. Agrees(h) => Agrees(h)'
  <2>1. (\A t \in Reports : Latest(t, h) => Reported(t, h)) => \A t \in Reports : Latest(t, h)' => Reported(t, h)'
    <3>1. \A t \in Reports : Latest(t, h)' => Latest(t, h)
      BY DEF Frame, NoKind
    <3>2. \A t : Reported(t, h)' <=> Reported(t, h)
      BY <1>2 DEF Reported
    <3>3. QED
      BY <3>1, <3>2
  <2>2. Unreported(h)' => Unreported(h)
    BY DEF Frame, WayFrame, NoKind, Unreported
  <2>4. AllFit(h) => AllFit(h)'
    BY <1>2, <1>3 DEF SameEntries, AllFit, Fits
  <2>5. Way("appToBtm", "Start", h) => Way("appToBtm", "Start", h)'
    BY DEF Frame, WayFrame, NoKind
  <2>6. QED
    BY <1>3, <2>1, <2>2, <2>4, <2>5 DEF Agrees
<1>12. QED
  BY <1>1, <1>4, <1>5, <1>6, <1>7, <1>8, <1>9, <1>10, <1>11 DEF Each, Sound, Tidy

-------------------------------------------------------------------------------
(* Steps that change queues only. *)

(* Entries that do not change. *)
LEMMA EntriesSame ==
  ASSUME UNCHANGED appVars
  PROVE  (\A h : SameEntries(h)) /\ (Mapped => Mapped')
BY DEF appVars, SameEntries, SameAt, Shown, Mapped

(* A step that changes one torrent for BitTorrentManager and the disk      *)
(* service, and stores nothing.                                            *)
LEMMA About ==
  ASSUME Inv, Whole, NEW c, NEW sent, NEW k, NEW S, NEW h, Hop(c, sent, k, S, h),
         c # "appToPersist",
         UNCHANGED <<active, appVars, onDisk, persistVars>>, history \subseteq history', Held',
         \A g : g # h => SameBtm(g) /\ (g \in known' <=> g \in known),
         \A p \in Pieces : Storing(h, p)' => Storing(h, p), h \in Torrents => Each(h)'
  PROVE  Whole'
<1>1. \A g : g # h => Frame(NoKind, {}, g)
  BY Hopped
<1>2. (\A g : SameEntries(g)) /\ (Mapped => Mapped')
  BY EntriesSame
<1>3. \A g : g # h => SameStored(g)
  BY DEF SameStored, persistVars
<1>4. ASSUME NEW g \in Torrents PROVE Each(g)'
  <2>1. CASE g = h
    BY <2>1
  <2>2. CASE g # h
    <3>1. Each(g) /\ SameBtm(g) /\ SameStored(g) /\ SameEntries(g) /\ Frame(NoKind, {}, g)
      BY <1>1, <1>2, <1>3, <2>2 DEF Whole
    <3>2. QED
      BY <3>1, EachKeeps
  <2>3. QED
    BY <2>1, <2>2
<1>5. ASSUME NEW g \in Torrents, NEW p \in Pieces, Storing(g, p)' PROVE Storing(g, p)
  <2>1. CASE g # h
    BY <1>1, <1>5, <2>1 DEF Frame
  <2>2. CASE g = h
    BY <1>5, <2>2
  <2>3. QED
    BY <2>1, <2>2
<1>6. Backed'
  BY <1>5 DEF Whole, Global, Backed, persistVars
<1>7. q'["appToPersist"] = q["appToPersist"]
  BY Untouched DEF Hop, Shift, Clear, Channels, Inv, Typed
<1>8. Loaded'
  BY <1>7 DEF Whole, Global, Loaded, persistVars
<1>9. QED
  BY <1>2, <1>4, <1>6, <1>8 DEF Whole, Global

(* A step that changes the queues only, by events that do not matter. *)
LEMMA Aside ==
  ASSUME Inv, Whole, NEW c, NEW sent, NEW k, NEW S, NEW h, Hop(c, sent, k, S, h),
         Frame(k, S, h) => Frame(NoKind, {}, h), c # "appToPersist",
         UNCHANGED <<active, appVars, btmVars, known, onDisk, persistVars>>, history \subseteq history'
  PROVE  Whole'
<1>1. Frame(NoKind, {}, h)
  BY Hopped
<1>2. (\A g : SameBtm(g)) /\ (\A g : g \in known' <=> g \in known)
  BY DEF btmVars, SameBtm, SameAt
<1>3. Held'
  BY DEF Whole, Global, Held, btmVars
<1>4. h \in Torrents => Each(h)'
  <2>1. SameStored(h) /\ SameEntries(h)
    BY EntriesSame DEF SameStored, persistVars
  <2>2. QED
    BY <1>1, <1>2, <2>1, EachKeeps DEF Whole
<1>5. \A p \in Pieces : Storing(h, p)' => Storing(h, p)
  BY <1>1 DEF Frame
<1>6. QED
  BY <1>2, <1>3, <1>4, <1>5, About

(* Events that go on to another service. *)
LEMMA ForwardHops ==
  ASSUME Inv, NEW c \in Channels \ Loading, NEW to \in Channels \ Loading, c # to, NEW type, NEW as,
         Takes("btm", c, type), NEW e \in EventsOf(to), e[1] = as, NEW h, e[2] = h, Event(c)[2] = h,
         NEW sent, sent = [t \in {to} |-> <<e>>], Answers(c, sent)
  PROVE  /\ Hop(c, sent, <<c, type>>, {<<to, as>>}, h)
         /\ to \in DOMAIN sent /\ sent[to] = <<e>>
<1>1. DOMAIN sent = {to} /\ sent[to] = <<e>>
  OBVIOUS
<1>2. Says(sent, {<<to, as>>}, h, c)
  BY <1>1, SaysOne
<1>3. Hop(c, sent, <<c, type>>, {<<to, as>>}, h)
  BY <1>2, HopTaken
<1>4. QED
  BY <1>1, <1>3

(* A handler that only passes its event on to another service. *)
LEMMA Forwarding ==
  ASSUME Inv, Whole, NEW c \in Channels \ Loading, NEW to \in Channels \ Loading, c # to, NEW type, NEW as,
         Forwards(c, type, to, as), NEW h \in Hashes, Event(c) = <<type, h>>, <<as, h>> \in EventsOf(to),
         [Event(c) EXCEPT ![1] = as] = <<as, h>>,
         Frame(<<c, type>>, {<<to, as>>}, h) => Frame(NoKind, {}, h)
  PROVE  Whole'
<1>1. PICK e \in EventsOf(to) : e = <<as, h>>
  OBVIOUS
<1>2. e[1] = as /\ e[2] = h
  BY <1>1
<1>3. Event(c)[2] = h
  OBVIOUS
<1>4. PICK sent : sent = [t \in {to} |-> <<e>>]
  OBVIOUS
<1>5. Answers(c, sent) /\ Takes("btm", c, type)
  BY <1>1, <1>4 DEF Forwards
<1>6. Hop(c, sent, <<c, type>>, {<<to, as>>}, h)
  BY <1>2, <1>3, <1>4, <1>5, ForwardHops, ZenonT(40)
<1>7. UNCHANGED <<active, appVars, btmVars, known, onDisk, persistVars>> /\ history \subseteq history'
  BY DEF Forwards
<1>8. c # "appToPersist"
  BY DEF Loading
<1>9. QED
  BY <1>6, <1>7, <1>8, Aside

(* Events that make no difference, as far as the frame goes. *)
LEMMA NoDifference ==
  ASSUME NEW h
  PROVE  /\ Frame(<<"appToBtm", "Add">>, {<<"btmToDisk", "Read">>}, h) => Frame(NoKind, {}, h)
         /\ Frame(<<"diskToBtm", "ReadSuccess">>, {<<"btmToPersist", "AddTorrent">>}, h) => Frame(NoKind, {}, h)
         /\ Frame(<<"persistToBtm", "Exists">>, {<<"btmToApp", "AddError">>}, h) => Frame(NoKind, {}, h)
         /\ Frame(<<"btmToDisk", "Read">>, {<<"diskToBtm", "ReadSuccess">>}, h) => Frame(NoKind, {}, h)
         /\ Frame(<<"btmToPersist", "AddTorrent">>, {<<"persistToBtm", "Exists">>}, h) => Frame(NoKind, {}, h)
         /\ Frame(NoKind, {<<"appToBtm", "Add">>}, h) => Frame(NoKind, {}, h)
         /\ Frame(NoKind, {<<"appToBtm", "Stop">>}, h) => Frame(NoKind, {}, h)
         /\ Frame(NoKind, {<<"appToBtm", "Resume">>}, h) => Frame(NoKind, {}, h)
         /\ Frame(<<"btmToApp", "AddError">>, {}, h) => Frame(NoKind, {}, h)
         /\ Frame(<<"btmToApp", "Removed">>, {}, h) => Frame(NoKind, {}, h)
         /\ Frame(<<"btmToPersist", "PieceComplete">>, {}, h) => Frame(NoKind, {}, h)
<1>1. Frame(<<"appToBtm", "Add">>, {<<"btmToDisk", "Read">>}, h) => Frame(NoKind, {}, h)
  BY DEF Frame, WayFrame, AheadFrame, NoKind, Reports
<1>2. Frame(<<"diskToBtm", "ReadSuccess">>, {<<"btmToPersist", "AddTorrent">>}, h) => Frame(NoKind, {}, h)
  BY DEF Frame, WayFrame, AheadFrame, NoKind, Reports
<1>3. Frame(<<"persistToBtm", "Exists">>, {<<"btmToApp", "AddError">>}, h) => Frame(NoKind, {}, h)
  BY DEF Frame, WayFrame, AheadFrame, NoKind, Reports
<1>4. Frame(<<"btmToDisk", "Read">>, {<<"diskToBtm", "ReadSuccess">>}, h) => Frame(NoKind, {}, h)
  BY DEF Frame, WayFrame, AheadFrame, NoKind, Reports
<1>5. Frame(<<"btmToPersist", "AddTorrent">>, {<<"persistToBtm", "Exists">>}, h) => Frame(NoKind, {}, h)
  BY DEF Frame, WayFrame, AheadFrame, NoKind, Reports
<1>6. Frame(NoKind, {<<"appToBtm", "Add">>}, h) => Frame(NoKind, {}, h)
  BY DEF Frame, WayFrame, AheadFrame, NoKind, Reports
<1>7. Frame(NoKind, {<<"appToBtm", "Stop">>}, h) => Frame(NoKind, {}, h)
  BY DEF Frame, WayFrame, AheadFrame, NoKind, Reports
<1>8. Frame(NoKind, {<<"appToBtm", "Resume">>}, h) => Frame(NoKind, {}, h)
  BY DEF Frame, WayFrame, AheadFrame, NoKind, Reports
<1>9. Frame(<<"btmToApp", "AddError">>, {}, h) => Frame(NoKind, {}, h)
  BY DEF Frame, WayFrame, AheadFrame, NoKind, Reports
<1>10. Frame(<<"btmToApp", "Removed">>, {}, h) => Frame(NoKind, {}, h)
  BY DEF Frame, WayFrame, AheadFrame, NoKind, Reports
<1>11. Frame(<<"btmToPersist", "PieceComplete">>, {}, h) => Frame(NoKind, {}, h)
  BY DEF Frame, WayFrame, AheadFrame, NoKind, Reports
<1>12. QED
  BY <1>1, <1>2, <1>3, <1>4, <1>5, <1>6, <1>7, <1>8, <1>9, <1>10, <1>11

(* ProcessAdd, ProcessReadSuccess and ProcessExists. *)
LEMMA AddKeeps ==
  ASSUME Inv, Whole, ProcessAdd \/ ProcessReadSuccess \/ ProcessExists
  PROVE  Whole'
<1>0. {"appToBtm", "diskToBtm", "persistToBtm", "btmToDisk", "btmToPersist", "btmToApp"} = Channels \ Loading
  BY Names
<1>1. CASE ProcessAdd
  <2>1. Forwards("appToBtm", "Add", "btmToDisk", "Read")
    BY <1>1 DEF ProcessAdd
  <2>2. Event("appToBtm") \in EventsOf("appToBtm") /\ Event("appToBtm")[1] = "Add"
    BY <1>0, <2>1, Taken DEF Forwards
  <2>3. PICK h \in Hashes : Event("appToBtm") = <<"Add", h>>
    BY <2>2, Shapes
  <2>4. <<"Read", h>> \in EventsOf("btmToDisk")
    BY Made
  <2>5. [Event("appToBtm") EXCEPT ![1] = "Read"] = <<"Read", h>>
    BY <2>3
  <2>6. QED
    BY <1>0, <2>1, <2>3, <2>4, <2>5, Forwarding, NoDifference
<1>2. CASE ProcessReadSuccess
  <2>1. Forwards("diskToBtm", "ReadSuccess", "btmToPersist", "AddTorrent")
    BY <1>2 DEF ProcessReadSuccess
  <2>2. Event("diskToBtm") \in EventsOf("diskToBtm") /\ Event("diskToBtm")[1] = "ReadSuccess"
    BY <1>0, <2>1, Taken DEF Forwards
  <2>3. PICK h \in Hashes : Event("diskToBtm") = <<"ReadSuccess", h>>
    BY <2>2, Shapes
  <2>4. <<"AddTorrent", h>> \in EventsOf("btmToPersist")
    BY Made
  <2>5. [Event("diskToBtm") EXCEPT ![1] = "AddTorrent"] = <<"AddTorrent", h>>
    BY <2>3
  <2>6. QED
    BY <1>0, <2>1, <2>3, <2>4, <2>5, Forwarding, NoDifference
<1>3. CASE ProcessExists
  <2>1. Forwards("persistToBtm", "Exists", "btmToApp", "AddError")
    BY <1>3 DEF ProcessExists
  <2>2. Event("persistToBtm") \in EventsOf("persistToBtm") /\ Event("persistToBtm")[1] = "Exists"
    BY <1>0, <2>1, Taken DEF Forwards
  <2>3. PICK h \in Hashes : Event("persistToBtm") = <<"Exists", h>>
    BY <2>2, Shapes
  <2>4. <<"AddError", h>> \in EventsOf("btmToApp")
    BY Made
  <2>5. [Event("persistToBtm") EXCEPT ![1] = "AddError"] = <<"AddError", h>>
    BY <2>3
  <2>6. QED
    BY <1>0, <2>1, <2>3, <2>4, <2>5, Forwarding, NoDifference
<1>4. QED
  BY <1>1, <1>2, <1>3

(* Commands that only tell BitTorrentManager. *)
LEMMA CommandKeeps ==
  ASSUME Inv, Whole, \/ \E h \in Torrents : addTorrent(h)
                     \/ \E id \in DOMAIN idTorrentMap : stopTorrent(id) \/ resumeTorrent(id)
  PROVE  Whole'
<1>1. "appToBtm" \in Channels \ (Loading \cup {None}) /\ None # "appToPersist"
  BY DEF Channels, Loading, None
<1>2. PICK t \in {"Add", "Stop", "Resume"}, h \in Hashes :
          /\ Pushes([appToBtm |-> << <<t, h>> >>])
          /\ UNCHANGED <<active, appVars, btmVars, known, onDisk, persistVars, history>>
  <2>1. \A id \in DOMAIN idTorrentMap : idTorrentMap[id].hash \in Hashes
    BY DEF Inv, Typed, EntriesTyped
  <2>2. CASE \E h \in Torrents : addTorrent(h)
    BY <2>2 DEF addTorrent, Hashes
  <2>3. CASE \E id \in DOMAIN idTorrentMap : stopTorrent(id)
    BY <2>1, <2>3 DEF stopTorrent
  <2>4. CASE \E id \in DOMAIN idTorrentMap : resumeTorrent(id)
    BY <2>1, <2>4 DEF resumeTorrent
  <2>5. QED
    BY <2>2, <2>3, <2>4
<1>3. <<t, h>> \in EventsOf("appToBtm") /\ <<t, h>>[1] = t /\ <<t, h>>[2] = h
  BY Made
<1>4. PICK sent : sent = [appToBtm |-> << <<t, h>> >>]
  OBVIOUS
<1>5. Says(sent, {<<"appToBtm", t>>}, h, None)
  BY <1>1, <1>3, <1>4, Records, SaysOne
<1>6. Hop(None, sent, NoKind, {<<"appToBtm", t>>}, h)
  BY <1>2, <1>4, <1>5, HopSent
<1>7. Frame(NoKind, {<<"appToBtm", t>>}, h) => Frame(NoKind, {}, h)
  BY NoDifference
<1>8. UNCHANGED <<active, appVars, btmVars, known, onDisk, persistVars>> /\ history \subseteq history'
  BY <1>2
<1>9. QED
  BY <1>1, <1>6, <1>7, <1>8, Aside

(* Answers that are only shown. *)
LEMMA OnlyShownKeeps ==
  ASSUME Inv, Whole, OnlyShown
  PROVE  Whole'
<1>1. PICK type \in {"AddError", "Removed"} : Takes("app", "btmToApp", type)
  BY DEF OnlyShown
<1>2. Answers("btmToApp", Nothing) /\ "btmToApp" \in Channels \ Loading /\ "btmToApp" # "appToPersist"
  BY DEF OnlyShown, Channels, Loading
<1>3. PICK h : h = Event("btmToApp")[2]
  OBVIOUS
<1>4. Hop("btmToApp", Nothing, <<"btmToApp", type>>, {}, h)
  BY <1>1, <1>2, <1>3, SaysNothing, HopTaken
<1>5. UNCHANGED <<active, appVars, btmVars, known, onDisk, persistVars>> /\ history \subseteq history'
  BY DEF OnlyShown
<1>6. Frame(<<"btmToApp", type>>, {}, h) => Frame(NoKind, {}, h)
  BY NoDifference
<1>7. QED
  BY <1>2, <1>4, <1>5, <1>6, Aside

(* DiskRead. *)
LEMMA DiskReadKeeps ==
  ASSUME Inv, Whole, DiskRead
  PROVE  Whole'
<1>1. /\ "btmToDisk" \in Channels \ Loading /\ "diskToBtm" \in Channels \ (Loading \cup {"btmToDisk"})
      /\ "btmToDisk" # "appToPersist"
  BY Names
<1>2. Takes("disk", "btmToDisk", "Read")
  BY DEF DiskRead
<1>3. Event("btmToDisk") \in EventsOf("btmToDisk") /\ Event("btmToDisk")[1] = "Read"
  BY <1>1, <1>2, Taken
<1>4. PICK h \in Hashes : Event("btmToDisk") = <<"Read", h>>
  BY <1>3, Shapes
<1>5. Event("btmToDisk")[2] = h
  BY <1>4
<1>6. PICK sent : Answers("btmToDisk", sent) /\ Says(sent, {<<"diskToBtm", "ReadSuccess">>}, h, "btmToDisk")
  <2>1. PICK sent : /\ sent = Nothing \/ sent = [diskToBtm |-> << <<"ReadSuccess", h>> >>]
                    /\ Answers("btmToDisk", sent)
    BY <1>5 DEF DiskRead
  <2>2. CASE sent = Nothing
    BY <2>1, <2>2, SaysNothing
  <2>3. CASE sent = [diskToBtm |-> << <<"ReadSuccess", h>> >>]
    <3>1. <<"ReadSuccess", h>> \in EventsOf("diskToBtm") /\ <<"ReadSuccess", h>>[1] = "ReadSuccess"
          /\ <<"ReadSuccess", h>>[2] = h
      BY Events
    <3>2. Says(sent, {<<"diskToBtm", "ReadSuccess">>}, h, "btmToDisk")
      BY <1>1, <2>3, <3>1, Records, SaysOne
    <3>3. QED
      BY <2>1, <3>2
  <2>4. QED
    BY <2>1, <2>2, <2>3
<1>7. Hop("btmToDisk", sent, <<"btmToDisk", "Read">>, {<<"diskToBtm", "ReadSuccess">>}, h)
  BY <1>1, <1>2, <1>5, <1>6, HopTaken
<1>8. UNCHANGED <<active, appVars, btmVars, known, onDisk, persistVars>> /\ history \subseteq history'
  BY DEF DiskRead
<1>9. QED
  BY <1>1, <1>7, <1>8, NoDifference, Aside

(* PersistAdd of a torrent that is known. *)
LEMMA ExistsKeeps ==
  ASSUME Inv, Whole, PersistAdd, Event("btmToPersist")[2] \in torrentIds
  PROVE  Whole'
<1>1. /\ "btmToPersist" \in Channels \ Loading /\ "persistToBtm" \in Channels \ (Loading \cup {"btmToPersist"})
      /\ "btmToPersist" # "appToPersist"
  BY Names
<1>2. Takes("persist", "btmToPersist", "AddTorrent")
  BY DEF PersistAdd
<1>3. Event("btmToPersist") \in EventsOf("btmToPersist") /\ Event("btmToPersist")[1] = "AddTorrent"
  BY <1>1, <1>2, Taken
<1>4. PICK h \in Hashes : Event("btmToPersist") = <<"AddTorrent", h>>
  BY <1>3, Shapes
<1>5. Event("btmToPersist")[2] = h
  BY <1>4
<1>6. PICK sent : sent = [persistToBtm |-> << <<"Exists", h>> >>]
  OBVIOUS
<1>7. Answers("btmToPersist", sent)
  BY <1>5, <1>6 DEF PersistAdd
<1>8. Says(sent, {<<"persistToBtm", "Exists">>}, h, "btmToPersist")
  <2>1. <<"Exists", h>> \in EventsOf("persistToBtm") /\ <<"Exists", h>>[1] = "Exists" /\ <<"Exists", h>>[2] = h
    BY Events
  <2>2. QED
    BY <1>1, <1>6, <2>1, Records, SaysOne
<1>9. Hop("btmToPersist", sent, <<"btmToPersist", "AddTorrent">>, {<<"persistToBtm", "Exists">>}, h)
  BY <1>1, <1>2, <1>5, <1>7, <1>8, HopTaken
<1>10. UNCHANGED <<active, appVars, btmVars, known, onDisk, persistVars>> /\ history \subseteq history'
  BY <1>5 DEF PersistAdd, persistVars
<1>11. QED
  BY <1>1, <1>9, <1>10, NoDifference, Aside

(* A piece that is reported to be written is on disk. *)
LEMMA WriteSuccessKeeps ==
  ASSUME Inv, Whole, ProcessWriteSuccess
  PROVE  Whole'
<1>1. /\ "diskToBtm" \in Channels \ Loading /\ "btmToPersist" \in Channels \ Loading
      /\ "diskToBtm" # "appToPersist" /\ "diskToBtm" # "btmToPersist"
  BY Names
<1>2. Forwards("diskToBtm", "WriteSuccess", "btmToPersist", "PieceComplete")
  BY DEF ProcessWriteSuccess
<1>3. Event("diskToBtm") \in EventsOf("diskToBtm") /\ Event("diskToBtm")[1] = "WriteSuccess"
  BY <1>1, <1>2, Taken DEF Forwards
<1>4. PICK h \in Hashes, p \in Pieces : Event("diskToBtm") = <<"WriteSuccess", h, p>>
  BY <1>3, Shapes
<1>5. PICK e \in EventsOf("btmToPersist") : e = <<"PieceComplete", h, p>>
  BY Made
<1>6. e = [Event("diskToBtm") EXCEPT ![1] = "PieceComplete"]
  <2>1. [Event("diskToBtm") EXCEPT ![1] = "PieceComplete"] = <<"PieceComplete", h, p>>
    BY <1>4
  <2>2. QED
    BY <1>5, <2>1
<1>7. Event("diskToBtm")[2] = h /\ e[1] = "PieceComplete" /\ e[2] = h
  BY <1>4, <1>5
<1>8. PICK sent : /\ Hop("diskToBtm", sent, <<"diskToBtm", "WriteSuccess">>, {<<"btmToPersist", "PieceComplete">>}, h)
                  /\ "btmToPersist" \in DOMAIN sent /\ sent["btmToPersist"] = <<e>>
  <2>1. PICK sent : sent = [t \in {"btmToPersist"} |-> <<e>>]
    OBVIOUS
  <2>2. Answers("diskToBtm", sent) /\ Takes("btm", "diskToBtm", "WriteSuccess")
    BY <1>2, <1>6, <2>1 DEF Forwards
  <2>3. QED
    BY <1>1, <1>7, <2>1, <2>2, ForwardHops
<1>9. UNCHANGED <<active, appVars, btmVars, known, onDisk, persistVars>> /\ history \subseteq history'
  BY <1>2 DEF Forwards
<1>10. Frame(<<"diskToBtm", "WriteSuccess">>, {<<"btmToPersist", "PieceComplete">>}, h)
  BY <1>8, Hopped
<1>11. ASSUME NEW r \in Pieces, Storing(h, r)' PROVE Storing(h, r)
  <2>1. Shift("diskToBtm", sent)
    BY <1>8 DEF Hop
  <2>2. Sent(sent, "btmToPersist") = <<e>> /\ \A x : x \in Range(<<e>>) <=> x = e
    BY <1>8, Single DEF Sent
  <2>3. /\ \A x : x \in Range(q'["diskToBtm"]) => x \in Range(q["diskToBtm"])
        /\ Head(q["diskToBtm"]) \in Range(q["diskToBtm"])
    BY <1>1, <2>1, Shifted DEF Inv, Typed
  <2>4. \A x : x \in Range(q'["btmToPersist"]) => x \in Range(q["btmToPersist"]) \/ x = e
    BY <1>1, <2>1, <2>2, Shifted DEF Inv, Typed
  <2>5. <<"PieceComplete", h, r>> = e => <<"WriteSuccess", h, r>> = Head(q["diskToBtm"])
    BY <1>4, <1>5 DEF Event
  <2>6. QED
    BY <1>11, <2>3, <2>4, <2>5 DEF Storing
<1>12. (\A g : SameBtm(g)) /\ (\A g : g \in known' <=> g \in known) /\ Held'
  BY <1>9 DEF btmVars, SameBtm, SameAt, Whole, Global, Held
<1>13. h \in Torrents => Each(h)'
  <2>1. SameStored(h) /\ SameEntries(h)
    BY <1>9, EntriesSame DEF SameStored, persistVars
  <2>2. Frame(NoKind, {}, h)
    BY <1>10, <1>11 DEF Frame, WayFrame, AheadFrame, NoKind, Reports
  <2>3. QED
    BY <1>9, <1>12, <2>1, <2>2, EachKeeps DEF Whole
<1>14. QED
  BY <1>1, <1>8, <1>9, <1>11, <1>12, <1>13, About

(* A torrent for which only queues change. *)
Alike(h) ==
    /\ Known(h)' <=> Known(h)
    /\ Undone(h)' <=> Undone(h)
    /\ IsComplete(h)' <=> IsComplete(h)
    /\ Active(h)' <=> Active(h)
    /\ Good(h) => Good(h)'
    /\ Have(h) \subseteq Have(h)'
    /\ h \in announced' <=> h \in announced
    /\ h \in known' <=> h \in known
    /\ h \in torrentIds' <=> h \in torrentIds
    /\ onDisk[h] \subseteq onDisk'[h]
    /\ Shown(h)' = Shown(h)
    /\ ShownDone(h)' <=> ShownDone(h)
    /\ MapsTo(h)' <=> MapsTo(h)

(* So it is when a step changes queues only, and no write is taken. *)
LEMMA OnlyQueues ==
  ASSUME NEW k, NEW S, NEW h, Frame(k, S, h), k # <<"btmToDisk", "Write">>,
         UNCHANGED <<appVars, btmVars, known, onDisk, persistVars>>
  PROVE  Alike(h)
<1>1. SameBtm(h) /\ onDisk[h] \subseteq onDisk'[h] /\ Writing(h) \subseteq Writing(h)'
  BY DEF SameBtm, SameAt, btmVars, Frame
<1>2. /\ Known(h)' <=> Known(h)
      /\ Undone(h)' <=> Undone(h)
      /\ IsComplete(h)' <=> IsComplete(h)
      /\ Active(h)' <=> Active(h)
      /\ Good(h) => Good(h)'
      /\ Have(h) \subseteq Have(h)'
  BY <1>1, SameState
<1>3. /\ h \in announced' <=> h \in announced
      /\ h \in known' <=> h \in known
      /\ h \in torrentIds' <=> h \in torrentIds
  BY DEF btmVars, persistVars
<1>4. Shown(h)' = Shown(h)
  BY DEF appVars, Shown
<1>5. (ShownDone(h)' <=> ShownDone(h)) /\ (MapsTo(h)' <=> MapsTo(h))
  BY <1>4 DEF appVars, ShownDone, MapsTo
<1>6. QED
  BY <1>1, <1>2, <1>3, <1>4, <1>5 DEF Alike

(* A torrent for which the reports and the entries do not change agrees as *)
(* before.                                                                 *)
LEMMA AgreesKeeps ==
  ASSUME NEW k, NEW S, NEW h, Agrees(h), Frame(k, S, h), \A t \in Reports : <<"btmToApp", t>> \notin S,
         <<"btmToApp", "Stopped">> # k, <<"btmToApp", "Completed">> # k, <<"btmToApp", "Resumed">> # k,
         <<"appToBtm", "Start">> # k, UNCHANGED appVars,
         Known(h)' <=> Known(h), Undone(h)' <=> Undone(h), IsComplete(h)' <=> IsComplete(h), Active(h)' <=> Active(h)
  PROVE  Agrees(h)'
<1>1. \A t \in Reports : Latest(t, h)' => Latest(t, h)
  BY DEF Frame
<1>2. \A t : Reported(t, h)' <=> Reported(t, h)
  BY DEF Reported
<1>3. Unreported(h)' => Unreported(h)
  BY DEF Frame, WayFrame, Unreported
<1>4. Shown(h)' = Shown(h)
  BY DEF appVars, Shown
<1>5. AllFit(h) => AllFit(h)'
  BY <1>4 DEF appVars, AllFit, Fits
<1>6. Way("appToBtm", "Start", h) => Way("appToBtm", "Start", h)'
  BY DEF Frame, WayFrame
<1>7. QED
  BY <1>1, <1>2, <1>3, <1>4, <1>5, <1>6 DEF Agrees

(* The files of a torrent are ready, and its pieces are asked for. *)
LEMMA InitializedKeeps ==
  ASSUME Inv, Whole, ProcessInitialized
  PROVE  Whole'
<1>1. /\ "diskToBtm" \in Channels \ Loading /\ "btmToPersist" \in Channels \ Loading
      /\ "diskToBtm" # "appToPersist" /\ "diskToBtm" # "btmToPersist"
  BY Names
<1>2. Forwards("diskToBtm", "Initialized", "btmToPersist", "LoadPieces")
  BY DEF ProcessInitialized
<1>3. Event("diskToBtm") \in EventsOf("diskToBtm") /\ Event("diskToBtm")[1] = "Initialized"
  BY <1>1, <1>2, Taken DEF Forwards
<1>4. PICK h \in Hashes : Event("diskToBtm") = <<"Initialized", h>>
  BY <1>3, Shapes
<1>5. PICK e \in EventsOf("btmToPersist") : e = <<"LoadPieces", h>>
  BY Made
<1>6. [Event("diskToBtm") EXCEPT ![1] = "LoadPieces"] = <<"LoadPieces", h>>
  BY <1>4
<1>7. Event("diskToBtm")[2] = h /\ e[1] = "LoadPieces" /\ e[2] = h
  BY <1>4, <1>5
<1>8. PICK sent : /\ Hop("diskToBtm", sent, <<"diskToBtm", "Initialized">>, {<<"btmToPersist", "LoadPieces">>}, h)
                  /\ "btmToPersist" \in DOMAIN sent /\ sent["btmToPersist"] = << <<"LoadPieces", h>> >>
  <2>1. PICK sent : sent = [t \in {"btmToPersist"} |-> <<e>>]
    OBVIOUS
  <2>2. Answers("diskToBtm", sent) /\ Takes("btm", "diskToBtm", "Initialized")
    BY <1>2, <1>5, <1>6, <2>1 DEF Forwards
  <2>3. QED
    BY <1>1, <1>5, <1>7, <2>1, <2>2, ForwardHops, ZenonT(40)
<1>9. UNCHANGED <<active, appVars, btmVars, known, onDisk, persistVars>> /\ history \subseteq history'
  BY <1>2 DEF Forwards
<1>10. Shift("diskToBtm", sent) /\ Frame(<<"diskToBtm", "Initialized">>, {<<"btmToPersist", "LoadPieces">>}, h)
  BY <1>8, Hopped DEF Hop
<1>11. (\A g : SameBtm(g)) /\ (\A g : g \in known' <=> g \in known) /\ Held'
  BY <1>9 DEF btmVars, SameBtm, SameAt, Whole, Global, Held
<1>12. \A p \in Pieces : Storing(h, p)' => Storing(h, p)
  BY <1>10 DEF Frame
<1>13. ASSUME h \in Torrents PROVE Each(h)'
  <2>1. Alike(h)
    BY <1>9, <1>10, OnlyQueues
  <2>2. Way("diskToBtm", "Initialized", h)
    BY <1>1, <1>4, <1>10, WasThere DEF Event
  <2>3. Way("btmToPersist", "LoadPieces", h)'
    BY <1>1, <1>8, <1>10, Arrives
  <2>4. Current(h) => Current(h)'
    <3>1. SUFFICES ASSUME Current(h) PROVE Current(h)'
      OBVIOUS
    <3>2. h \in torrentIds /\ ~Way("btmToPersist", "Remove", h)
      BY <2>2, <3>1 DEF Current
    <3>3. <<"Remove", h>> \notin Range(Sent(sent, "btmToPersist"))
      <4>1. Sent(sent, "btmToPersist") = <<e>> /\ \A x : x \in Range(<<e>>) <=> x = e
        BY <1>5, <1>8, Single DEF Sent
      <4>2. QED
        BY <1>5, <4>1
    <3>4. Ahead("btmToPersist", "LoadPieces", "Remove", h)'
      BY <1>1, <1>10, <3>1, <3>2, <3>3, AheadStays DEF Current, Inv, Typed
    <3>5. QED
      BY <1>10, <2>1, <3>1, <3>2, <3>4 DEF Frame, WayFrame, AheadFrame, Current, Alike
  <2>5. Prepared(h) => Prepared(h)'
    BY <1>10, <2>1, <2>2 DEF Frame, WayFrame, AheadFrame, Prepared, Alike
  <2>6. Populated(h) => Populated(h)'
    BY <1>10, <2>1 DEF Frame, WayFrame, AheadFrame, Populated, Tracked, Stale, Alike
  <2>7. Had(h) => Had(h)'
    BY <1>10, <2>1 DEF Frame, WayFrame, Had, Alike
  <2>8. OnTheWay(h)'
    BY <2>3 DEF OnTheWay
  <2>9. Registered(h) => Registered(h)'
    BY <1>10, <2>1 DEF Frame, WayFrame, Registered, Alike
  <2>10. Agrees(h) => Agrees(h)'
    BY <1>9, <1>10, <2>1, AgreesKeeps DEF Alike
  <2>11. QED
    BY <1>9, <1>13, <2>1, <2>4, <2>5, <2>6, <2>7, <2>8, <2>9, <2>10, Noted DEF Whole, Each, Sound, Tidy, Alike
<1>14. QED
  BY <1>1, <1>8, <1>9, <1>11, <1>12, <1>13, About

(* A torrent that was added is told to the app: nothing that was asked for *)
(* it before is on its way behind that.                                    *)
LEMMA AddedKeeps ==
  ASSUME Inv, Whole, ProcessAdded
  PROVE  Whole'
<1>1. /\ "persistToBtm" \in Channels \ Loading /\ "btmToApp" \in Channels \ Loading
      /\ "persistToBtm" # "appToPersist" /\ "persistToBtm" # "btmToApp"
  BY Names
<1>2. Forwards("persistToBtm", "Added", "btmToApp", "Added")
  BY DEF ProcessAdded
<1>3. Event("persistToBtm") \in EventsOf("persistToBtm") /\ Event("persistToBtm")[1] = "Added"
  BY <1>1, <1>2, Taken DEF Forwards
<1>4. PICK h \in Hashes : Event("persistToBtm") = <<"Added", h>>
  BY <1>3, Shapes
<1>5. PICK e \in EventsOf("btmToApp") : e = <<"Added", h>>
  BY Made
<1>6. [Event("persistToBtm") EXCEPT ![1] = "Added"] = <<"Added", h>>
  BY <1>4
<1>7. Event("persistToBtm")[2] = h /\ e[1] = "Added" /\ e[2] = h
  BY <1>4, <1>5
<1>8. PICK sent : /\ Hop("persistToBtm", sent, <<"persistToBtm", "Added">>, {<<"btmToApp", "Added">>}, h)
                  /\ "btmToApp" \in DOMAIN sent /\ sent["btmToApp"] = << <<"Added", h>> >>
  <2>1. PICK sent : sent = [t \in {"btmToApp"} |-> <<e>>]
    OBVIOUS
  <2>2. Answers("persistToBtm", sent) /\ Takes("btm", "persistToBtm", "Added")
    BY <1>2, <1>5, <1>6, <2>1 DEF Forwards
  <2>3. QED
    BY <1>1, <1>5, <1>7, <2>1, <2>2, ForwardHops, ZenonT(40)
<1>9. UNCHANGED <<active, appVars, btmVars, known, onDisk, persistVars>> /\ history \subseteq history'
  BY <1>2 DEF Forwards
<1>10. Shift("persistToBtm", sent) /\ Frame(<<"persistToBtm", "Added">>, {<<"btmToApp", "Added">>}, h)
  BY <1>8, Hopped DEF Hop
<1>11. (\A g : SameBtm(g)) /\ (\A g : g \in known' <=> g \in known) /\ Held'
  BY <1>9 DEF btmVars, SameBtm, SameAt, Whole, Global, Held
<1>12. \A p \in Pieces : Storing(h, p)' => Storing(h, p)
  BY <1>10 DEF Frame
<1>13. ASSUME h \in Torrents PROVE Each(h)'
  <2>1. Alike(h)
    BY <1>9, <1>10, OnlyQueues
  <2>2. Head(q["persistToBtm"]) = <<"Added", h>>
    BY <1>4 DEF Event
  <2>3. Way("persistToBtm", "Added", h)
    BY <1>1, <1>10, <2>2, WasThere
  <2>4. Way("btmToApp", "Added", h)'
    BY <1>1, <1>8, <1>10, Arrives
  <2>5. Current(h) => Current(h)'
    BY <1>10, <2>1 DEF Frame, WayFrame, AheadFrame, Current, Alike
  <2>6. Prepared(h) => Prepared(h)'
    BY <1>10, <2>1, <2>2 DEF Frame, WayFrame, AheadFrame, Prepared, Alike
  <2>7. Populated(h) => Populated(h)'
    <3>1. SUFFICES ASSUME Populated(h) PROVE Populated(h)'
      OBVIOUS
    <3>2. ASSUME Tracked(h)' PROVE Good(h)
      <4>1. Tracked(h)
        BY <1>10, <3>2 DEF Frame, WayFrame, Tracked
      <4>2. SUFFICES ASSUME Stale(h) PROVE FALSE
        BY <3>1, <4>1 DEF Populated
      <4>3. ~Way("btmToPersist", "LoadTrackers", h) /\ Ahead("persistToBtm", "Trackers", "Added", h)
        BY <2>3, <4>2 DEF Stale
      <4>4. ~Way("persistToBtm", "Trackers", h)'
        BY <1>1, <1>10, <2>2, <4>3, NoneLeft
      <4>5. QED
        BY <1>10, <3>2, <4>3, <4>4 DEF Frame, WayFrame, Tracked
    <3>3. QED
      BY <1>10, <2>1, <3>1, <3>2 DEF Frame, Populated, Alike
  <2>8. Had(h) => Had(h)'
    BY <1>10, <2>1 DEF Frame, WayFrame, Had, Alike
  <2>9. OnTheWay(h) => OnTheWay(h)'
    BY <1>9, <1>10, <2>1 DEF Frame, WayFrame, OnTheWay, Tracked, Alike
  <2>10. Registered(h)'
    BY <2>4 DEF Registered
  <2>11. Agrees(h) => Agrees(h)'
    <3>1. \A t \in Reports : <<"btmToApp", t>> \notin {<<"btmToApp", "Added">>}
      BY DEF Reports
    <3>2. QED
      BY <1>9, <1>10, <2>1, <3>1, AgreesKeeps DEF Alike
  <2>12. QED
    BY <1>9, <1>13, <2>1, <2>5, <2>6, <2>7, <2>8, <2>9, <2>10, <2>11, Noted DEF Whole, Each, Sound, Tidy, Alike
<1>14. QED
  BY <1>1, <1>8, <1>9, <1>11, <1>12, <1>13, About

-------------------------------------------------------------------------------
(* BitTorrentManager. *)

(* Maps with and without a key. *)
LEMMA WithIs ==
  ASSUME NEW f, NEW k, NEW v
  PROVE  /\ DOMAIN With(f, k, v) = DOMAIN f \cup {k} /\ With(f, k, v)[k] = v
         /\ \A g : g # k => SameAt(f, With(f, k, v), g)
BY DEF With, SameAt

(* A map from which a key is erased. *)
LEMMA WithoutIs ==
  ASSUME NEW f, NEW k
  PROVE  /\ DOMAIN Without(f, k) = DOMAIN f \ {k}
         /\ \A g : g # k => SameAt(f, Without(f, k), g)
BY DEF Without, SameAt

(* A map that does not change. *)
LEMMA SameAsIs ==
  ASSUME NEW f, NEW g
  PROVE  SameAt(f, f, g)
BY DEF SameAt

(* A torrent is in one place. *)
LEMMA Exclusive ==
  ASSUME NEW h, OneLife(h)
  PROVE  /\ Shown(h) # {} => /\ ~Carries("persistToApp", h) /\ ~Way("persistToBtm", "Added", h)
                             /\ ~Way("btmToApp", "Added", h) /\ ~Way("appToBtm", "Remove", h)
                             /\ ~Way("btmToPersist", "Remove", h) /\ h \in torrentIds
         /\ Carries("persistToApp", h) =>
               /\ ~Way("persistToBtm", "Added", h) /\ ~Way("btmToApp", "Added", h)
               /\ ~Way("appToBtm", "Remove", h) /\ ~Way("btmToPersist", "Remove", h) /\ h \in torrentIds
         /\ Way("persistToBtm", "Added", h) =>
               /\ ~Way("btmToApp", "Added", h) /\ ~Way("appToBtm", "Remove", h)
               /\ ~Way("btmToPersist", "Remove", h) /\ h \in torrentIds
         /\ Way("btmToApp", "Added", h) =>
               /\ ~Way("appToBtm", "Remove", h) /\ ~Way("btmToPersist", "Remove", h) /\ h \in torrentIds
         /\ Way("appToBtm", "Remove", h) => ~Way("btmToPersist", "Remove", h) /\ h \in torrentIds
         /\ Way("btmToPersist", "Remove", h) => h \in torrentIds
         /\ h \in torrentIds => q["appToPersist"] = <<>>
<1>1. /\ Carries("entry", h) <=> Shown(h) # {}
      /\ Carries("persistToBtm", h) <=> Way("persistToBtm", "Added", h)
      /\ Carries("btmToApp", h) <=> Way("btmToApp", "Added", h)
      /\ Carries("appToBtm", h) <=> Way("appToBtm", "Remove", h)
      /\ Carries("btmToPersist", h) <=> Way("btmToPersist", "Remove", h)
  BY CarriesWhat, PlacesAre DEF Way
<1>2. {"entry", "persistToApp", "persistToBtm", "btmToApp", "appToBtm", "btmToPersist"} \subseteq Places
  BY PlacesAre DEF Places
<1>3. /\ \A k, l \in Places : Carries(k, h) /\ Carries(l, h) => k = l
      /\ \A k \in Places : Carries(k, h) => h \in torrentIds
      /\ q["appToPersist"] # <<>> => h \notin torrentIds
  BY DEF OneLife
<1>4. \A k \in Places : Carries(k, h) => \A l \in Places : l # k => ~Carries(l, h)
  BY <1>3
<1>5. Shown(h) # {} => /\ ~Carries("persistToApp", h) /\ ~Way("persistToBtm", "Added", h)
                       /\ ~Way("btmToApp", "Added", h) /\ ~Way("appToBtm", "Remove", h)
                       /\ ~Way("btmToPersist", "Remove", h) /\ h \in torrentIds
  BY <1>1, <1>2, <1>3, <1>4
<1>6. Carries("persistToApp", h) =>
         /\ ~Way("persistToBtm", "Added", h) /\ ~Way("btmToApp", "Added", h)
         /\ ~Way("appToBtm", "Remove", h) /\ ~Way("btmToPersist", "Remove", h) /\ h \in torrentIds
  BY <1>1, <1>2, <1>3, <1>4
<1>7. Way("persistToBtm", "Added", h) =>
         /\ ~Way("btmToApp", "Added", h) /\ ~Way("appToBtm", "Remove", h)
         /\ ~Way("btmToPersist", "Remove", h) /\ h \in torrentIds
  BY <1>1, <1>2, <1>3, <1>4
<1>8. Way("btmToApp", "Added", h) =>
         /\ ~Way("appToBtm", "Remove", h) /\ ~Way("btmToPersist", "Remove", h) /\ h \in torrentIds
  BY <1>1, <1>2, <1>3, <1>4
<1>9. Way("appToBtm", "Remove", h) => ~Way("btmToPersist", "Remove", h) /\ h \in torrentIds
  BY <1>1, <1>2, <1>3, <1>4
<1>10. Way("btmToPersist", "Remove", h) => h \in torrentIds
  BY <1>1, <1>2, <1>3
<1>11. QED
  BY <1>3, <1>5, <1>6, <1>7, <1>8, <1>9, <1>10

(* What there is to prove of a torrent to which nothing unexpected has     *)
(* happened.                                                               *)
LEMMA EachStep ==
  ASSUME Inv, Whole, NEW h \in Torrents, history \subseteq history',
         ~Spoilt(h)' /\ Sound(h) /\ OneLife(h) /\ KnownFirst(h)
             => Sound(h)' /\ (~Muddled(h)' /\ Tidy(h) => Tidy(h)')
  PROVE  Each(h)'
<1>1. (Spoilt(h) => Spoilt(h)') /\ (Muddled(h) => Muddled(h)') /\ (Spoilt(h)' => Muddled(h)')
  BY DEF Spoilt, Muddled, Unexpected
<1>2. ~Spoilt(h) => OneLife(h) /\ KnownFirst(h)
  BY DEF Inv, Lives, Early, Spoilt, Unexpected
<1>3. Each(h)
  BY DEF Whole
<1>4. QED
  BY <1>1, <1>2, <1>3 DEF Each

(* A report that has just been sent. *)
LEMMA AgreesReports ==
  ASSUME NEW h, NEW t \in Reports, Way("btmToApp", t, h)', \A u \in Reports : Latest(u, h)' => u = t, Reported(t, h)'
  PROVE  Agrees(h)'
<1>1. ~Unreported(h)'
  BY DEF Unreported, Reports
<1>2. \A u \in Reports : Latest(u, h)' => Reported(u, h)'
  OBVIOUS
<1>3. QED
  BY <1>1, <1>2 DEF Agrees

(* ProcessStart. *)
LEMMA StartKeeps ==
  ASSUME Inv, Whole, ProcessStart
  PROVE  Whole'
<1>1. /\ "appToBtm" \in Channels \ Loading /\ "btmToApp" \in Channels \ (Loading \cup {"appToBtm"})
      /\ "btmToDisk" \in Channels \ (Loading \cup {"appToBtm"}) /\ "appToBtm" # "appToPersist"
  BY Names
<1>2. Takes("btm", "appToBtm", "Start")
  BY DEF ProcessStart
<1>3. Event("appToBtm") \in EventsOf("appToBtm") /\ Event("appToBtm")[1] = "Start"
  BY <1>1, <1>2, Taken
<1>4. PICK h \in Hashes : Event("appToBtm") = <<"Start", h>>
  BY <1>3, Shapes
<1>5. Event("appToBtm")[2] = h /\ Head(q["appToBtm"]) = <<"Start", h>>
  BY <1>4 DEF Event
<1>6. /\ UNCHANGED <<active, appVars, onDisk, persistVars>> /\ history \subseteq history'
      /\ UNCHANGED <<announced, known>>
  BY DEF ProcessStart
<1>7. CASE /\ IsComplete(h) /\ Answers("appToBtm", [btmToApp |-> << <<"Completed", h>> >>])
           /\ UNCHANGED <<torrents, pieceMan>>
  <2>1. PICK sent : sent = [btmToApp |-> << <<"Completed", h>> >>]
    OBVIOUS
  <2>2. DOMAIN sent = {"btmToApp"} /\ sent["btmToApp"] = << <<"Completed", h>> >>
    BY <2>1, Records
  <2>3. Says(sent, {<<"btmToApp", "Completed">>}, h, "appToBtm")
    <3>1. /\ <<"Completed", h>> \in EventsOf("btmToApp") /\ <<"Completed", h>>[1] = "Completed"
          /\ <<"Completed", h>>[2] = h
      BY Events
    <3>2. QED
      BY <1>1, <2>2, <3>1, SaysOne
  <2>4. Hop("appToBtm", sent, <<"appToBtm", "Start">>, {<<"btmToApp", "Completed">>}, h)
    BY <1>1, <1>2, <1>5, <1>7, <2>1, <2>3, HopTaken
  <2>5. Shift("appToBtm", sent) /\ Frame(<<"appToBtm", "Start">>, {<<"btmToApp", "Completed">>}, h)
    BY <2>4, Hopped DEF Hop
  <2>6. (\A g : SameBtm(g)) /\ Held'
    BY <1>6, <1>7 DEF SameBtm, SameAt, Whole, Global, Held
  <2>7. \A p \in Pieces : Storing(h, p)' => Storing(h, p)
    BY <2>5 DEF Frame
  <2>8. ASSUME h \in Torrents, Sound(h) PROVE Sound(h)' /\ (Tidy(h) => Tidy(h)')
    <3>1. Alike(h)
      BY <1>6, <1>7, <2>5, OnlyQueues DEF btmVars
    <3>2. /\ Way("btmToApp", "Completed", h)'
          /\ \A u \in Reports : Latest(u, h)' => u = "Completed"
      BY <1>1, <2>2, <2>5, Arrives DEF Reports
    <3>3. Current(h)'
      BY <2>5, <2>8, <3>1 DEF Frame, WayFrame, AheadFrame, Sound, Current, Alike
    <3>4. Prepared(h)'
      BY <2>5, <2>8, <3>1 DEF Frame, WayFrame, AheadFrame, Sound, Prepared, Alike
    <3>5. Populated(h)'
      BY <2>5, <2>8, <3>1 DEF Frame, WayFrame, AheadFrame, Sound, Populated, Tracked, Stale, Alike
    <3>6. Had(h)'
      BY <1>7, <2>8, <3>1 DEF Sound, Had, Alike
    <3>7. OnTheWay(h)'
      BY <1>6, <2>5, <2>8, <3>1 DEF Frame, WayFrame, Sound, OnTheWay, Tracked, Alike
    <3>8. Registered(h) => Registered(h)'
      BY <2>5, <3>1 DEF Frame, WayFrame, Registered, Alike
    <3>9. Reported("Completed", h)'
      BY <1>7, <3>1 DEF Reported, Alike
    <3>10. Agrees(h)'
      BY <3>2, <3>9, AgreesReports DEF Reports
    <3>11. QED
      BY <3>1, <3>3, <3>4, <3>5, <3>6, <3>7, <3>8, <3>10 DEF Sound, Tidy, Alike
  <2>9. h \in Torrents => Each(h)'
    BY <1>6, <2>8, EachStep
  <2>10. QED
    BY <1>1, <1>6, <2>4, <2>6, <2>7, <2>9, About
<1>8. CASE /\ ~IsComplete(h) /\ torrents' = With(torrents, h, FALSE)
           /\ pieceMan' = With(pieceMan, h, [active |-> TRUE, mAvailable |-> MissingPieces(h)])
           /\ Answers("appToBtm", [btmToApp |-> << <<"Resumed", h>> >>, btmToDisk |-> << <<"Init", h>> >>])
  <2>0. PICK S : S = {<<"btmToApp", "Resumed">>, <<"btmToDisk", "Init">>}
    OBVIOUS
  <2>1. PICK sent : sent = [btmToApp |-> << <<"Resumed", h>> >>, btmToDisk |-> << <<"Init", h>> >>]
    OBVIOUS
  <2>2. /\ DOMAIN sent = {"btmToApp", "btmToDisk"} /\ sent["btmToApp"] = << <<"Resumed", h>> >>
        /\ sent["btmToDisk"] = << <<"Init", h>> >>
    BY <2>1, Records
  <2>3. Says(sent, S, h, "appToBtm")
    <3>1. /\ <<"Resumed", h>> \in EventsOf("btmToApp") /\ <<"Resumed", h>>[1] = "Resumed"
          /\ <<"Init", h>> \in EventsOf("btmToDisk") /\ <<"Init", h>>[1] = "Init"
      BY Events
    <3>2. <<"Resumed", h>>[2] = h /\ <<"Init", h>>[2] = h
      OBVIOUS
    <3>3. QED
      BY <1>1, <2>0, <2>2, <3>1, <3>2, SaysTwo
  <2>4. Hop("appToBtm", sent, <<"appToBtm", "Start">>, S, h)
    BY <1>1, <1>2, <1>5, <1>8, <2>1, <2>3, HopTaken
  <2>5. Shift("appToBtm", sent) /\ Frame(<<"appToBtm", "Start">>, S, h)
    BY <2>4, Hopped DEF Hop
  <2>6. (\A g : g # h => SameBtm(g)) /\ Held'
    <3>1. \A g : g # h => SameAt(torrents, torrents', g) /\ SameAt(pieceMan, pieceMan', g)
      BY <1>8, WithIs
    <3>2. DOMAIN torrents' = DOMAIN torrents \cup {h} /\ DOMAIN pieceMan' = DOMAIN pieceMan \cup {h}
      BY <1>8, WithIs
    <3>3. QED
      BY <1>6, <3>1, <3>2 DEF SameBtm, Whole, Global, Held
  <2>7. \A p \in Pieces : Storing(h, p)' => Storing(h, p)
    BY <2>0, <2>5 DEF Frame
  <2>8. ASSUME h \in Torrents, Sound(h) PROVE Sound(h)' /\ (Tidy(h) => Tidy(h)')
    <3>1. Known(h)' /\ Undone(h)' /\ ~IsComplete(h)'
      <4>1. h \in DOMAIN torrents' /\ torrents'[h] = FALSE
        BY <1>8 DEF With
      <4>2. QED
        BY <4>1 DEF Known, Undone, IsComplete
    <3>2. Have(h) \subseteq Have(h)'
      BY <1>6, <2>5 DEF Frame, Have
    <3>3. Active(h)' /\ (Good(h) => Good(h)')
      <4>1. h \in DOMAIN pieceMan' /\ pieceMan'[h] = [active |-> TRUE, mAvailable |-> MissingPieces(h)]
        <5>1. PICK v : v = [active |-> TRUE, mAvailable |-> MissingPieces(h)]
          OBVIOUS
        <5>2. pieceMan' = With(pieceMan, h, v)
          BY <1>8, <5>1
        <5>3. h \in DOMAIN pieceMan' /\ pieceMan'[h] = v
          BY <5>2 DEF With
        <5>4. QED
          BY <5>1, <5>3
      <4>2. pieceMan'[h].active /\ pieceMan'[h].mAvailable = MissingPieces(h)
        BY <4>1
      <4>3. QED
        BY <3>2, <4>1, <4>2 DEF Active, Good, MissingPieces
    <3>4. Way("appToBtm", "Start", h)
      BY <1>1, <1>5, <2>5, WasThere
    <3>5. Way("btmToApp", "Resumed", h)' /\ (\A u \in Reports : Latest(u, h)' => u = "Resumed") /\ Way("btmToDisk", "Init", h)'
      BY <1>1, <2>2, <2>5, Arrives DEF Reports
    <3>6. Shown(h)' = Shown(h) /\ (ShownDone(h)' <=> ShownDone(h)) /\ (MapsTo(h) => MapsTo(h)')
      BY <1>6 DEF appVars, Shown, ShownDone, MapsTo
    <3>7. /\ h \in announced' <=> h \in announced
          /\ h \in known' <=> h \in known
          /\ h \in torrentIds' <=> h \in torrentIds
          /\ onDisk[h] \subseteq onDisk'[h]
      BY <1>6 DEF persistVars
    <3>8. Current(h)'
      BY <2>0, <2>5, <2>8, <3>4, <3>7 DEF Frame, WayFrame, AheadFrame, Sound, Current
    <3>9. Prepared(h)'
      BY <2>0, <2>5, <2>8, <3>5, <3>7 DEF Frame, Sound, Prepared
    <3>10. Populated(h)'
      BY <2>0, <2>5, <2>8, <3>3, <3>4, <3>7 DEF Frame, WayFrame, Sound, Populated, Tracked, Stale
    <3>11. Had(h)'
      BY <2>0, <2>5, <2>8, <3>1, <3>2, <3>6 DEF Frame, WayFrame, Sound, Had
    <3>12. OnTheWay(h)'
      BY <3>5 DEF OnTheWay
    <3>13. Registered(h) => Registered(h)'
      BY <2>0, <2>5, <3>6, <3>7 DEF Frame, WayFrame, Registered
    <3>14. Agrees(h)'
      BY <3>1, <3>3, <3>5, AgreesReports DEF Reports, Reported
    <3>15. QED
      BY <3>6, <3>8, <3>9, <3>10, <3>11, <3>12, <3>13, <3>14 DEF Sound, Tidy
  <2>9. h \in Torrents => Each(h)'
    BY <1>6, <2>8, EachStep
  <2>10. QED
    BY <1>1, <1>6, <2>4, <2>6, <2>7, <2>9, About
<1>9. QED
  BY <1>5, <1>7, <1>8 DEF ProcessStart

(* The piece states of a torrent that are set. *)
LEMMA PiecesSet ==
  ASSUME NEW f, NEW h, NEW a, NEW m, NEW g, g = With(f, h, [active |-> a, mAvailable |-> m])
  PROVE  h \in DOMAIN g /\ g[h].active = a /\ g[h].mAvailable = m
<1>1. PICK v : v = [active |-> a, mAvailable |-> m]
  OBVIOUS
<1>2. g = With(f, h, v)
  BY <1>1
<1>3. h \in DOMAIN g /\ g[h] = v
  BY <1>2 DEF With
<1>4. v.active = a /\ v.mAvailable = m
  BY <1>1
<1>5. QED
  BY <1>3, <1>4

(* ProcessStop: a torrent that is shown is known, or is about to be. *)
LEMMA StopKeeps ==
  ASSUME Inv, Whole, ProcessStop
  PROVE  Whole'
<1>1. /\ "appToBtm" \in Channels \ Loading /\ "btmToApp" \in Channels \ (Loading \cup {"appToBtm"})
      /\ "appToBtm" # "appToPersist"
  BY Names
<1>2. Takes("btm", "appToBtm", "Stop")
  BY DEF ProcessStop
<1>3. Event("appToBtm") \in EventsOf("appToBtm") /\ Event("appToBtm")[1] = "Stop"
  BY <1>1, <1>2, Taken
<1>4. PICK h \in Hashes : Event("appToBtm") = <<"Stop", h>>
  BY <1>3, Shapes
<1>5. Event("appToBtm")[2] = h
  BY <1>4
<1>6. /\ UNCHANGED <<active, appVars, onDisk, persistVars>> /\ history \subseteq history'
      /\ UNCHANGED <<torrents, announced, known>>
  BY DEF ProcessStop
<1>7. PICK sent : sent = [btmToApp |-> << <<"Stopped", h>> >>]
  OBVIOUS
<1>8. /\ pieceMan' = With(pieceMan, h, [active |-> FALSE, mAvailable |-> MissingPieces(h)])
      /\ Answers("appToBtm", sent)
  BY <1>5, <1>7 DEF ProcessStop
<1>9. DOMAIN sent = {"btmToApp"} /\ sent["btmToApp"] = << <<"Stopped", h>> >>
  BY <1>7, Records
<1>10. Says(sent, {<<"btmToApp", "Stopped">>}, h, "appToBtm")
  <2>1. /\ <<"Stopped", h>> \in EventsOf("btmToApp") /\ <<"Stopped", h>>[1] = "Stopped"
        /\ <<"Stopped", h>>[2] = h
    BY Events
  <2>2. QED
    BY <1>1, <1>9, <2>1, SaysOne
<1>11. Hop("appToBtm", sent, <<"appToBtm", "Stop">>, {<<"btmToApp", "Stopped">>}, h)
  BY <1>1, <1>2, <1>5, <1>8, <1>10, HopTaken
<1>12. Shift("appToBtm", sent) /\ Frame(<<"appToBtm", "Stop">>, {<<"btmToApp", "Stopped">>}, h)
  BY <1>11, Hopped DEF Hop
<1>13. (\A g : g # h => SameBtm(g)) /\ Held'
  <2>1. \A g : g # h => SameAt(pieceMan, pieceMan', g)
    BY <1>8, WithIs
  <2>2. DOMAIN pieceMan' = DOMAIN pieceMan \cup {h} /\ \A g : SameAt(torrents, torrents', g)
    BY <1>6, <1>8, WithIs, SameAsIs
  <2>3. QED
    BY <1>6, <2>1, <2>2 DEF SameBtm, Whole, Global, Held
<1>14. \A p \in Pieces : Storing(h, p)' => Storing(h, p)
  BY <1>12 DEF Frame
<1>15. ASSUME h \in Torrents, Sound(h), KnownFirst(h) PROVE Sound(h)' /\ (Tidy(h) => Tidy(h)')
  <2>1. (Known(h)' <=> Known(h)) /\ (Undone(h)' <=> Undone(h)) /\ (IsComplete(h)' <=> IsComplete(h))
    BY <1>6 DEF Known, Undone, IsComplete
  <2>2. Have(h) \subseteq Have(h)'
    BY <1>6, <1>12 DEF Frame, Have
  <2>3. ~Active(h)' /\ (Good(h) => Good(h)')
    <3>1. h \in DOMAIN pieceMan' /\ pieceMan'[h].active = FALSE /\ pieceMan'[h].mAvailable = MissingPieces(h)
      BY <1>8, PiecesSet
    <3>2. QED
      BY <2>2, <3>1 DEF Active, Good, MissingPieces
  <2>4. Way("btmToApp", "Stopped", h)' /\ (\A u \in Reports : Latest(u, h)' => u = "Stopped")
    BY <1>1, <1>9, <1>12, Arrives DEF Reports
  <2>5. Shown(h)' = Shown(h) /\ (ShownDone(h)' <=> ShownDone(h)) /\ (MapsTo(h) => MapsTo(h)')
    BY <1>6 DEF appVars, Shown, ShownDone, MapsTo
  <2>6. /\ h \in announced' <=> h \in announced
        /\ h \in known' <=> h \in known
        /\ h \in torrentIds' <=> h \in torrentIds
        /\ onDisk[h] \subseteq onDisk'[h]
    BY <1>6 DEF persistVars
  <2>7. Current(h)'
    BY <1>12, <1>15, <2>1, <2>6 DEF Frame, WayFrame, AheadFrame, Sound, Current
  <2>8. Prepared(h)'
    BY <1>12, <1>15, <2>1, <2>6 DEF Frame, WayFrame, Sound, Prepared
  <2>9. Populated(h)'
    BY <1>12, <1>15, <2>1, <2>3, <2>6 DEF Frame, WayFrame, AheadFrame, Sound, Populated, Tracked, Stale
  <2>10. Had(h)'
    BY <1>12, <1>15, <2>1, <2>2, <2>5 DEF Frame, WayFrame, Sound, Had
  <2>11. OnTheWay(h)'
    BY <1>6, <1>12, <1>15, <2>1, <2>6 DEF Frame, WayFrame, Sound, OnTheWay, Tracked
  <2>12. Registered(h) => Registered(h)'
    BY <1>12, <2>5, <2>6 DEF Frame, WayFrame, Registered
  <2>13. Agrees(h)'
    <3>1. SUFFICES ASSUME Shown(h)' # {}, ~Way("appToBtm", "Start", h)' PROVE Agrees(h)'
      BY DEF Agrees
    <3>2. Known(h) \/ Way("appToBtm", "Start", h)
      BY <1>15, <2>5, <3>1 DEF KnownFirst, Startable, Known, Way
    <3>3. Known(h)'
      BY <1>12, <2>1, <3>1, <3>2 DEF Frame, WayFrame
    <3>4. QED
      BY <2>3, <2>4, <3>3, AgreesReports DEF Reports, Reported
  <2>14. QED
    BY <2>5, <2>7, <2>8, <2>9, <2>10, <2>11, <2>12, <2>13 DEF Sound, Tidy
<1>16. h \in Torrents => Each(h)'
  BY <1>6, <1>15, EachStep
<1>17. QED
  BY <1>1, <1>6, <1>11, <1>13, <1>14, <1>16, About

(* ProcessResume: the torrent is known, and if it is to be downloaded it   *)
(* is stored.                                                              *)
LEMMA ResumeKeeps ==
  ASSUME Inv, Whole, ProcessResume
  PROVE  Whole'
<1>1. /\ "appToBtm" \in Channels \ Loading /\ "btmToApp" \in Channels \ (Loading \cup {"appToBtm"})
      /\ "btmToPersist" \in Channels \ (Loading \cup {"appToBtm"}) /\ "appToBtm" # "appToPersist"
  BY Names
<1>2. Takes("btm", "appToBtm", "Resume")
  BY DEF ProcessResume
<1>3. /\ Event("appToBtm") \in EventsOf("appToBtm") /\ Event("appToBtm")[1] = "Resume"
      /\ q["appToBtm"] # <<>> /\ Event("appToBtm") = Head(q["appToBtm"])
  BY <1>1, <1>2, Taken
<1>4. PICK h \in Hashes : Event("appToBtm") = <<"Resume", h>>
  BY <1>3, Shapes
<1>5. Event("appToBtm")[2] = h
  BY <1>4
<1>6. /\ UNCHANGED <<active, appVars, onDisk, persistVars>> /\ history \subseteq history'
      /\ UNCHANGED <<torrents, announced, known>>
  BY DEF ProcessResume
<1>7. ASSUME KnownFirst(h) PROVE Known(h)
  <2>1. q["appToBtm"] \in Seq(EventsOf("appToBtm"))
    BY <1>1 DEF Inv, Typed, QueuesTyped
  <2>2. 1 \in 1 .. Len(q["appToBtm"]) /\ q["appToBtm"][1] = Head(q["appToBtm"])
    BY <1>3, <2>1
  <2>3. q["appToBtm"][1] = <<"Resume", h>>
    BY <1>3, <1>4, <2>2
  <2>4. h \in DOMAIN torrents \/ \E j \in 1 .. 1 - 1 : q["appToBtm"][j] = <<"Start", h>>
    BY <1>7, <2>2, <2>3 DEF KnownFirst, Resumable
  <2>5. QED
    BY <2>4 DEF Known
<1>8. CASE /\ Known(h) => IsComplete(h)
           /\ Answers("appToBtm", [btmToApp |-> << <<"Completed", h>> >>]) /\ UNCHANGED pieceMan
  <2>1. PICK sent : sent = [btmToApp |-> << <<"Completed", h>> >>]
    OBVIOUS
  <2>2. DOMAIN sent = {"btmToApp"} /\ sent["btmToApp"] = << <<"Completed", h>> >>
    BY <2>1, Records
  <2>3. Says(sent, {<<"btmToApp", "Completed">>}, h, "appToBtm")
    <3>1. /\ <<"Completed", h>> \in EventsOf("btmToApp") /\ <<"Completed", h>>[1] = "Completed"
          /\ <<"Completed", h>>[2] = h
      BY Events
    <3>2. QED
      BY <1>1, <2>2, <3>1, SaysOne
  <2>4. Hop("appToBtm", sent, <<"appToBtm", "Resume">>, {<<"btmToApp", "Completed">>}, h)
    BY <1>1, <1>2, <1>5, <1>8, <2>1, <2>3, HopTaken
  <2>5. Shift("appToBtm", sent) /\ Frame(<<"appToBtm", "Resume">>, {<<"btmToApp", "Completed">>}, h)
    BY <2>4, Hopped DEF Hop
  <2>6. (\A g : SameBtm(g)) /\ Held'
    BY <1>6, <1>8 DEF SameBtm, SameAt, Whole, Global, Held
  <2>7. \A p \in Pieces : Storing(h, p)' => Storing(h, p)
    BY <2>5 DEF Frame
  <2>8. ASSUME h \in Torrents, Sound(h), KnownFirst(h) PROVE Sound(h)' /\ (Tidy(h) => Tidy(h)')
    <3>1. Alike(h) /\ IsComplete(h)
      BY <1>6, <1>7, <1>8, <2>5, <2>8, OnlyQueues DEF btmVars
    <3>2. Way("btmToApp", "Completed", h)' /\ (\A u \in Reports : Latest(u, h)' => u = "Completed")
      BY <1>1, <2>2, <2>5, Arrives DEF Reports
    <3>3. Current(h)'
      BY <2>5, <2>8, <3>1 DEF Frame, WayFrame, AheadFrame, Sound, Current, Alike
    <3>4. Prepared(h)'
      BY <2>5, <2>8, <3>1 DEF Frame, WayFrame, AheadFrame, Sound, Prepared, Alike
    <3>5. Populated(h)'
      BY <2>5, <2>8, <3>1 DEF Frame, WayFrame, AheadFrame, Sound, Populated, Tracked, Stale, Alike
    <3>6. Had(h)'
      BY <2>8, <3>1 DEF Sound, Had, Alike
    <3>7. OnTheWay(h)'
      BY <1>6, <2>5, <2>8, <3>1 DEF Frame, WayFrame, Sound, OnTheWay, Tracked, Alike
    <3>8. Registered(h) => Registered(h)'
      BY <2>5, <3>1 DEF Frame, WayFrame, Registered, Alike
    <3>9. Agrees(h)'
      BY <3>1, <3>2, AgreesReports DEF Reports, Reported, Alike
    <3>10. QED
      BY <3>1, <3>3, <3>4, <3>5, <3>6, <3>7, <3>8, <3>9 DEF Sound, Tidy, Alike
  <2>9. h \in Torrents => Each(h)'
    BY <1>6, <2>8, EachStep
  <2>10. QED
    BY <1>1, <1>6, <2>4, <2>6, <2>7, <2>9, About
<1>9. CASE /\ Known(h) => Undone(h)
           /\ pieceMan' = IF h \in DOMAIN pieceMan THEN [pieceMan EXCEPT ![h].active = TRUE] ELSE pieceMan
           /\ Answers("appToBtm", [btmToApp |-> << <<"Resumed", h>> >>, btmToPersist |-> << <<"LoadPieces", h>> >>])
  <2>0. PICK S : S = {<<"btmToApp", "Resumed">>, <<"btmToPersist", "LoadPieces">>}
    OBVIOUS
  <2>1. PICK sent : sent = [btmToApp |-> << <<"Resumed", h>> >>, btmToPersist |-> << <<"LoadPieces", h>> >>]
    OBVIOUS
  <2>2. /\ DOMAIN sent = {"btmToApp", "btmToPersist"} /\ sent["btmToApp"] = << <<"Resumed", h>> >>
        /\ sent["btmToPersist"] = << <<"LoadPieces", h>> >>
    BY <2>1, Records
  <2>3. /\ <<"Resumed", h>> \in EventsOf("btmToApp") /\ <<"Resumed", h>>[1] = "Resumed"
        /\ <<"LoadPieces", h>> \in EventsOf("btmToPersist") /\ <<"LoadPieces", h>>[1] = "LoadPieces"
    BY Events
  <2>4. Says(sent, S, h, "appToBtm")
    <3>1. <<"Resumed", h>>[2] = h /\ <<"LoadPieces", h>>[2] = h
      OBVIOUS
    <3>2. QED
      BY <1>1, <2>0, <2>2, <2>3, <3>1, SaysTwo
  <2>5. Hop("appToBtm", sent, <<"appToBtm", "Resume">>, S, h)
    BY <1>1, <1>2, <1>5, <1>9, <2>1, <2>4, HopTaken
  <2>6. Shift("appToBtm", sent) /\ Frame(<<"appToBtm", "Resume">>, S, h)
    BY <2>5, Hopped DEF Hop
  <2>7. (\A g : g # h => SameBtm(g)) /\ Held'
    <3>1. DOMAIN pieceMan' = DOMAIN pieceMan /\ \A g : g # h => SameAt(pieceMan, pieceMan', g)
      BY <1>9 DEF SameAt
    <3>2. \A g : SameAt(torrents, torrents', g)
      BY <1>6, SameAsIs
    <3>3. QED
      BY <1>6, <3>1, <3>2 DEF SameBtm, Whole, Global, Held
  <2>8. \A p \in Pieces : Storing(h, p)' => Storing(h, p)
    BY <2>0, <2>6 DEF Frame
  <2>9. ASSUME h \in Torrents, Sound(h), KnownFirst(h) PROVE Sound(h)' /\ (Tidy(h) => Tidy(h)')
    <3>1. /\ (Known(h)' <=> Known(h)) /\ (Undone(h)' <=> Undone(h)) /\ (IsComplete(h)' <=> IsComplete(h))
          /\ Known(h) /\ Undone(h)
      BY <1>6, <1>7, <1>9, <2>9 DEF Known, Undone, IsComplete
    <3>2. Have(h) \subseteq Have(h)'
      BY <1>6, <2>6 DEF Frame, Have
    <3>3. Active(h)' /\ (Good(h) => Good(h)')
      <4>1. h \in DOMAIN pieceMan
        BY <3>1 DEF Whole, Global, Held, Known
      <4>2. pieceMan' = [pieceMan EXCEPT ![h].active = TRUE]
        BY <1>9, <4>1
      <4>3. h \in DOMAIN pieceMan' /\ pieceMan'[h] = [pieceMan[h] EXCEPT !.active = TRUE]
        BY <4>1, <4>2
      <4>4. pieceMan'[h].mAvailable = pieceMan[h].mAvailable
        BY <4>3
      <4>5. Good(h) => Good(h)'
        BY <3>2, <4>3, <4>4 DEF Good
      <4>6. QED
        BY <4>3, <4>5 DEF Active
    <3>4. /\ Way("btmToApp", "Resumed", h)' /\ (\A u \in Reports : Latest(u, h)' => u = "Resumed")
          /\ Way("btmToPersist", "LoadPieces", h)'
      BY <1>1, <2>2, <2>6, Arrives DEF Reports
    <3>5. Shown(h)' = Shown(h) /\ (ShownDone(h)' <=> ShownDone(h)) /\ (MapsTo(h) => MapsTo(h)')
      BY <1>6 DEF appVars, Shown, ShownDone, MapsTo
    <3>6. /\ h \in announced' <=> h \in announced
          /\ h \in known' <=> h \in known
          /\ h \in torrentIds' <=> h \in torrentIds
          /\ onDisk[h] \subseteq onDisk'[h]
      BY <1>6 DEF persistVars
    <3>7. Current(h)'
      <4>1. h \in torrentIds /\ ~Way("btmToPersist", "Remove", h) /\ Ahead("btmToPersist", "LoadPieces", "Remove", h)
        BY <2>9, <3>1 DEF Sound, Current
      <4>2. <<"Remove", h>> \notin Range(Sent(sent, "btmToPersist"))
        <5>1. PICK e : e = <<"LoadPieces", h>>
          OBVIOUS
        <5>2. Sent(sent, "btmToPersist") = <<e>> /\ \A x : x \in Range(<<e>>) <=> x = e
          BY <2>2, <2>3, <5>1, Single DEF Sent
        <5>3. QED
          BY <5>1, <5>2
      <4>3. Ahead("btmToPersist", "LoadPieces", "Remove", h)'
        BY <1>1, <2>6, <4>1, <4>2, AheadStays DEF Inv, Typed
      <4>4. QED
        BY <2>0, <2>6, <2>9, <3>6, <4>1, <4>3 DEF Frame, WayFrame, AheadFrame, Sound, Current
    <3>8. Prepared(h)'
      BY <2>0, <2>6, <2>9, <3>1, <3>6 DEF Frame, WayFrame, Sound, Prepared
    <3>9. Populated(h)'
      BY <2>0, <2>6, <2>9, <3>1, <3>3, <3>6 DEF Frame, WayFrame, Sound, Populated, Tracked, Stale
    <3>10. Had(h)'
      BY <2>0, <2>6, <2>9, <3>1, <3>2, <3>5 DEF Frame, WayFrame, Sound, Had
    <3>11. OnTheWay(h)'
      BY <3>4 DEF OnTheWay
    <3>12. Registered(h) => Registered(h)'
      BY <2>0, <2>6, <3>5, <3>6 DEF Frame, WayFrame, Registered
    <3>13. Agrees(h)'
      BY <3>1, <3>3, <3>4, AgreesReports DEF Reports, Reported
    <3>14. QED
      BY <3>5, <3>7, <3>8, <3>9, <3>10, <3>11, <3>12, <3>13 DEF Sound, Tidy
  <2>10. h \in Torrents => Each(h)'
    BY <1>6, <2>9, EachStep
  <2>11. QED
    BY <1>1, <1>6, <2>5, <2>7, <2>8, <2>10, About
<1>10. QED
  <2>1. \E isComplete \in IF h \in DOMAIN torrents THEN {torrents[h]} ELSE BOOLEAN :
          \/ /\ isComplete
             /\ Answers("appToBtm", [btmToApp |-> << <<"Completed", h>> >>])
             /\ UNCHANGED pieceMan
          \/ /\ ~isComplete
             /\ pieceMan' = IF h \in DOMAIN pieceMan
                            THEN [pieceMan EXCEPT ![h].active = TRUE] ELSE pieceMan
             /\ Answers("appToBtm", [btmToApp |-> << <<"Resumed", h>> >>,
                                     btmToPersist |-> << <<"LoadPieces", h>> >>])
    BY <1>5, Zenon DEF ProcessResume
  <2>2. QED
    BY <1>8, <1>9, <2>1 DEF Known, Undone, IsComplete

(* Events of which there are not both. *)
LEMMA NotBoth ==
  ASSUME Inv, NEW d \in Channels, NEW t, NEW u, NEW h, ~Way(d, t, h) \/ ~Way(d, u, h)
  PROVE  Ahead(d, t, u, h)
<1>1. q[d] \in Seq(EventsOf(d))
  BY DEF Inv, Typed, QueuesTyped
<1>2. QED
  BY <1>1, NoneWithout DEF Way, Ahead

(* ProcessRemove: requests that are on their way for the torrent are from  *)
(* before its removal, which is the next event of its life.                *)
LEMMA RemoveKeeps ==
  ASSUME Inv, Whole, ProcessRemove
  PROVE  Whole'
<1>1. /\ "appToBtm" \in Channels \ Loading /\ "btmToApp" \in Channels \ (Loading \cup {"appToBtm"})
      /\ "btmToPersist" \in Channels \ (Loading \cup {"appToBtm"}) /\ "appToBtm" # "appToPersist"
      /\ "persistToBtm" \in Channels
  BY Names
<1>2. Takes("btm", "appToBtm", "Remove")
  BY DEF ProcessRemove
<1>3. Event("appToBtm") \in EventsOf("appToBtm") /\ Event("appToBtm")[1] = "Remove"
  BY <1>1, <1>2, Taken
<1>4. PICK h \in Hashes : Event("appToBtm") = <<"Remove", h>>
  BY <1>3, Shapes
<1>5. Event("appToBtm")[2] = h /\ Head(q["appToBtm"]) = <<"Remove", h>>
  BY <1>4 DEF Event
<1>6. PICK sent : sent = [btmToPersist |-> << <<"Remove", h>> >>, btmToApp |-> << <<"Removed", h>> >>]
  OBVIOUS
<1>7. /\ torrents' = Without(torrents, h) /\ pieceMan' = Without(pieceMan, h)
      /\ announced' \in {announced, announced \ {h}}
      /\ IF Initializing(h) \/ h \in announced' THEN Note("late", h) ELSE UNCHANGED history
      /\ Answers("appToBtm", sent)
      /\ UNCHANGED <<active, appVars, onDisk, persistVars>> /\ UNCHANGED known
  BY <1>5, <1>6 DEF ProcessRemove
<1>8. /\ history \subseteq history'
      /\ ~Spoilt(h)' => ~Initializing(h) /\ h \notin announced'
  BY <1>7 DEF Note, Spoilt, Unexpected
<1>9. PICK S : S = {<<"btmToPersist", "Remove">>, <<"btmToApp", "Removed">>}
  OBVIOUS
<1>10. /\ DOMAIN sent = {"btmToPersist", "btmToApp"} /\ sent["btmToPersist"] = << <<"Remove", h>> >>
       /\ sent["btmToApp"] = << <<"Removed", h>> >>
  BY <1>6
<1>11. Says(sent, S, h, "appToBtm")
  <2>1. <<"Remove", h>> \in EventsOf("btmToPersist") /\ <<"Removed", h>> \in EventsOf("btmToApp")
    BY Made
  <2>2. /\ <<"Remove", h>>[1] = "Remove" /\ <<"Removed", h>>[1] = "Removed"
        /\ <<"Remove", h>>[2] = h /\ <<"Removed", h>>[2] = h
    OBVIOUS
  <2>3. QED
    BY <1>1, <1>9, <1>10, <2>1, <2>2, SaysTwo
<1>12. Hop("appToBtm", sent, <<"appToBtm", "Remove">>, S, h)
  BY <1>1, <1>2, <1>5, <1>7, <1>11, HopTaken
<1>13. Shift("appToBtm", sent) /\ Frame(<<"appToBtm", "Remove">>, S, h)
  BY <1>12, Hopped DEF Hop
<1>14. (\A g : g # h => SameBtm(g)) /\ Held'
  <2>1. \A g : g # h => SameAt(torrents, torrents', g) /\ SameAt(pieceMan, pieceMan', g)
    BY <1>7, WithoutIs
  <2>2. DOMAIN torrents' = DOMAIN torrents \ {h} /\ DOMAIN pieceMan' = DOMAIN pieceMan \ {h}
    BY <1>7, WithoutIs
  <2>3. \A g : g # h => (g \in announced' <=> g \in announced)
    <3>1. announced' = announced \/ announced' = announced \ {h}
      BY <1>7
    <3>2. QED
      BY <3>1
  <2>4. QED
    BY <2>1, <2>2, <2>3 DEF SameBtm, Whole, Global, Held
<1>15. \A p \in Pieces : Storing(h, p)' => Storing(h, p)
  BY <1>9, <1>13 DEF Frame
<1>16. ASSUME h \in Torrents, ~Spoilt(h)', Sound(h), OneLife(h) PROVE Sound(h)' /\ (Tidy(h) => Tidy(h)')
  <2>1. /\ h \in torrentIds /\ Shown(h) = {} /\ ~Carries("persistToApp", h) /\ ~Way("persistToBtm", "Added", h)
        /\ ~Way("btmToApp", "Added", h) /\ ~Way("btmToPersist", "Remove", h) /\ q["appToPersist"] = <<>>
    <3>1. Way("appToBtm", "Remove", h)
      BY <1>1, <1>5, <1>13, WasThere
    <3>2. QED
      BY <1>16, <3>1, Exclusive
  <2>2. ~Known(h)' /\ ~Undone(h)' /\ ~IsComplete(h)'
    <3>1. h \notin DOMAIN torrents'
      BY <1>7 DEF Without
    <3>2. QED
      BY <3>1 DEF Known, Undone, IsComplete
  <2>3. Have(h) \subseteq Have(h)' /\ onDisk[h] \subseteq onDisk'[h] /\ (h \in torrentIds' <=> h \in torrentIds)
    BY <1>7, <1>13 DEF Frame, Have, persistVars
  <2>4. ~Way("appToBtm", "Start", h)'
    BY <1>1, <1>5, <1>13, <1>16, NoneLeft DEF Sound, Current
  <2>5. Way("btmToPersist", "Remove", h)'
    BY <1>1, <1>10, <1>13, Arrives
  <2>6. Shown(h)' = Shown(h) /\ (MapsTo(h) => MapsTo(h)')
    BY <1>7 DEF appVars, Shown, MapsTo
  <2>7. ~Way("btmToDisk", "Init", h) /\ ~Way("diskToBtm", "Initialized", h)
    BY <1>8, <1>16 DEF Initializing, Way
  <2>8. Current(h)'
    BY <1>9, <1>13, <1>16, <2>2, <2>3, <2>4, <2>7 DEF Frame, WayFrame, AheadFrame, Sound, Current
  <2>9. Prepared(h)'
    BY <1>7, <1>9, <1>13, <1>16, <2>2, <2>7 DEF Frame, WayFrame, Sound, Prepared
  <2>10. Stale(h)'
    <3>1. /\ Ahead("persistToBtm", "Trackers", "Added", h)
          /\ Ahead("btmToPersist", "LoadTrackers", "Remove", h)
      BY <1>1, <2>1, NotBoth
    <3>2. QED
      BY <1>9, <1>13, <2>1, <2>2, <2>3, <2>4, <3>1 DEF Frame, WayFrame, AheadFrame, Stale
  <2>11. Populated(h)'
    BY <1>8, <1>9, <1>13, <1>16, <2>3, <2>10 DEF Frame, Sound, Populated
  <2>12. Had(h)'
    BY <1>9, <1>13, <1>16, <2>1, <2>2, <2>3, <2>6 DEF Frame, WayFrame, Sound, Had, ShownDone
  <2>13. OnTheWay(h)' /\ Registered(h)' /\ Agrees(h)'
    BY <2>1, <2>2, <2>5, <2>6 DEF OnTheWay, Registered, Agrees
  <2>14. QED
    BY <2>6, <2>8, <2>9, <2>11, <2>12, <2>13 DEF Sound, Tidy
<1>17. h \in Torrents => Each(h)'
  BY <1>8, <1>16, EachStep
<1>18. QED
  BY <1>1, <1>7, <1>8, <1>12, <1>14, <1>15, <1>17, About

(* A torrent makes progress: it has been told what it lacks, or has got a  *)
(* piece of it, and may be complete.                                       *)
LEMMA Progress ==
  ASSUME NEW k, NEW S, NEW h, Frame(k, S, h), k \in {NoKind, <<"persistToBtm", "Pieces">>},
         S \subseteq {<<"btmToDisk", "Write">>, <<"btmToApp", "Completed">>},
         UNCHANGED <<appVars, announced, known, onDisk, persistVars, history>>,
         Sound(h), Good(h)', Active(h)' <=> Active(h), Known(h)' => Known(h) \/ PiecesWay(h),
         IsComplete(h)' => Pieces \subseteq Have(h)',
         <<"btmToDisk", "Write">> \notin S \/ h \in known \/ Prefixed(h)',
         ~Undone(h)' \/ (Undone(h) /\ h \in announced),
         \/ /\ <<"btmToApp", "Completed">> \notin S
            /\ Known(h)' <=> Known(h)
            /\ Undone(h)' <=> Undone(h)
            /\ IsComplete(h)' <=> IsComplete(h)
         \/ /\ IsComplete(h)' /\ Way("btmToApp", "Completed", h)'
            /\ \A u \in Reports : Latest(u, h)' => u = "Completed"
  PROVE  Sound(h)' /\ (Tidy(h) => Tidy(h)')
<1>1. /\ \A t \in {"Start", "Remove"} : <<"appToBtm", t>> \notin S /\ <<"appToBtm", t>> # k
      /\ \A t \in {"Remove", "LoadPieces", "LoadTrackers"} : <<"btmToPersist", t>> \notin S /\ <<"btmToPersist", t>> # k
      /\ \A t \in {"Added", "Trackers"} : <<"persistToBtm", t>> \notin S /\ <<"persistToBtm", t>> # k
      /\ <<"persistToBtm", "Pieces">> \notin S /\ <<"btmToDisk", "Init">> \notin S
      /\ <<"btmToDisk", "Init">> # k /\ <<"btmToDisk", "Write">> # k
      /\ <<"diskToBtm", "Initialized">> \notin S /\ <<"diskToBtm", "Initialized">> # k
      /\ \A t \in Reports \cup {"Added"} : <<"btmToApp", t>> # k
      /\ <<"btmToApp", "Added">> \notin S
      /\ <<"persistToApp", "AllTorrents">> \notin S /\ <<"persistToApp", "AllTorrents">> # k
  BY DEF NoKind, Reports
<1>2. /\ Have(h) \subseteq Have(h)' /\ onDisk[h] \subseteq onDisk'[h]
      /\ h \in announced' <=> h \in announced
      /\ h \in known' <=> h \in known
      /\ h \in torrentIds' <=> h \in torrentIds
  BY <1>1 DEF Frame, Have, persistVars
<1>3. Shown(h)' = Shown(h) /\ (ShownDone(h)' <=> ShownDone(h)) /\ (MapsTo(h) => MapsTo(h)')
  BY DEF appVars, Shown, ShownDone, MapsTo
<1>4. Current(h)'
  BY <1>1, <1>2 DEF Frame, WayFrame, AheadFrame, Sound, Current
<1>5. Prepared(h)'
  BY <1>1, <1>2 DEF Frame, WayFrame, Sound, Prepared
<1>6. Populated(h)'
  BY <1>1, <1>2 DEF Frame, Sound, Populated
<1>7. Had(h)'
  BY <1>1, <1>2, <1>3 DEF Frame, WayFrame, Sound, Had
<1>8. OnTheWay(h)'
  BY <1>2 DEF OnTheWay
<1>9. Registered(h) => Registered(h)'
  BY <1>1, <1>2, <1>3 DEF Frame, WayFrame, Registered
<1>10. Agrees(h) => Agrees(h)'
  <2>1. CASE /\ <<"btmToApp", "Completed">> \notin S
             /\ Known(h)' <=> Known(h)
             /\ Undone(h)' <=> Undone(h)
             /\ IsComplete(h)' <=> IsComplete(h)
    <3>1. \A t \in Reports : <<"btmToApp", t>> \notin S
      BY <2>1
    <3>2. QED
      BY <1>1, <2>1, <3>1, AgreesKeeps DEF Reports
  <2>2. CASE /\ IsComplete(h)' /\ Way("btmToApp", "Completed", h)'
             /\ \A u \in Reports : Latest(u, h)' => u = "Completed"
    BY <2>2, AgreesReports DEF Reports, Reported
  <2>3. QED
    BY <2>1, <2>2
<1>11. QED
  BY <1>3, <1>4, <1>5, <1>6, <1>7, <1>8, <1>9, <1>10 DEF Sound, Tidy

(* What is said when a torrent is complete. *)
LEMMA SaysCompleted ==
  ASSUME NEW h \in Hashes, NEW c, "btmToApp" # c, NEW sent, DOMAIN sent = {"btmToApp"},
         sent["btmToApp"] = CompletedOnce(h)
  PROVE  /\ IsComplete(h) => Says(sent, {}, h, c)
         /\ ~IsComplete(h) => /\ Says(sent, {<<"btmToApp", "Completed">>}, h, c)
                              /\ sent["btmToApp"] = << <<"Completed", h>> >>
<1>1. "btmToApp" \in Channels \ (Loading \cup {c})
  BY Names
<1>2. ASSUME IsComplete(h) PROVE Says(sent, {}, h, c)
  <2>1. sent["btmToApp"] = <<>>
    BY <1>2 DEF CompletedOnce
  <2>2. QED
    BY <1>1, <2>1 DEF Says
<1>3. ASSUME ~IsComplete(h)
      PROVE  /\ Says(sent, {<<"btmToApp", "Completed">>}, h, c)
             /\ sent["btmToApp"] = << <<"Completed", h>> >>
  <2>1. sent["btmToApp"] = << <<"Completed", h>> >>
    BY <1>3 DEF CompletedOnce
  <2>2. /\ <<"Completed", h>> \in EventsOf("btmToApp") /\ <<"Completed", h>>[1] = "Completed"
        /\ <<"Completed", h>>[2] = h
    BY Events
  <2>3. QED
    BY <1>1, <2>1, <2>2, SaysOne
<1>4. QED
  BY <1>2, <1>3

(* updateTorrentCompleted. *)
LEMMA Completes ==
  ASSUME NEW h, UpdateTorrentCompleted(h)
  PROVE  /\ Known(h)' /\ IsComplete(h)' /\ ~Undone(h)' /\ DOMAIN torrents' = DOMAIN torrents \cup {h}
         /\ \A g : g # h => SameAt(torrents, torrents', g)
<1>1. torrents' = With(torrents, h, TRUE)
  BY DEF UpdateTorrentCompleted
<1>2. h \in DOMAIN torrents' /\ torrents'[h] = TRUE /\ DOMAIN torrents' = DOMAIN torrents \cup {h}
  BY <1>1 DEF With
<1>3. \A g : g # h => SameAt(torrents, torrents', g)
  BY <1>1, WithIs
<1>4. QED
  BY <1>2, <1>3 DEF Known, IsComplete, Undone

(* ProcessPieces: what the database does not have as missing is on disk. *)
LEMMA PiecesKeep ==
  ASSUME Inv, Whole, ProcessPieces
  PROVE  Whole'
<1>1. /\ "persistToBtm" \in Channels \ Loading /\ "btmToApp" \in Channels \ (Loading \cup {"persistToBtm"})
      /\ "btmToPersist" \in Channels \ (Loading \cup {"persistToBtm"}) /\ "persistToBtm" # "appToPersist"
  BY Names
<1>2. Takes("btm", "persistToBtm", "Pieces")
  BY DEF ProcessPieces
<1>3. /\ Event("persistToBtm") \in EventsOf("persistToBtm") /\ Event("persistToBtm")[1] = "Pieces"
      /\ q["persistToBtm"] # <<>> /\ Event("persistToBtm") = Head(q["persistToBtm"])
  BY <1>1, <1>2, Taken
<1>4. PICK h \in Hashes, M \in SUBSET Pieces : Event("persistToBtm") = <<"Pieces", h, M>>
  BY <1>3, Shapes
<1>5. Event("persistToBtm")[2] = h /\ Event("persistToBtm")[3] = M
  BY <1>4
<1>6. /\ UNCHANGED <<active, appVars, onDisk, persistVars>> /\ history \subseteq history'
      /\ UNCHANGED <<appVars, announced, known, onDisk, persistVars, history>>
  BY DEF ProcessPieces
<1>7. PICK missing : missing = MissingPieces(h) \cup M
  OBVIOUS
<1>8. /\ pieceMan' = With(pieceMan, h, [active |-> h \in DOMAIN pieceMan /\ pieceMan[h].active, mAvailable |-> missing])
      /\ \/ /\ missing # {} /\ UNCHANGED torrents
            /\ Answers("persistToBtm", [btmToPersist |-> << <<"LoadTrackers", h>> >>])
         \/ /\ missing = {} /\ UpdateTorrentCompleted(h)
            /\ Answers("persistToBtm", [btmToApp |-> CompletedOnce(h)])
  BY <1>5, <1>7 DEF ProcessPieces
<1>9. h \in DOMAIN pieceMan' /\ (Active(h)' <=> Active(h)) /\ pieceMan'[h].mAvailable = missing
  <2>1. PICK a : a = (h \in DOMAIN pieceMan /\ pieceMan[h].active)
    OBVIOUS
  <2>2. pieceMan' = With(pieceMan, h, [active |-> a, mAvailable |-> missing])
    BY <1>8, <2>1
  <2>3. h \in DOMAIN pieceMan' /\ pieceMan'[h].active = a /\ pieceMan'[h].mAvailable = missing
    BY <2>2, PiecesSet
  <2>4. QED
    BY <2>1, <2>3 DEF Active
<1>10. DOMAIN pieceMan' = DOMAIN pieceMan \cup {h} /\ \A g : g # h => SameAt(pieceMan, pieceMan', g)
  BY <1>8, WithIs
<1>11. PiecesWay(h) /\ (Covered(h) => Pieces \ M \subseteq onDisk[h])
  <2>1. q["persistToBtm"] \in Seq(EventsOf("persistToBtm"))
    BY <1>1 DEF Inv, Typed, QueuesTyped
  <2>2. <<"Pieces", h, M>> \in Range(q["persistToBtm"])
    BY <1>3, <1>4, <2>1, Taking
  <2>3. QED
    BY <2>2 DEF PiecesWay, Covered
<1>12. CASE missing # {} /\ UNCHANGED torrents /\ Answers("persistToBtm", [btmToPersist |-> << <<"LoadTrackers", h>> >>])
  <2>1. PICK sent : sent = [btmToPersist |-> << <<"LoadTrackers", h>> >>]
    OBVIOUS
  <2>2. DOMAIN sent = {"btmToPersist"} /\ sent["btmToPersist"] = << <<"LoadTrackers", h>> >>
    BY <2>1, Records
  <2>3. Says(sent, {<<"btmToPersist", "LoadTrackers">>}, h, "persistToBtm")
    <3>1. /\ <<"LoadTrackers", h>> \in EventsOf("btmToPersist") /\ <<"LoadTrackers", h>>[1] = "LoadTrackers"
          /\ <<"LoadTrackers", h>>[2] = h
      BY Events
    <3>2. QED
      BY <1>1, <2>2, <3>1, SaysOne
  <2>4. PICK S : S = {<<"btmToPersist", "LoadTrackers">>}
    OBVIOUS
  <2>5. Hop("persistToBtm", sent, <<"persistToBtm", "Pieces">>, S, h)
    BY <1>1, <1>2, <1>5, <1>12, <2>1, <2>3, <2>4, HopTaken
  <2>6. Shift("persistToBtm", sent) /\ Frame(<<"persistToBtm", "Pieces">>, S, h)
    BY <2>5, Hopped DEF Hop
  <2>7. (\A g : g # h => SameBtm(g)) /\ Held'
    BY <1>6, <1>10, <1>12, SameAsIs DEF SameBtm, Whole, Global, Held
  <2>8. \A p \in Pieces : Storing(h, p)' => Storing(h, p)
    BY <2>4, <2>6 DEF Frame
  <2>9. ASSUME h \in Torrents, Sound(h) PROVE Sound(h)' /\ (Tidy(h) => Tidy(h)')
    <3>1. (Known(h)' <=> Known(h)) /\ (Undone(h)' <=> Undone(h)) /\ (IsComplete(h)' <=> IsComplete(h))
      BY <1>12 DEF Known, Undone, IsComplete
    <3>2. /\ Have(h) \subseteq Have(h)' /\ onDisk[h] \subseteq onDisk'[h] /\ onDisk[h] \subseteq Have(h)
          /\ h \in announced' <=> h \in announced
          /\ h \in known' <=> h \in known
          /\ h \in torrentIds' <=> h \in torrentIds
      BY <1>6, <2>6 DEF Frame, Have, persistVars
    <3>3. Good(h)'
      BY <1>7, <1>9, <1>11, <2>9, <3>2 DEF Sound, Populated, Good
    <3>4. Way("btmToPersist", "LoadTrackers", h)'
      BY <1>1, <2>2, <2>6, Arrives
    <3>5. Shown(h)' = Shown(h) /\ (ShownDone(h)' <=> ShownDone(h)) /\ (MapsTo(h) => MapsTo(h)')
      BY <1>6 DEF appVars, Shown, ShownDone, MapsTo
    <3>6. Current(h)'
      BY <2>4, <2>6, <2>9, <3>1, <3>2 DEF Frame, WayFrame, AheadFrame, Sound, Current
    <3>7. Prepared(h)'
      BY <2>4, <2>6, <2>9, <3>1, <3>2 DEF Frame, WayFrame, Sound, Prepared
    <3>8. Populated(h)'
      BY <2>4, <2>6, <2>9, <3>2, <3>3 DEF Frame, Sound, Populated
    <3>9. Had(h)'
      BY <2>4, <2>6, <2>9, <3>1, <3>2, <3>5 DEF Frame, WayFrame, Sound, Had
    <3>10. OnTheWay(h)'
      BY <3>4 DEF OnTheWay, Tracked
    <3>11. Registered(h) => Registered(h)'
      BY <2>4, <2>6, <3>2, <3>5 DEF Frame, WayFrame, Registered
    <3>12. Agrees(h) => Agrees(h)'
      <4>1. \A t \in Reports : <<"btmToApp", t>> \notin S
        BY <2>4
      <4>2. PICK k : k = <<"persistToBtm", "Pieces">>
        OBVIOUS
      <4>3. /\ <<"btmToApp", "Stopped">> # k /\ <<"btmToApp", "Completed">> # k /\ <<"btmToApp", "Resumed">> # k
            /\ <<"appToBtm", "Start">> # k
        BY <4>2
      <4>4. QED
        BY <1>6, <1>9, <2>6, <3>1, <4>1, <4>2, <4>3, AgreesKeeps
    <3>13. QED
      BY <3>5, <3>6, <3>7, <3>8, <3>9, <3>10, <3>11, <3>12 DEF Sound, Tidy
  <2>10. h \in Torrents => Each(h)'
    BY <1>6, <2>9, EachStep
  <2>11. QED
    BY <1>1, <1>6, <2>5, <2>7, <2>8, <2>10, About
<1>13. CASE missing = {} /\ UpdateTorrentCompleted(h) /\ Answers("persistToBtm", [btmToApp |-> CompletedOnce(h)])
  <2>1. PICK sent : sent = [btmToApp |-> CompletedOnce(h)]
    OBVIOUS
  <2>2. DOMAIN sent = {"btmToApp"} /\ sent["btmToApp"] = CompletedOnce(h)
    BY <2>1, Records
  <2>3. PICK S : S = IF IsComplete(h) THEN {} ELSE {<<"btmToApp", "Completed">>}
    OBVIOUS
  <2>4. Says(sent, S, h, "persistToBtm") /\ (~IsComplete(h) => sent["btmToApp"] = << <<"Completed", h>> >>)
    BY <2>2, <2>3, SaysCompleted
  <2>5. Hop("persistToBtm", sent, <<"persistToBtm", "Pieces">>, S, h)
    BY <1>1, <1>2, <1>5, <1>13, <2>1, <2>4, HopTaken
  <2>6. Shift("persistToBtm", sent) /\ Frame(<<"persistToBtm", "Pieces">>, S, h)
    BY <2>5, Hopped DEF Hop
  <2>7. /\ Known(h)' /\ IsComplete(h)' /\ ~Undone(h)' /\ DOMAIN torrents' = DOMAIN torrents \cup {h}
        /\ \A g : g # h => SameAt(torrents, torrents', g)
    BY <1>13, Completes
  <2>8. (\A g : g # h => SameBtm(g)) /\ Held'
    BY <1>6, <1>10, <2>7 DEF SameBtm, Whole, Global, Held
  <2>9. \A p \in Pieces : Storing(h, p)' => Storing(h, p)
    BY <2>3, <2>6 DEF Frame
  <2>10. ASSUME h \in Torrents, Sound(h) PROVE Sound(h)' /\ (Tidy(h) => Tidy(h)')
    <3>1. Pieces \subseteq onDisk[h]
      BY <1>7, <1>11, <1>13, <2>10 DEF Sound, Populated
    <3>2. Pieces \subseteq Have(h)' /\ Good(h)'
      BY <1>6, <1>9, <3>1 DEF Have, Good
    <3>3. ~IsComplete(h) => /\ Way("btmToApp", "Completed", h)'
                            /\ \A u \in Reports : Latest(u, h)' => u = "Completed"
      BY <1>1, <2>2, <2>4, <2>6, Arrives DEF Reports
    <3>4. IsComplete(h) => Known(h) /\ ~Undone(h)
      BY DEF IsComplete, Known, Undone
    <3>5. /\ S \subseteq {<<"btmToDisk", "Write">>, <<"btmToApp", "Completed">>} /\ <<"btmToDisk", "Write">> \notin S
          /\ IsComplete(h) => <<"btmToApp", "Completed">> \notin S
      BY <2>3
    <3>6. PICK k : k = <<"persistToBtm", "Pieces">>
      OBVIOUS
    <3>7. Frame(k, S, h) /\ k \in {NoKind, <<"persistToBtm", "Pieces">>}
      BY <2>6, <3>6
    <3>8. QED
      BY <1>6, <1>9, <1>11, <2>7, <2>10, <3>2, <3>3, <3>4, <3>5, <3>7, Progress
  <2>11. h \in Torrents => Each(h)'
    BY <1>6, <2>10, EachStep
  <2>12. QED
    BY <1>1, <1>6, <2>5, <2>8, <2>9, <2>11, About
<1>14. QED
  BY <1>8, <1>12, <1>13

(* ProcessTrackers: peers are asked for only if the torrent was told what  *)
(* it lacks.                                                               *)
LEMMA TrackersKeep ==
  ASSUME Inv, Whole, ProcessTrackers
  PROVE  Whole'
<1>1. "persistToBtm" \in Channels \ Loading /\ "persistToBtm" # "appToPersist"
  BY Names
<1>2. Takes("btm", "persistToBtm", "Trackers")
  BY DEF ProcessTrackers
<1>3. Event("persistToBtm") \in EventsOf("persistToBtm") /\ Event("persistToBtm")[1] = "Trackers"
  BY <1>1, <1>2, Taken
<1>4. PICK h \in Hashes : Event("persistToBtm") = <<"Trackers", h>>
  BY <1>3, Shapes
<1>5. Event("persistToBtm")[2] = h /\ Head(q["persistToBtm"]) = <<"Trackers", h>>
  BY <1>4 DEF Event
<1>6. /\ UNCHANGED <<active, appVars, onDisk, persistVars>> /\ history \subseteq history'
      /\ UNCHANGED <<torrents, pieceMan, known, history>> /\ Answers("persistToBtm", Nothing)
      /\ announced' = announced \cup ({h} \cap DOMAIN torrents)
  BY <1>5 DEF ProcessTrackers
<1>7. PICK sent : sent = Nothing
  OBVIOUS
<1>8. PICK k : k = <<"persistToBtm", "Trackers">>
  OBVIOUS
<1>9. Hop("persistToBtm", sent, k, {}, h)
  BY <1>1, <1>2, <1>5, <1>6, <1>7, <1>8, SaysNothing, HopTaken
<1>10. Shift("persistToBtm", sent) /\ Frame(k, {}, h)
  BY <1>9, Hopped DEF Hop
<1>11. (\A g : g # h => SameBtm(g)) /\ Held'
  BY <1>6, SameAsIs DEF SameBtm, Whole, Global, Held
<1>12. \A p \in Pieces : Storing(h, p)' => Storing(h, p)
  BY <1>10 DEF Frame
<1>13. ASSUME h \in Torrents, Sound(h) PROVE Sound(h)' /\ (Tidy(h) => Tidy(h)')
  <2>1. /\ (Known(h)' <=> Known(h)) /\ (Undone(h)' <=> Undone(h)) /\ (IsComplete(h)' <=> IsComplete(h))
        /\ Active(h)' <=> Active(h)
    BY <1>6 DEF Known, Undone, IsComplete, Active
  <2>2. /\ Have(h) \subseteq Have(h)' /\ onDisk[h] \subseteq onDisk'[h]
        /\ h \in known' <=> h \in known
        /\ h \in torrentIds' <=> h \in torrentIds
    BY <1>6, <1>8, <1>10 DEF Frame, Have, persistVars
  <2>3. Good(h) => Good(h)'
    BY <1>6, <2>2 DEF Good
  <2>4. h \in announced' => Good(h)
    <3>1. Tracked(h)
      BY <1>1, <1>5, <1>10, WasThere DEF Tracked
    <3>2. Good(h) \/ ~Known(h)
      BY <1>13, <3>1 DEF Sound, Populated, Stale
    <3>3. QED
      BY <1>6, <1>13, <3>2 DEF Sound, Populated, Known
  <2>5. Shown(h)' = Shown(h) /\ (ShownDone(h)' <=> ShownDone(h)) /\ (MapsTo(h) => MapsTo(h)')
    BY <1>6 DEF appVars, Shown, ShownDone, MapsTo
  <2>6. Current(h)'
    BY <1>8, <1>10, <1>13, <2>1, <2>2 DEF Frame, WayFrame, AheadFrame, Sound, Current
  <2>7. Prepared(h)'
    BY <1>8, <1>10, <1>13, <2>1, <2>2 DEF Frame, WayFrame, Sound, Prepared
  <2>8. Populated(h)'
    <3>1. Tracked(h)' => Tracked(h)
      BY <1>8, <1>10 DEF Frame, WayFrame, Tracked
    <3>2. Stale(h) => Stale(h)'
      BY <1>8, <1>10, <2>1, <2>2 DEF Frame, WayFrame, AheadFrame, Stale
    <3>3. QED
      BY <1>8, <1>10, <1>13, <2>2, <2>3, <2>4, <3>1, <3>2 DEF Frame, Sound, Populated
  <2>9. Had(h)'
    BY <1>8, <1>10, <1>13, <2>1, <2>2, <2>5 DEF Frame, WayFrame, Sound, Had
  <2>10. OnTheWay(h)'
    BY <1>6, <2>1 DEF OnTheWay, Undone
  <2>11. Registered(h) => Registered(h)'
    BY <1>8, <1>10, <2>2, <2>5 DEF Frame, WayFrame, Registered
  <2>12. Agrees(h) => Agrees(h)'
    <3>1. /\ <<"btmToApp", "Stopped">> # k /\ <<"btmToApp", "Completed">> # k /\ <<"btmToApp", "Resumed">> # k
          /\ <<"appToBtm", "Start">> # k
      BY <1>8
    <3>2. PICK S : S = {}
      OBVIOUS
    <3>3. Frame(k, S, h) /\ \A t \in Reports : <<"btmToApp", t>> \notin S
      BY <1>10, <3>2
    <3>4. QED
      BY <1>6, <2>1, <3>1, <3>3, AgreesKeeps
  <2>13. QED
    BY <2>5, <2>6, <2>7, <2>8, <2>9, <2>10, <2>11, <2>12 DEF Sound, Tidy
<1>14. h \in Torrents => Each(h)'
  BY <1>6, <1>13, EachStep
<1>15. QED
  BY <1>1, <1>6, <1>9, <1>11, <1>12, <1>14, About

(* A torrent that has peers and finds that nothing is missing. *)
LEMMA NothingMissingKeeps ==
  ASSUME Inv, Whole, NEW h \in Torrents, NothingMissing(h)
  PROVE  Whole'
<1>1. "btmToApp" \in Channels /\ "btmToApp" # None /\ None # "appToPersist" /\ h \in Hashes
  BY DEF Channels, None, Hashes
<1>2. /\ UNCHANGED <<active, appVars, onDisk, persistVars>> /\ history \subseteq history'
      /\ UNCHANGED <<appVars, announced, known, onDisk, persistVars, history>> /\ UNCHANGED pieceMan
      /\ h \in announced /\ h \in DOMAIN pieceMan /\ pieceMan[h].mAvailable = {} /\ ~IsComplete(h)
      /\ h \in DOMAIN torrents /\ UpdateTorrentCompleted(h)
  BY DEF NothingMissing, HasPeers
<1>3. PICK sent : sent = [btmToApp |-> CompletedOnce(h)]
  OBVIOUS
<1>4. DOMAIN sent = {"btmToApp"} /\ sent["btmToApp"] = CompletedOnce(h) /\ Pushes(sent)
  BY <1>3, Records DEF NothingMissing
<1>5. PICK S : S = {<<"btmToApp", "Completed">>}
  OBVIOUS
<1>6. Says(sent, S, h, None) /\ sent["btmToApp"] = << <<"Completed", h>> >>
  BY <1>1, <1>2, <1>4, <1>5, SaysCompleted, SMTT(30)
<1>7. Hop(None, sent, NoKind, S, h)
  BY <1>4, <1>6, HopSent
<1>8. Shift(None, sent) /\ Frame(NoKind, S, h)
  BY <1>7, Hopped DEF Hop
<1>9. /\ Known(h)' /\ IsComplete(h)' /\ ~Undone(h)' /\ DOMAIN torrents' = DOMAIN torrents \cup {h}
      /\ \A g : g # h => SameAt(torrents, torrents', g)
  BY <1>2, Completes
<1>10. (\A g : g # h => SameBtm(g)) /\ Held'
  BY <1>2, <1>9, SameAsIs DEF SameBtm, Whole, Global, Held
<1>11. \A p \in Pieces : Storing(h, p)' => Storing(h, p)
  BY <1>5, <1>8 DEF Frame
<1>12. ASSUME Sound(h) PROVE Sound(h)' /\ (Tidy(h) => Tidy(h)')
  <2>1. Have(h) \subseteq Have(h)'
    BY <1>2, <1>8 DEF Frame, Have, NoKind
  <2>2. Good(h)
    BY <1>2, <1>12 DEF Sound, Populated
  <2>3. Pieces \subseteq Have(h)' /\ Good(h)' /\ (Active(h)' <=> Active(h))
    BY <1>2, <2>1, <2>2 DEF Good, Active
  <2>4. Way("btmToApp", "Completed", h)' /\ \A u \in Reports : Latest(u, h)' => u = "Completed"
    BY <1>1, <1>4, <1>6, <1>8, Arrives DEF Reports
  <2>5. S \subseteq {<<"btmToDisk", "Write">>, <<"btmToApp", "Completed">>} /\ <<"btmToDisk", "Write">> \notin S
    BY <1>5
  <2>6. PICK k : k = NoKind
    OBVIOUS
  <2>7. Frame(k, S, h) /\ k \in {NoKind, <<"persistToBtm", "Pieces">>}
    BY <1>8, <2>6
  <2>8. Known(h)
    BY <1>2 DEF Known
  <2>9. QED
    BY <1>2, <1>9, <1>12, <2>3, <2>4, <2>5, <2>7, <2>8, Progress
<1>13. Each(h)'
  BY <1>2, <1>12, EachStep
<1>14. QED
  BY <1>1, <1>2, <1>7, <1>10, <1>11, <1>13, About

(* A piece is finished and goes to the disk service, which knows the       *)
(* torrent or will know it first.                                          *)
LEMMA PieceFinishedKeeps ==
  ASSUME Inv, Whole, NEW h \in Torrents, NEW p \in Pieces, PieceFinished(h, p)
  PROVE  Whole'
<1>1. /\ "btmToDisk" \in Channels \ (Loading \cup {None}) /\ "btmToApp" \in Channels \ (Loading \cup {None})
      /\ "btmToApp" # None /\ "btmToDisk" # None /\ None # "appToPersist" /\ h \in Hashes
  BY DEF Channels, None, Hashes, Loading
<1>2. PICK missing : missing = pieceMan[h].mAvailable \ {p}
  OBVIOUS
<1>3. /\ UNCHANGED <<active, appVars, onDisk, persistVars>> /\ history \subseteq history'
      /\ UNCHANGED <<appVars, announced, known, onDisk, persistVars, history>>
      /\ h \in announced /\ h \in DOMAIN pieceMan /\ h \in DOMAIN torrents
      /\ pieceMan' = [pieceMan EXCEPT ![h].mAvailable = missing]
  BY <1>2 DEF PieceFinished, HasPeers
<1>4. /\ DOMAIN pieceMan' = DOMAIN pieceMan /\ pieceMan'[h] = [pieceMan[h] EXCEPT !.mAvailable = missing]
      /\ \A g : g # h => SameAt(pieceMan, pieceMan', g)
  BY <1>3 DEF SameAt
<1>5. (Active(h)' <=> Active(h)) /\ pieceMan'[h].mAvailable = missing
  <2>1. pieceMan'[h].active = pieceMan[h].active
    BY <1>4
  <2>2. pieceMan'[h].mAvailable = missing
    BY <1>4
  <2>3. h \in DOMAIN pieceMan' /\ h \in DOMAIN pieceMan
    BY <1>3, <1>4
  <2>4. QED
    BY <2>1, <2>2, <2>3 DEF Active
<1>6. PICK write : write = <<"Write", h, p>>
  OBVIOUS
<1>7. write \in EventsOf("btmToDisk") /\ write[1] = "Write" /\ write[2] = h
  BY <1>1, <1>6, Events
<1>8. ASSUME NEW sent, NEW S, Says(sent, S, h, None), Pushes(sent), "btmToDisk" \in DOMAIN sent,
             sent["btmToDisk"] = <<write>>, S \subseteq {<<"btmToDisk", "Write">>, <<"btmToApp", "Completed">>},
             DOMAIN torrents' = DOMAIN torrents, \A g : g # h => SameAt(torrents, torrents', g),
             IsComplete(h)' => missing = {} \/ IsComplete(h),
             \/ /\ <<"btmToApp", "Completed">> \notin S
                /\ Undone(h)' <=> Undone(h)
                /\ IsComplete(h)' <=> IsComplete(h)
             \/ /\ IsComplete(h)' /\ "btmToApp" \in DOMAIN sent
                /\ sent["btmToApp"] = << <<"Completed", h>> >>
      PROVE  Whole'
  <2>1. Hop(None, sent, NoKind, S, h)
    BY <1>8, HopSent
  <2>2. Shift(None, sent) /\ Frame(NoKind, S, h)
    BY <2>1, Hopped DEF Hop
  <2>3. (\A g : g # h => SameBtm(g)) /\ Held'
    BY <1>3, <1>4, <1>8 DEF SameBtm, Whole, Global, Held
  <2>4. \A x \in Pieces : Storing(h, x)' => Storing(h, x)
    <3>1. <<"diskToBtm", "WriteSuccess">> \notin S /\ <<"btmToPersist", "PieceComplete">> \notin S
      BY <1>8
    <3>2. QED
      BY <2>2, <3>1 DEF Frame
  <2>5. PICK s : s = q["btmToDisk"]
    OBVIOUS
  <2>6. s \in Seq(EventsOf("btmToDisk")) /\ <<write>> \in Seq(EventsOf("btmToDisk")) /\ q'["btmToDisk"] = s \o <<write>>
    <3>1. Sent(sent, "btmToDisk") = <<write>>
      BY <1>8 DEF Sent
    <3>2. QED
      <4>1. /\ q["btmToDisk"] \in Seq(EventsOf("btmToDisk")) /\ Sent(sent, "btmToDisk") \in Seq(EventsOf("btmToDisk"))
            /\ q'["btmToDisk"] = q["btmToDisk"] \o Sent(sent, "btmToDisk")
        BY <1>1, <2>2, Shifted DEF Inv, Typed
      <4>2. QED
        BY <2>5, <3>1, <4>1
  <2>7. ASSUME Sound(h) PROVE Sound(h)' /\ (Tidy(h) => Tidy(h)')
    <3>1. p \in Writing(h)'
      <4>1. write \in Range(<<write>>)
        BY <1>7, Single
      <4>2. write \in Range(q'["btmToDisk"])
        BY <2>6, <4>1, Joining
      <4>3. QED
        BY <1>6, <4>2 DEF Writing
    <3>2. Have(h) \cup {p} \subseteq Have(h)'
      BY <1>3, <2>2, <3>1 DEF Frame, Have, NoKind
    <3>3. Good(h)
      BY <1>3, <2>7 DEF Sound, Populated
    <3>4. Good(h)' /\ (missing = {} => Pieces \subseteq Have(h)')
      BY <1>2, <1>3, <1>4, <1>5, <3>2, <3>3 DEF Good
    <3>5. IsComplete(h)' => Pieces \subseteq Have(h)'
      BY <1>8, <2>7, <3>2, <3>4 DEF Sound, Had
    <3>6. (Known(h)' <=> Known(h)) /\ Known(h)
      BY <1>3, <1>8 DEF Known
    <3>7. h \in known \/ Prefixed(h)'
      <4>1. SUFFICES ASSUME h \notin known, NEW x \in Pieces
                     PROVE  SomeBefore(q'["btmToDisk"], <<"Write", h, x>>, <<"Init", h>>)
        BY DEF Prefixed
      <4>2. SomeBefore(s, <<"Write", h, x>>, <<"Init", h>>)
        BY <2>5, <2>7, <4>1 DEF Sound, Prepared, Prefixed
      <4>3. <<"Init", h>> \in Range(s)
        BY <2>5, <2>7, <3>6, <4>1 DEF Sound, Prepared, Way
      <4>4. SomeBefore(s \o <<write>>, <<"Write", h, x>>, <<"Init", h>>)
        BY <2>6, <4>2, <4>3, SomePush
      <4>5. QED
        BY <2>6, <4>4
    <3>8. \/ /\ <<"btmToApp", "Completed">> \notin S
             /\ Known(h)' <=> Known(h)
             /\ Undone(h)' <=> Undone(h)
             /\ IsComplete(h)' <=> IsComplete(h)
          \/ /\ IsComplete(h)' /\ Way("btmToApp", "Completed", h)'
             /\ \A u \in Reports : Latest(u, h)' => u = "Completed"
      <4>1. sent["btmToApp"] = << <<"Completed", h>> >> /\ "btmToApp" \in DOMAIN sent =>
               /\ Way("btmToApp", "Completed", h)'
               /\ \A u \in Reports : Latest(u, h)' => u = "Completed"
        BY <1>1, <2>2, Arrives DEF Reports
      <4>2. QED
        BY <1>8, <3>6, <4>1
    <3>9. ~Undone(h)' \/ (Undone(h) /\ h \in announced)
      <4>1. IsComplete(h)' => ~Undone(h)'
        BY DEF IsComplete, Undone
      <4>2. QED
        BY <1>3, <3>8, <4>1
    <3>10. PICK k : k = NoKind
      OBVIOUS
    <3>11. Frame(k, S, h) /\ k \in {NoKind, <<"persistToBtm", "Pieces">>}
      BY <2>2, <3>10
    <3>12. QED
      BY <1>3, <1>5, <1>8, <2>7, <3>4, <3>5, <3>6, <3>7, <3>8, <3>9, <3>11, Progress
  <2>8. Each(h)'
    BY <1>3, <2>7, EachStep
  <2>9. QED
    BY <1>1, <1>3, <2>1, <2>3, <2>4, <2>8, About
<1>9. ASSUME NEW sent, "btmToDisk" \in DOMAIN sent, sent["btmToDisk"] = <<write>>, NEW S,
             DOMAIN sent \subseteq {"btmToDisk", "btmToApp"}, <<"btmToDisk", "Write">> \in S,
             "btmToApp" \in DOMAIN sent => \/ sent["btmToApp"] = <<>>
                                           \/ /\ sent["btmToApp"] = << <<"Completed", h>> >>
                                              /\ <<"btmToApp", "Completed">> \in S
      PROVE  Says(sent, S, h, None)
  <2>1. PICK e : e = <<"Completed", h>>
    OBVIOUS
  <2>2. e \in EventsOf("btmToApp") /\ e[1] = "Completed" /\ e[2] = h
    BY <1>1, <2>1, Events
  <2>3. ASSUME NEW d \in DOMAIN sent
        PROVE  sent[d] = <<>> \/ \E x \in EventsOf(d) : sent[d] = <<x>> /\ <<d, x[1]>> \in S /\ x[2] = h
    BY <1>7, <1>9, <2>1, <2>2
  <2>4. QED
    BY <1>1, <1>9, <2>3 DEF Says
<1>10. CASE /\ missing = {} /\ UpdateTorrentCompleted(h)
            /\ Pushes([btmToDisk |-> <<write>>, btmToApp |-> CompletedOnce(h)])
  <2>1. PICK sent : sent = [btmToDisk |-> <<write>>, btmToApp |-> CompletedOnce(h)]
    OBVIOUS
  <2>2. /\ DOMAIN sent = {"btmToDisk", "btmToApp"} /\ sent["btmToApp"] = CompletedOnce(h)
        /\ sent["btmToDisk"] = <<write>> /\ Pushes(sent)
    BY <1>10, <2>1
  <2>3. /\ Known(h)' /\ IsComplete(h)' /\ ~Undone(h)' /\ DOMAIN torrents' = DOMAIN torrents
        /\ \A g : g # h => SameAt(torrents, torrents', g)
    BY <1>3, <1>10, Completes
  <2>4. PICK S : S = IF IsComplete(h) THEN {<<"btmToDisk", "Write">>}
                     ELSE {<<"btmToDisk", "Write">>, <<"btmToApp", "Completed">>}
    OBVIOUS
  <2>5. CASE IsComplete(h)
    <3>1. sent["btmToApp"] = <<>> /\ ~Undone(h)
      BY <2>2, <2>5 DEF CompletedOnce, IsComplete, Undone
    <3>2. /\ <<"btmToDisk", "Write">> \in S /\ <<"btmToApp", "Completed">> \notin S
          /\ S \subseteq {<<"btmToDisk", "Write">>, <<"btmToApp", "Completed">>}
      BY <2>4, <2>5
    <3>3. Says(sent, S, h, None)
      BY <1>9, <2>2, <3>1, <3>2
    <3>4. QED
      BY <1>8, <2>2, <2>3, <2>5, <3>1, <3>2, <3>3
  <2>6. CASE ~IsComplete(h)
    <3>1. sent["btmToApp"] = << <<"Completed", h>> >>
      BY <2>2, <2>6 DEF CompletedOnce
    <3>2. /\ <<"btmToDisk", "Write">> \in S /\ <<"btmToApp", "Completed">> \in S
          /\ S \subseteq {<<"btmToDisk", "Write">>, <<"btmToApp", "Completed">>}
      BY <2>4, <2>6
    <3>3. Says(sent, S, h, None)
      BY <1>9, <2>2, <3>1, <3>2
    <3>4. QED
      BY <1>8, <1>10, <2>2, <2>3, <3>1, <3>2, <3>3
  <2>7. QED
    BY <2>5, <2>6
<1>11. CASE Pushes([btmToDisk |-> <<write>>]) /\ UNCHANGED torrents
  <2>1. PICK sent : sent = [btmToDisk |-> <<write>>]
    OBVIOUS
  <2>2. DOMAIN sent = {"btmToDisk"} /\ sent["btmToDisk"] = <<write>> /\ Pushes(sent)
    BY <1>11, <2>1, Records
  <2>3. PICK S : S = {<<"btmToDisk", "Write">>}
    OBVIOUS
  <2>4. /\ <<"btmToDisk", "Write">> \in S /\ <<"btmToApp", "Completed">> \notin S
        /\ S \subseteq {<<"btmToDisk", "Write">>, <<"btmToApp", "Completed">>}
    BY <2>3
  <2>5. Says(sent, S, h, None)
    BY <1>9, <2>2, <2>4
  <2>6. (Undone(h)' <=> Undone(h)) /\ (IsComplete(h)' <=> IsComplete(h)) /\ \A g : SameAt(torrents, torrents', g)
    BY <1>11, SameAsIs DEF Undone, IsComplete
  <2>7. QED
    BY <1>8, <1>11, <2>2, <2>4, <2>5, <2>6
<1>12. QED
  BY <1>2, <1>6, <1>10, <1>11 DEF PieceFinished

-------------------------------------------------------------------------------
(* The disk and persist services. *)

(* A step that changes one torrent. *)
LEMMA Beside ==
  ASSUME Inv, Whole, NEW c, NEW sent, NEW k, NEW S, NEW h, Hop(c, sent, k, S, h), Global',
         history \subseteq history', \A g : g # h => SameBtm(g) /\ SameStored(g) /\ SameEntries(g),
         h \in Torrents => Each(h)'
  PROVE  Whole'
<1>1. \A g : g # h => Frame(NoKind, {}, g)
  BY Hopped
<1>2. ASSUME NEW g \in Torrents, g # h PROVE Each(g)'
  <2>1. Each(g) /\ SameBtm(g) /\ SameStored(g) /\ SameEntries(g) /\ Frame(NoKind, {}, g)
    BY <1>1, <1>2 DEF Whole
  <2>2. QED
    BY <2>1, EachKeeps
<1>3. \A g \in Torrents : Each(g)'
  BY <1>2
<1>4. QED
  BY <1>3 DEF Whole

(* The part of the state that is the app's and BitTorrentManager's. *)
LEMMA SameAppBtm ==
  ASSUME UNCHANGED <<appVars, btmVars>>
  PROVE  \A g : SameBtm(g) /\ SameEntries(g)
<1>1. \A g : SameEntries(g)
  BY EntriesSame
<1>2. \A g : SameBtm(g)
  BY SameAsIs DEF btmVars, SameBtm
<1>3. QED
  BY <1>1, <1>2

(* A torrent of which the app and BitTorrentManager have the same as       *)
(* before, with all that was stored.                                       *)
Calm(h) ==
    /\ Known(h)' <=> Known(h)
    /\ Undone(h)' <=> Undone(h)
    /\ IsComplete(h)' <=> IsComplete(h)
    /\ Active(h)' <=> Active(h)
    /\ Good(h) => Good(h)'
    /\ Have(h) \subseteq Have(h)'
    /\ h \in announced' <=> h \in announced
    /\ Shown(h)' = Shown(h)
    /\ ShownDone(h)' <=> ShownDone(h)
    /\ MapsTo(h)' <=> MapsTo(h)

(* So it is when neither of them changes. *)
LEMMA Calms ==
  ASSUME NEW h, UNCHANGED <<appVars, btmVars>>, Have(h) \subseteq Have(h)'
  PROVE  Calm(h)
<1>1. UNCHANGED <<torrents, pieceMan, announced, idTorrentMap, hashToIdMap>>
  BY DEF appVars, btmVars
<1>2. (Known(h)' <=> Known(h)) /\ (Undone(h)' <=> Undone(h)) /\ (IsComplete(h)' <=> IsComplete(h))
  BY <1>1 DEF Known, Undone, IsComplete
<1>3. (Active(h)' <=> Active(h)) /\ (Good(h) => Good(h)') /\ (h \in announced' <=> h \in announced)
  BY <1>1 DEF Active, Good
<1>4. Shown(h)' = Shown(h)
  BY <1>1 DEF Shown
<1>5. (ShownDone(h)' <=> ShownDone(h)) /\ (MapsTo(h)' <=> MapsTo(h))
  BY <1>1, <1>4 DEF ShownDone, MapsTo
<1>6. QED
  BY <1>2, <1>3, <1>4, <1>5 DEF Calm

(* What the display shows then agrees as before. *)
LEMMA CalmAgrees ==
  ASSUME NEW k, NEW S, NEW h, Agrees(h), Frame(k, S, h), Calm(h), UNCHANGED appVars,
         k[1] \notin {"appToBtm", "btmToApp"}, \A t \in Reports : <<"btmToApp", t>> \notin S
  PROVE  Agrees(h)'
<1>1. \A t : <<"btmToApp", t>>[1] = "btmToApp" /\ <<"appToBtm", t>>[1] = "appToBtm"
  OBVIOUS
<1>2. /\ <<"btmToApp", "Stopped">> # k /\ <<"btmToApp", "Completed">> # k /\ <<"btmToApp", "Resumed">> # k
      /\ <<"appToBtm", "Start">> # k
  BY <1>1
<1>3. QED
  BY <1>2, AgreesKeeps DEF Calm

(* DiskInit: the torrent is known from now on, and answered or noted. *)
LEMMA DiskInitKeeps ==
  ASSUME Inv, Whole, DiskInit
  PROVE  Whole'
<1>1. /\ "btmToDisk" \in Channels \ Loading /\ "diskToBtm" \in Channels \ (Loading \cup {"btmToDisk"})
      /\ "btmToDisk" # "appToPersist"
  BY Names
<1>2. Takes("disk", "btmToDisk", "Init")
  BY DEF DiskInit
<1>3. Event("btmToDisk") \in EventsOf("btmToDisk") /\ Event("btmToDisk")[1] = "Init"
  BY <1>1, <1>2, Taken
<1>4. PICK h \in Hashes : Event("btmToDisk") = <<"Init", h>>
  BY <1>3, Shapes
<1>5. Event("btmToDisk")[2] = h /\ Head(q["btmToDisk"]) = <<"Init", h>>
  BY <1>4 DEF Event
<1>6. /\ UNCHANGED <<active, appVars, onDisk, persistVars>> /\ history \subseteq history'
      /\ UNCHANGED <<appVars, btmVars>> /\ known' = known \cup {h}
  BY <1>5 DEF DiskInit, CreateFile, Note
<1>7. PICK k : k = <<"btmToDisk", "Init">>
  OBVIOUS
<1>8. PICK S : S = {<<"diskToBtm", "Initialized">>}
  OBVIOUS
<1>9. ASSUME NEW sent, Answers("btmToDisk", sent), Says(sent, S, h, "btmToDisk"),
             \/ "diskToBtm" \in DOMAIN sent /\ sent["diskToBtm"] = << <<"Initialized", h>> >>
             \/ <<"silent", h>> \in history'
      PROVE  Whole'
  <2>1. Hop("btmToDisk", sent, k, S, h)
    BY <1>1, <1>2, <1>5, <1>7, <1>9, HopTaken
  <2>2. Shift("btmToDisk", sent) /\ Frame(k, S, h)
    BY <2>1, Hopped DEF Hop
  <2>3. (\A g : SameBtm(g)) /\ Held'
    BY <1>6, SameAppBtm DEF btmVars, Whole, Global, Held
  <2>4. \A p \in Pieces : Storing(h, p)' => Storing(h, p)
    BY <1>8, <2>2 DEF Frame
  <2>5. ASSUME h \in Torrents, Sound(h) PROVE Sound(h)' /\ (Tidy(h) => Tidy(h)')
    <3>1. Have(h) \subseteq Have(h)' /\ onDisk[h] \subseteq onDisk'[h] /\ (h \in torrentIds' <=> h \in torrentIds)
      BY <1>6, <1>7, <2>2 DEF Frame, Have, persistVars
    <3>2. Calm(h)
      BY <1>6, <3>1, Calms
    <3>3. Way("btmToDisk", "Init", h)
      BY <1>1, <1>5, <2>2, WasThere
    <3>4. Way("diskToBtm", "Initialized", h)' \/ <<"silent", h>> \in history'
      BY <1>1, <1>9, <2>2, Arrives
    <3>5. Current(h)'
      BY <1>7, <1>8, <2>2, <2>5, <3>1, <3>2, <3>3 DEF Frame, WayFrame, AheadFrame, Sound, Current, Calm
    <3>6. Prepared(h)' /\ OnTheWay(h)'
      BY <1>6, <3>4 DEF Prepared, OnTheWay
    <3>7. Populated(h)'
      BY <1>7, <1>8, <2>2, <2>5, <3>1, <3>2 DEF Frame, WayFrame, AheadFrame, Sound, Populated, Tracked, Stale, Calm
    <3>8. Had(h)'
      BY <1>7, <1>8, <2>2, <2>5, <3>2 DEF Frame, WayFrame, Sound, Had, Calm
    <3>9. Registered(h) => Registered(h)'
      BY <1>7, <1>8, <2>2, <3>1, <3>2 DEF Frame, WayFrame, Registered, Calm
    <3>10. Agrees(h) => Agrees(h)'
      <4>1. k[1] \notin {"appToBtm", "btmToApp"} /\ \A t \in Reports : <<"btmToApp", t>> \notin S
        BY <1>7, <1>8
      <4>2. QED
        BY <1>6, <2>2, <3>2, <4>1, CalmAgrees
    <3>11. QED
      BY <3>2, <3>5, <3>6, <3>7, <3>8, <3>9, <3>10 DEF Sound, Tidy, Calm
  <2>6. h \in Torrents => Each(h)'
    BY <1>6, <2>5, EachStep
  <2>7. \A g : g # h => (g \in known' <=> g \in known)
    BY <1>6
  <2>8. QED
    BY <1>1, <1>6, <2>1, <2>3, <2>4, <2>6, <2>7, About
<1>10. CASE Answers("btmToDisk", [diskToBtm |-> << <<"Initialized", h>> >>])
  <2>1. PICK sent : sent = [diskToBtm |-> << <<"Initialized", h>> >>]
    OBVIOUS
  <2>2. DOMAIN sent = {"diskToBtm"} /\ sent["diskToBtm"] = << <<"Initialized", h>> >> /\ Answers("btmToDisk", sent)
    BY <1>10, <2>1, Records
  <2>3. /\ <<"Initialized", h>> \in EventsOf("diskToBtm") /\ <<"Initialized", h>>[1] = "Initialized"
        /\ <<"Initialized", h>>[2] = h
    BY Events
  <2>4. Says(sent, S, h, "btmToDisk")
    BY <1>1, <1>8, <2>2, <2>3, SaysOne
  <2>5. QED
    BY <1>9, <2>2, <2>4
<1>11. CASE Answers("btmToDisk", Nothing) /\ Note("silent", h)
  <2>1. PICK sent : sent = Nothing
    OBVIOUS
  <2>2. Says(sent, S, h, "btmToDisk")
    BY <2>1, SaysNothing
  <2>3. QED
    BY <1>9, <1>11, <2>1, <2>2 DEF Note
<1>12. QED
  BY <1>5, <1>10, <1>11 DEF DiskInit

(* PersistLoadPieces: a torrent whose pieces are asked for is stored. *)
LEMMA LoadPiecesKeep ==
  ASSUME Inv, Whole, PersistLoadPieces
  PROVE  Whole'
<1>1. /\ "btmToPersist" \in Channels \ Loading /\ "persistToBtm" \in Channels \ (Loading \cup {"btmToPersist"})
      /\ "btmToPersist" # "appToPersist"
  BY Names
<1>2. Takes("persist", "btmToPersist", "LoadPieces")
  BY DEF PersistLoadPieces
<1>3. Event("btmToPersist") \in EventsOf("btmToPersist") /\ Event("btmToPersist")[1] = "LoadPieces"
  BY <1>1, <1>2, Taken
<1>4. PICK h \in Hashes : Event("btmToPersist") = <<"LoadPieces", h>>
  BY <1>3, Shapes
<1>5. Event("btmToPersist")[2] = h /\ Head(q["btmToPersist"]) = <<"LoadPieces", h>>
  BY <1>4 DEF Event
<1>6. /\ UNCHANGED <<active, appVars, onDisk, persistVars>> /\ history \subseteq history'
      /\ UNCHANGED <<appVars, btmVars>> /\ UNCHANGED <<known, history>>
  BY DEF PersistLoadPieces
<1>7. PICK missing : missing = IF h \in torrentIds THEN Pieces \ db[h] ELSE {}
  OBVIOUS
<1>8. PICK e : e = <<"Pieces", h, missing>>
  OBVIOUS
<1>9. PICK sent : sent = [persistToBtm |-> <<e>>]
  OBVIOUS
<1>10. /\ Answers("btmToPersist", sent) /\ DOMAIN sent = {"persistToBtm"} /\ sent["persistToBtm"] = <<e>>
  BY <1>5, <1>7, <1>8, <1>9, Records DEF PersistLoadPieces
<1>11. missing \in SUBSET Pieces /\ e \in EventsOf("persistToBtm") /\ e[1] = "Pieces" /\ e[2] = h
  <2>1. missing \in SUBSET Pieces
    BY <1>7
  <2>2. QED
    BY <1>8, <2>1, Events
<1>12. PICK S : S = {<<"persistToBtm", "Pieces">>}
  OBVIOUS
<1>13. PICK k : k = <<"btmToPersist", "LoadPieces">>
  OBVIOUS
<1>14. Hop("btmToPersist", sent, k, S, h)
  <2>1. Says(sent, S, h, "btmToPersist")
    BY <1>1, <1>10, <1>11, <1>12, SaysOne
  <2>2. QED
    BY <1>1, <1>2, <1>5, <1>10, <1>13, <2>1, HopTaken
<1>15. Shift("btmToPersist", sent) /\ Frame(k, S, h)
  BY <1>14, Hopped DEF Hop
<1>16. (\A g : SameBtm(g)) /\ Held'
  BY <1>6, SameAppBtm DEF btmVars, Whole, Global, Held
<1>17. \A p \in Pieces : Storing(h, p)' => Storing(h, p)
  BY <1>12, <1>15 DEF Frame
<1>18. ASSUME h \in Torrents, Sound(h) PROVE Sound(h)' /\ (Tidy(h) => Tidy(h)')
  <2>1. /\ Have(h) \subseteq Have(h)' /\ onDisk[h] \subseteq onDisk'[h] /\ (h \in torrentIds' <=> h \in torrentIds)
        /\ h \in known' <=> h \in known
    BY <1>6, <1>13, <1>15 DEF Frame, Have, persistVars
  <2>2. Calm(h)
    BY <1>6, <2>1, Calms
  <2>3. Way("btmToPersist", "LoadPieces", h)
    BY <1>1, <1>5, <1>15, WasThere
  <2>4. \A x : /\ x \in Range(q'["persistToBtm"]) => x \in Range(q["persistToBtm"]) \/ x = e
               /\ e \in Range(q'["persistToBtm"])
    <3>1. Sent(sent, "persistToBtm") = <<e>> /\ \A x : x \in Range(<<e>>) <=> x = e
      BY <1>10, <1>11, Single DEF Sent
    <3>2. /\ \A x : x \in Range(q'["persistToBtm"]) => x \in Range(q["persistToBtm"]) \/ x \in Range(Sent(sent, "persistToBtm"))
          /\ \A x : x \in Range(Sent(sent, "persistToBtm")) => x \in Range(q'["persistToBtm"])
      BY <1>1, <1>15, Shifted DEF Inv, Typed
    <3>3. QED
      BY <3>1, <3>2
  <2>5. PiecesWay(h)'
    BY <1>8, <1>11, <2>4 DEF PiecesWay
  <2>6. Pieces \ missing \subseteq onDisk[h]
    <3>1. h \in torrentIds
      BY <1>18, <2>3 DEF Sound, Current
    <3>2. db[h] \subseteq onDisk[h]
      BY <1>18, <3>1 DEF Whole, Global, Backed
    <3>3. QED
      BY <1>7, <3>1, <3>2
  <2>7. Covered(h)'
    <3>1. SUFFICES ASSUME NEW M \in SUBSET Pieces, <<"Pieces", h, M>> \in Range(q'["persistToBtm"])
                   PROVE  Pieces \ M \subseteq onDisk'[h]
      BY DEF Covered
    <3>2. CASE <<"Pieces", h, M>> \in Range(q["persistToBtm"])
      BY <1>6, <1>18, <3>2 DEF Sound, Populated, Covered
    <3>3. CASE <<"Pieces", h, M>> = e
      <4>1. M = missing
        BY <1>8, <3>3
      <4>2. QED
        BY <1>6, <2>6, <4>1
    <3>4. QED
      BY <2>4, <3>1, <3>2, <3>3
  <2>8. Current(h)'
    BY <1>12, <1>13, <1>15, <1>18, <2>1, <2>2 DEF Frame, WayFrame, AheadFrame, Sound, Current, Calm
  <2>9. Prepared(h)'
    BY <1>12, <1>13, <1>15, <1>18, <2>1, <2>2, <2>3 DEF Frame, WayFrame, Sound, Prepared, Calm
  <2>10. Populated(h)'
    BY <1>12, <1>13, <1>15, <1>18, <2>1, <2>2, <2>7 DEF Frame, WayFrame, AheadFrame, Sound, Populated, Tracked, Stale, Calm
  <2>11. Had(h)'
    BY <1>12, <1>13, <1>15, <1>18, <2>2 DEF Frame, WayFrame, Sound, Had, Calm
  <2>12. OnTheWay(h)'
    BY <2>5 DEF OnTheWay
  <2>13. Registered(h) => Registered(h)'
    BY <1>12, <1>13, <1>15, <2>1, <2>2 DEF Frame, WayFrame, Registered, Calm
  <2>14. Agrees(h) => Agrees(h)'
    <3>1. k[1] \notin {"appToBtm", "btmToApp"} /\ \A t \in Reports : <<"btmToApp", t>> \notin S
      BY <1>12, <1>13
    <3>2. QED
      BY <1>6, <1>15, <2>2, <3>1, CalmAgrees
  <2>15. QED
    BY <2>2, <2>8, <2>9, <2>10, <2>11, <2>12, <2>13, <2>14 DEF Sound, Tidy, Calm
<1>19. h \in Torrents => Each(h)'
  BY <1>6, <1>18, EachStep
<1>20. QED
  BY <1>1, <1>6, <1>14, <1>16, <1>17, <1>19, About

(* PersistLoadTrackers: an answer for a torrent that was removed comes     *)
(* before the answer to its addition.                                      *)
LEMMA LoadTrackersKeep ==
  ASSUME Inv, Whole, PersistLoadTrackers
  PROVE  Whole'
<1>1. /\ "btmToPersist" \in Channels \ Loading /\ "persistToBtm" \in Channels \ (Loading \cup {"btmToPersist"})
      /\ "btmToPersist" # "appToPersist"
  BY Names
<1>2. Takes("persist", "btmToPersist", "LoadTrackers")
  BY DEF PersistLoadTrackers
<1>3. Event("btmToPersist") \in EventsOf("btmToPersist") /\ Event("btmToPersist")[1] = "LoadTrackers"
  BY <1>1, <1>2, Taken
<1>4. PICK h \in Hashes : Event("btmToPersist") = <<"LoadTrackers", h>>
  BY <1>3, Shapes
<1>5. Event("btmToPersist")[2] = h /\ Head(q["btmToPersist"]) = <<"LoadTrackers", h>>
  BY <1>4 DEF Event
<1>6. /\ UNCHANGED <<active, appVars, onDisk, persistVars>> /\ history \subseteq history'
      /\ UNCHANGED <<appVars, btmVars>> /\ UNCHANGED <<known, history>>
  BY DEF PersistLoadTrackers
<1>7. PICK e : e = <<"Trackers", h>>
  OBVIOUS
<1>8. PICK sent : sent = [persistToBtm |-> <<e>>]
  OBVIOUS
<1>9. /\ Answers("btmToPersist", sent) /\ DOMAIN sent = {"persistToBtm"} /\ sent["persistToBtm"] = <<e>>
  BY <1>5, <1>7, <1>8, Records DEF PersistLoadTrackers
<1>10. e \in EventsOf("persistToBtm") /\ e[1] = "Trackers" /\ e[2] = h
  BY <1>7, Events
<1>11. PICK S : S = {<<"persistToBtm", "Trackers">>}
  OBVIOUS
<1>12. PICK k : k = <<"btmToPersist", "LoadTrackers">>
  OBVIOUS
<1>13. Hop("btmToPersist", sent, k, S, h)
  <2>1. Says(sent, S, h, "btmToPersist")
    BY <1>1, <1>9, <1>10, <1>11, SaysOne
  <2>2. QED
    BY <1>1, <1>2, <1>5, <1>9, <1>12, <2>1, HopTaken
<1>14. Shift("btmToPersist", sent) /\ Frame(k, S, h)
  BY <1>13, Hopped DEF Hop
<1>15. (\A g : SameBtm(g)) /\ Held'
  BY <1>6, SameAppBtm DEF btmVars, Whole, Global, Held
<1>16. \A p \in Pieces : Storing(h, p)' => Storing(h, p)
  BY <1>11, <1>14 DEF Frame
<1>17. ASSUME h \in Torrents, Sound(h) PROVE Sound(h)' /\ (Tidy(h) => Tidy(h)')
  <2>1. /\ Have(h) \subseteq Have(h)' /\ onDisk[h] \subseteq onDisk'[h] /\ (h \in torrentIds' <=> h \in torrentIds)
        /\ h \in known' <=> h \in known
    BY <1>6, <1>12, <1>14 DEF Frame, Have, persistVars
  <2>2. Calm(h)
    BY <1>6, <2>1, Calms
  <2>3. Way("btmToPersist", "LoadTrackers", h)
    BY <1>1, <1>5, <1>14, WasThere
  <2>4. Way("persistToBtm", "Trackers", h)'
    BY <1>1, <1>7, <1>9, <1>14, Arrives
  <2>5. Stale(h) => Stale(h)'
    <3>1. ASSUME Stale(h) PROVE Ahead("persistToBtm", "Trackers", "Added", h)'
      <4>1. ~Way("persistToBtm", "Added", h) /\ Ahead("persistToBtm", "Trackers", "Added", h)
        BY <2>3, <3>1 DEF Stale
      <4>2. <<"Added", h>> \notin Range(Sent(sent, "persistToBtm"))
        <5>1. Sent(sent, "persistToBtm") = <<e>> /\ \A x : x \in Range(<<e>>) <=> x = e
          BY <1>9, <1>10, Single DEF Sent
        <5>2. QED
          BY <1>7, <5>1
      <4>3. QED
        BY <1>1, <1>14, <4>1, <4>2, AheadStays DEF Inv, Typed
    <3>2. QED
      BY <1>11, <1>12, <1>14, <2>1, <2>2, <3>1 DEF Frame, WayFrame, AheadFrame, Stale, Calm
  <2>6. Current(h)'
    BY <1>11, <1>12, <1>14, <1>17, <2>1, <2>2 DEF Frame, WayFrame, AheadFrame, Sound, Current, Calm
  <2>7. Prepared(h)'
    BY <1>11, <1>12, <1>14, <1>17, <2>1, <2>2 DEF Frame, WayFrame, Sound, Prepared, Calm
  <2>8. Populated(h)'
    <3>1. Good(h) \/ Stale(h)
      BY <1>17, <2>3 DEF Sound, Populated, Tracked
    <3>2. QED
      BY <1>11, <1>12, <1>14, <1>17, <2>1, <2>2, <2>5, <3>1 DEF Frame, Sound, Populated, Calm
  <2>9. Had(h)'
    BY <1>11, <1>12, <1>14, <1>17, <2>2 DEF Frame, WayFrame, Sound, Had, Calm
  <2>10. OnTheWay(h)'
    BY <2>4 DEF OnTheWay, Tracked
  <2>11. Registered(h) => Registered(h)'
    BY <1>11, <1>12, <1>14, <2>1, <2>2 DEF Frame, WayFrame, Registered, Calm
  <2>12. Agrees(h) => Agrees(h)'
    <3>1. k[1] \notin {"appToBtm", "btmToApp"} /\ \A t \in Reports : <<"btmToApp", t>> \notin S
      BY <1>11, <1>12
    <3>2. QED
      BY <1>6, <1>14, <2>2, <3>1, CalmAgrees
  <2>13. QED
    BY <2>2, <2>6, <2>7, <2>8, <2>9, <2>10, <2>11, <2>12 DEF Sound, Tidy, Calm
<1>18. h \in Torrents => Each(h)'
  BY <1>6, <1>17, EachStep
<1>19. QED
  BY <1>1, <1>6, <1>13, <1>15, <1>16, <1>18, About

(* PersistPiece: the piece is on disk. *)
LEMMA PieceCompleteKeeps ==
  ASSUME Inv, Whole, PersistPiece
  PROVE  Whole'
<1>1. "btmToPersist" \in Channels \ Loading /\ "btmToPersist" # "appToPersist" /\ "appToPersist" \in Channels
  BY Names DEF Channels
<1>2. Takes("persist", "btmToPersist", "PieceComplete")
  BY DEF PersistPiece
<1>3. /\ Event("btmToPersist") \in EventsOf("btmToPersist") /\ Event("btmToPersist")[1] = "PieceComplete"
      /\ q["btmToPersist"] # <<>> /\ Event("btmToPersist") = Head(q["btmToPersist"])
  BY <1>1, <1>2, Taken
<1>4. PICK h \in Hashes, p \in Pieces : Event("btmToPersist") = <<"PieceComplete", h, p>>
  BY <1>3, Shapes
<1>5. Event("btmToPersist")[2] = h /\ Event("btmToPersist")[3] = p
  BY <1>4
<1>6. /\ UNCHANGED <<appVars, btmVars>> /\ UNCHANGED <<active, onDisk, known, torrentIds, history>>
      /\ db' = IF h \in torrentIds THEN [db EXCEPT ![h] = @ \cup {p}] ELSE db
      /\ Answers("btmToPersist", Nothing)
  BY <1>5 DEF PersistPiece
<1>7. PICK sent : sent = Nothing
  OBVIOUS
<1>8. Hop("btmToPersist", sent, <<"btmToPersist", "PieceComplete">>, {}, h)
  BY <1>1, <1>2, <1>5, <1>6, <1>7, SaysNothing, HopTaken
<1>9. Shift("btmToPersist", sent) /\ \A g : Frame(NoKind, {}, g)
  <2>1. Frame(NoKind, {}, h)
    BY <1>8, Hopped, NoDifference
  <2>2. \A g : g # h => Frame(NoKind, {}, g)
    BY <1>8, Hopped
  <2>3. QED
    BY <1>8, <2>1, <2>2 DEF Hop
<1>10. \A g : SameBtm(g) /\ SameStored(g) /\ SameEntries(g)
  BY <1>6, SameAppBtm DEF SameStored
<1>11. \A g \in Torrents : Each(g)'
  BY <1>6, <1>9, <1>10, EachKeeps DEF Whole
<1>12. Storing(h, p)
  <2>1. q["btmToPersist"] \in Seq(EventsOf("btmToPersist"))
    BY <1>1 DEF Inv, Typed, QueuesTyped
  <2>2. <<"PieceComplete", h, p>> \in Range(q["btmToPersist"])
    BY <1>3, <1>4, <2>1, Taking
  <2>3. QED
    BY <2>2 DEF Storing
<1>13. Backed'
  <2>1. DOMAIN db' = DOMAIN db
    BY <1>6
  <2>2. ASSUME NEW g \in Torrents, g \in DOMAIN db PROVE db'[g] \subseteq onDisk[g]
    <3>1. db'[g] \subseteq db[g] \cup {p} /\ (g # h => db'[g] = db[g])
      BY <1>6, <2>2
    <3>2. db[g] \subseteq onDisk[g] /\ (g = h => p \in onDisk[g])
      BY <1>12, <2>2 DEF Whole, Global, Backed
    <3>3. QED
      BY <3>1, <3>2
  <2>3. \A g \in Torrents, x \in Pieces : Storing(g, x)' => Storing(g, x)
    BY <1>9 DEF Frame
  <2>4. QED
    BY <1>6, <2>1, <2>2, <2>3 DEF Whole, Global, Backed
<1>14. Loaded'
  <2>1. q'["appToPersist"] = q["appToPersist"] /\ DOMAIN db' = DOMAIN db
    BY <1>6, <1>9 DEF Frame, NoKind
  <2>2. QED
    BY <1>6, <2>1 DEF Whole, Global, Loaded
<1>15. Mapped' /\ Held'
  BY <1>6, EntriesSame DEF btmVars, Whole, Global, Held
<1>16. QED
  BY <1>11, <1>13, <1>14, <1>15 DEF Whole, Global

(* DiskWrite: the torrent of the piece is known, and the piece is on disk  *)
(* when it is no longer in the queue.                                      *)
LEMMA DiskWriteKeeps ==
  ASSUME Inv, Whole, DiskWrite
  PROVE  Whole'
<1>1. /\ "btmToDisk" \in Channels \ Loading /\ "diskToBtm" \in Channels \ (Loading \cup {"btmToDisk"})
      /\ "btmToDisk" # "appToPersist" /\ "btmToPersist" \in Channels
  BY Names
<1>2. Takes("disk", "btmToDisk", "Write")
  BY DEF DiskWrite
<1>3. /\ Event("btmToDisk") \in EventsOf("btmToDisk") /\ Event("btmToDisk")[1] = "Write"
      /\ q["btmToDisk"] # <<>> /\ Event("btmToDisk") = Head(q["btmToDisk"])
  BY <1>1, <1>2, Taken
<1>4. PICK h \in Hashes, p \in Pieces : Event("btmToDisk") = <<"Write", h, p>>
  BY <1>3, Shapes
<1>5. Event("btmToDisk")[2] = h /\ Event("btmToDisk")[3] = p /\ Head(q["btmToDisk"]) = <<"Write", h, p>>
  BY <1>3, <1>4
<1>6. UNCHANGED <<appVars, btmVars>> /\ UNCHANGED <<active, known, persistVars, history>>
  BY DEF DiskWrite
<1>7. PICK e : e = <<"WriteSuccess", h, p>>
  OBVIOUS
<1>8. PICK k : k = <<"btmToDisk", "Write">>
  OBVIOUS
<1>9. PICK S : S = {<<"diskToBtm", "WriteSuccess">>}
  OBVIOUS
<1>10. ASSUME NEW sent, Answers("btmToDisk", sent), Says(sent, S, h, "btmToDisk"),
              \A x : x \in Range(Sent(sent, "diskToBtm")) => x = e /\ h \in known,
              onDisk' \in [Torrents -> SUBSET Pieces],
              \A g \in Torrents : onDisk[g] \subseteq onDisk'[g] /\ (g # h => onDisk'[g] = onDisk[g]),
              h \in Torrents /\ h \in known => p \in onDisk'[h]
       PROVE  Whole'
  <2>1. Hop("btmToDisk", sent, k, S, h)
    BY <1>1, <1>2, <1>5, <1>8, <1>10, HopTaken
  <2>2. Shift("btmToDisk", sent) /\ Frame(k, S, h) /\ \A g : g # h => Frame(NoKind, {}, g)
    BY <2>1, Hopped DEF Hop
  <2>3. ASSUME h \in Torrents, Sound(h) PROVE Sound(h)' /\ (Tidy(h) => Tidy(h)')
    <3>1. h \in known
      <4>1. SUFFICES ASSUME Prefixed(h) PROVE FALSE
        BY <2>3 DEF Sound, Prepared
      <4>2. q["btmToDisk"] \in Seq(EventsOf("btmToDisk"))
        BY <1>1 DEF Inv, Typed, QueuesTyped
      <4>3. SomeBefore(q["btmToDisk"], <<"Write", h, p>>, <<"Init", h>>)
        BY <4>1 DEF Prefixed
      <4>4. QED
        BY <1>3, <1>5, <4>2, <4>3, SomeTake
    <3>2. Have(h) \subseteq Have(h)'
      <4>1. \A x : x \in Range(q["btmToDisk"]) => x \in Range(q'["btmToDisk"]) \/ x = <<"Write", h, p>>
        BY <1>1, <1>5, <2>2, Shifted DEF Inv, Typed
      <4>2. ASSUME NEW x \in Writing(h) PROVE x \in Writing(h)' \/ x = p
        <5>1. x \in Pieces /\ <<"Write", h, x>> \in Range(q["btmToDisk"])
          BY <4>2 DEF Writing
        <5>2. <<"Write", h, x>> \in Range(q'["btmToDisk"]) \/ <<"Write", h, x>> = <<"Write", h, p>>
          BY <4>1, <5>1
        <5>3. QED
          BY <5>1, <5>2 DEF Writing
      <4>3. onDisk[h] \subseteq onDisk'[h] /\ p \in onDisk'[h]
        BY <1>10, <2>3, <3>1
      <4>4. QED
        BY <4>2, <4>3 DEF Have
    <3>3. Calm(h)
      BY <1>6, <3>2, Calms
    <3>4. /\ onDisk[h] \subseteq onDisk'[h] /\ (h \in torrentIds' <=> h \in torrentIds)
          /\ h \in known' <=> h \in known
      BY <1>6, <1>10, <2>3 DEF persistVars
    <3>5. Current(h)'
      BY <1>8, <1>9, <2>2, <2>3, <3>3, <3>4 DEF Frame, WayFrame, AheadFrame, Sound, Current, Calm
    <3>6. Prepared(h)'
      BY <3>1, <3>4 DEF Prepared
    <3>7. Populated(h)'
      BY <1>8, <1>9, <2>2, <2>3, <3>3, <3>4 DEF Frame, WayFrame, AheadFrame, Sound, Populated, Tracked, Stale, Calm
    <3>8. Had(h)'
      BY <1>8, <1>9, <2>2, <2>3, <3>3 DEF Frame, WayFrame, Sound, Had, Calm
    <3>9. OnTheWay(h)'
      BY <1>6, <1>8, <1>9, <2>2, <2>3, <3>3 DEF Frame, WayFrame, Sound, OnTheWay, Tracked, Calm
    <3>10. Registered(h) => Registered(h)'
      BY <1>8, <1>9, <2>2, <3>3, <3>4 DEF Frame, WayFrame, Registered, Calm
    <3>11. Agrees(h) => Agrees(h)'
      <4>1. k[1] \notin {"appToBtm", "btmToApp"} /\ \A t \in Reports : <<"btmToApp", t>> \notin S
        BY <1>8, <1>9
      <4>2. QED
        BY <1>6, <2>2, <3>3, <4>1, CalmAgrees
    <3>12. QED
      BY <3>3, <3>5, <3>6, <3>7, <3>8, <3>9, <3>10, <3>11 DEF Sound, Tidy, Calm
  <2>4. h \in Torrents => Each(h)'
    BY <1>6, <2>3, EachStep
  <2>5. ASSUME NEW g \in Torrents, NEW x \in Pieces, Storing(g, x)' PROVE x \in onDisk'[g]
    <3>1. CASE Storing(g, x)
      BY <1>10, <2>5, <3>1 DEF Whole, Global, Backed
    <3>2. CASE ~Storing(g, x)
      <4>1. \A y : y \in Range(q'["btmToPersist"]) => y \in Range(q["btmToPersist"])
        <5>1. Sent(sent, "btmToPersist") = <<>> /\ "btmToPersist" # "btmToDisk"
          <6>1. "btmToPersist" \notin DOMAIN sent \/ sent["btmToPersist"] = <<>>
            BY <1>9, <1>10 DEF Says
          <6>2. QED
            BY <6>1 DEF Sent
        <5>2. q'["btmToPersist"] = q["btmToPersist"]
          BY <1>1, <2>2, <5>1, Untouched DEF Inv, Typed, Shift
        <5>3. QED
          BY <5>2
      <4>2. \A y : y \in Range(q'["diskToBtm"]) => y \in Range(q["diskToBtm"]) \/ (y = e /\ h \in known)
        BY <1>1, <1>10, <2>2, Shifted DEF Inv, Typed
      <4>3. <<"WriteSuccess", g, x>> = e /\ h \in known
        BY <2>5, <3>2, <4>1, <4>2 DEF Storing
      <4>4. g = h /\ x = p
        BY <1>7, <4>3
      <4>5. QED
        BY <1>10, <4>3, <4>4
    <3>3. QED
      BY <3>1, <3>2
  <2>6. Backed'
    <3>1. \A g \in Torrents : g \in DOMAIN db => db[g] \subseteq onDisk'[g]
      BY <1>10 DEF Whole, Global, Backed
    <3>2. QED
      BY <1>6, <1>10, <2>5, <3>1 DEF Whole, Global, Backed, persistVars
  <2>7. Loaded'
    <3>1. q'["appToPersist"] = q["appToPersist"]
      BY <1>8, <2>2 DEF Frame
    <3>2. QED
      BY <1>6, <3>1 DEF Whole, Global, Loaded, persistVars
  <2>8. Mapped' /\ Held'
    BY <1>6, EntriesSame DEF btmVars, Whole, Global, Held
  <2>9. ASSUME NEW g \in Torrents, g # h PROVE Each(g)'
    <3>1. SameBtm(g) /\ SameEntries(g)
      BY <1>6, SameAppBtm
    <3>2. SameStored(g)
      BY <1>6, <1>10, <2>9 DEF SameStored, persistVars
    <3>3. QED
      BY <1>6, <2>2, <2>9, <3>1, <3>2, EachKeeps DEF Whole
  <2>10. QED
    BY <2>4, <2>6, <2>7, <2>8, <2>9 DEF Whole, Global
<1>11. onDisk \in [Torrents -> SUBSET Pieces]
  BY DEF Whole, Global, Backed
<1>12. CASE h \in known /\ onDisk' = [onDisk EXCEPT ![h] = @ \cup {p}] /\ Answers("btmToDisk", [diskToBtm |-> <<e>>])
  <2>1. PICK sent : sent = [diskToBtm |-> <<e>>]
    OBVIOUS
  <2>2. DOMAIN sent = {"diskToBtm"} /\ sent["diskToBtm"] = <<e>> /\ Answers("btmToDisk", sent)
    BY <1>12, <2>1, Records
  <2>3. e \in EventsOf("diskToBtm") /\ e[1] = "WriteSuccess" /\ e[2] = h
    BY <1>7, Events
  <2>4. Says(sent, S, h, "btmToDisk")
    BY <1>1, <1>9, <2>2, <2>3, SaysOne
  <2>5. \A x : x \in Range(Sent(sent, "diskToBtm")) => x = e /\ h \in known
    <3>1. Sent(sent, "diskToBtm") = <<e>> /\ \A x : x \in Range(<<e>>) <=> x = e
      BY <2>2, <2>3, Single DEF Sent
    <3>2. QED
      BY <1>12, <3>1
  <2>6. /\ onDisk' \in [Torrents -> SUBSET Pieces]
        /\ \A g \in Torrents : onDisk[g] \subseteq onDisk'[g] /\ (g # h => onDisk'[g] = onDisk[g])
        /\ h \in Torrents => p \in onDisk'[h]
    BY <1>11, <1>12
  <2>7. QED
    BY <1>10, <2>2, <2>4, <2>5, <2>6
<1>13. CASE h \notin known /\ Answers("btmToDisk", Nothing) /\ UNCHANGED onDisk
  <2>1. PICK sent : sent = Nothing
    OBVIOUS
  <2>2. Says(sent, S, h, "btmToDisk") /\ Answers("btmToDisk", sent)
    BY <1>13, <2>1, SaysNothing
  <2>3. \A x : x \notin Range(Sent(sent, "diskToBtm"))
    BY <2>1, Records DEF Sent, Range
  <2>4. QED
    BY <1>10, <1>11, <1>13, <2>2, <2>3
<1>14. QED
  BY <1>5, <1>7, <1>12, <1>13 DEF DiskWrite

(* PersistRemove: nothing that needs the torrent is on its way. *)
LEMMA PersistRemoveKeeps ==
  ASSUME Inv, Whole, PersistRemove
  PROVE  Whole'
<1>1. "btmToPersist" \in Channels \ Loading
  BY Names
<1>2. Takes("persist", "btmToPersist", "Remove")
  BY DEF PersistRemove
<1>3. Event("btmToPersist") \in EventsOf("btmToPersist") /\ Event("btmToPersist")[1] = "Remove"
  BY <1>1, <1>2, Taken
<1>4. PICK h \in Hashes : Event("btmToPersist") = <<"Remove", h>>
  BY <1>3, Shapes
<1>5. Event("btmToPersist")[2] = h /\ Head(q["btmToPersist"]) = <<"Remove", h>>
  BY <1>4 DEF Event
<1>6. /\ UNCHANGED <<appVars, btmVars>> /\ UNCHANGED <<active, known, onDisk, history>>
      /\ db' = IF h \in torrentIds THEN Without(db, h) ELSE db
      /\ torrentIds' = torrentIds \ {h} /\ Answers("btmToPersist", Nothing)
  BY <1>5 DEF PersistRemove
<1>7. PICK sent : sent = Nothing
  OBVIOUS
<1>8. PICK k : k = <<"btmToPersist", "Remove">>
  OBVIOUS
<1>9. Hop("btmToPersist", sent, k, {}, h)
  BY <1>1, <1>2, <1>5, <1>6, <1>7, <1>8, SaysNothing, HopTaken
<1>10. Shift("btmToPersist", sent) /\ Frame(k, {}, h) /\ \A g : g # h => Frame(NoKind, {}, g)
  BY <1>9, Hopped DEF Hop
<1>11. ASSUME h \in Torrents, Sound(h), OneLife(h) PROVE Sound(h)' /\ (Tidy(h) => Tidy(h)')
  <2>1. Have(h) \subseteq Have(h)' /\ onDisk[h] \subseteq onDisk'[h] /\ (h \in known' <=> h \in known)
    BY <1>6, <1>8, <1>10 DEF Frame, Have
  <2>2. Calm(h)
    BY <1>6, <2>1, Calms
  <2>3. Way("btmToPersist", "Remove", h)
    BY <1>1, <1>5, <1>10, WasThere
  <2>4. Shown(h) = {}
    BY <1>11, <2>3, Exclusive
  <2>5. /\ ~Way("appToBtm", "Start", h) /\ ~Undone(h) /\ ~Way("btmToDisk", "Init", h)
        /\ ~Way("diskToBtm", "Initialized", h)
    BY <1>11, <2>3 DEF Sound, Current
  <2>6. ~Way("btmToPersist", "LoadPieces", h)'
    BY <1>1, <1>5, <1>10, <1>11, NoneLeft DEF Sound, Current
  <2>7. Current(h)'
    BY <1>8, <1>10, <1>11, <2>2, <2>5, <2>6 DEF Frame, WayFrame, AheadFrame, Sound, Current, Calm
  <2>8. Prepared(h)'
    BY <1>8, <1>10, <1>11, <2>1, <2>2 DEF Frame, WayFrame, Sound, Prepared, Calm
  <2>9. Populated(h)'
    <3>1. Tracked(h)' => Tracked(h)
      BY <1>8, <1>10 DEF Frame, WayFrame, Tracked
    <3>2. Stale(h) => ~Way("btmToPersist", "LoadTrackers", h)'
      BY <1>1, <1>5, <1>10, NoneLeft DEF Stale
    <3>3. Stale(h) => Stale(h)'
      BY <1>8, <1>10, <2>2, <3>2 DEF Frame, WayFrame, AheadFrame, Stale, Calm
    <3>4. QED
      BY <1>8, <1>10, <1>11, <2>1, <2>2, <3>1, <3>3 DEF Frame, Sound, Populated, Calm
  <2>10. Had(h)'
    BY <1>8, <1>10, <1>11, <2>2 DEF Frame, WayFrame, Sound, Had, Calm
  <2>11. OnTheWay(h)' /\ Registered(h)' /\ Agrees(h)'
    BY <1>6, <2>2, <2>4, <2>5 DEF OnTheWay, Registered, Agrees, Calm
  <2>12. QED
    BY <2>2, <2>7, <2>8, <2>9, <2>10, <2>11 DEF Sound, Tidy, Calm
<1>12. h \in Torrents => Each(h)'
  BY <1>6, <1>11, EachStep
<1>13. DOMAIN db' = (IF h \in torrentIds THEN DOMAIN db \ {h} ELSE DOMAIN db) /\ \A g \in DOMAIN db' : db'[g] = db[g]
  BY <1>6 DEF Without
<1>14. Backed'
  <2>1. \A g \in Torrents, x \in Pieces : Storing(g, x)' => Storing(g, x)
    <3>1. \A x \in Pieces : Storing(h, x)' => Storing(h, x)
      BY <1>10 DEF Frame
    <3>2. \A g : g # h => \A x \in Pieces : Storing(g, x)' => Storing(g, x)
      BY <1>10 DEF Frame
    <3>3. QED
      BY <3>1, <3>2
  <2>2. torrentIds' \subseteq DOMAIN db' /\ \A g \in Torrents : g \in DOMAIN db' => db'[g] \subseteq onDisk[g]
    BY <1>6, <1>13 DEF Whole, Global, Backed
  <2>3. QED
    BY <1>6, <2>1, <2>2 DEF Whole, Global, Backed
<1>15. Loaded'
  <2>1. q'["appToPersist"] = q["appToPersist"]
    BY <1>8, <1>10 DEF Frame
  <2>2. QED
    BY <1>6, <1>13, <2>1 DEF Whole, Global, Loaded
<1>16. Global'
  BY <1>6, <1>14, <1>15, EntriesSame DEF btmVars, Whole, Global, Held
<1>17. \A g : g # h => SameBtm(g) /\ SameStored(g) /\ SameEntries(g)
  BY <1>6, SameAppBtm DEF SameStored
<1>18. QED
  BY <1>6, <1>9, <1>12, <1>16, <1>17, Beside

(* PersistAdd of a torrent that is not stored: no request of it is left    *)
(* that the answer could overtake.                                         *)
LEMMA PersistAddKeeps ==
  ASSUME Inv, Whole, PersistAdd, Event("btmToPersist")[2] \notin torrentIds
  PROVE  Whole'
<1>1. "btmToPersist" \in Channels \ Loading /\ "persistToBtm" \in Channels \ (Loading \cup {"btmToPersist"})
  BY Names
<1>2. Takes("persist", "btmToPersist", "AddTorrent")
  BY DEF PersistAdd
<1>3. Event("btmToPersist") \in EventsOf("btmToPersist") /\ Event("btmToPersist")[1] = "AddTorrent"
  BY <1>1, <1>2, Taken
<1>4. PICK h \in Hashes : Event("btmToPersist") = <<"AddTorrent", h>>
  BY <1>3, Shapes
<1>5. Event("btmToPersist")[2] = h
  BY <1>4
<1>6. PICK sent : sent = [persistToBtm |-> << <<"Added", h>> >>]
  OBVIOUS
<1>7. /\ UNCHANGED <<appVars, btmVars>> /\ UNCHANGED <<active, known, onDisk>>
      /\ h \notin torrentIds /\ db' = With(db, h, {}) /\ torrentIds' = torrentIds \cup {h}
      /\ Answers("btmToPersist", sent)
      /\ IF q["appToPersist"] # <<>> THEN Note("early", h) ELSE UNCHANGED history
  BY <1>5, <1>6 DEF PersistAdd
<1>8. history \subseteq history' /\ (~Spoilt(h)' => q["appToPersist"] = <<>>)
  BY <1>7 DEF Note, Spoilt, Unexpected
<1>9. PICK k : k = <<"btmToPersist", "AddTorrent">>
  OBVIOUS
<1>10. PICK S : S = {<<"persistToBtm", "Added">>}
  OBVIOUS
<1>11. DOMAIN sent = {"persistToBtm"} /\ sent["persistToBtm"] = << <<"Added", h>> >>
  BY <1>6, Records
<1>12. Hop("btmToPersist", sent, k, S, h)
  <2>1. <<"Added", h>> \in EventsOf("persistToBtm") /\ <<"Added", h>>[1] = "Added" /\ <<"Added", h>>[2] = h
    BY Made
  <2>2. Says(sent, S, h, "btmToPersist")
    BY <1>1, <1>10, <1>11, <2>1, SaysOne
  <2>3. QED
    BY <1>1, <1>2, <1>5, <1>7, <1>9, <2>2, HopTaken
<1>13. Shift("btmToPersist", sent) /\ Frame(k, S, h) /\ \A g : g # h => Frame(NoKind, {}, g)
  BY <1>12, Hopped DEF Hop
<1>14. ASSUME h \in Torrents, ~Spoilt(h)', Sound(h), OneLife(h) PROVE Sound(h)' /\ (Tidy(h) => Tidy(h)')
  <2>1. Have(h) \subseteq Have(h)' /\ onDisk[h] \subseteq onDisk'[h] /\ (h \in known' <=> h \in known) /\ h \in torrentIds'
    BY <1>7, <1>9, <1>13 DEF Frame, Have
  <2>2. Calm(h)
    BY <1>7, <2>1, Calms
  <2>3. ~Way("btmToPersist", "Remove", h)
    BY <1>7, <1>14, Exclusive
  <2>4. Way("persistToBtm", "Added", h)'
    BY <1>1, <1>11, <1>13, Arrives
  <2>5. Current(h)'
    BY <1>9, <1>10, <1>13, <1>14, <2>1, <2>3 DEF Frame, WayFrame, AheadFrame, Sound, Current
  <2>6. Prepared(h)'
    BY <1>9, <1>10, <1>13, <1>14, <2>1, <2>2 DEF Frame, WayFrame, Sound, Prepared, Calm
  <2>7. Populated(h)'
    <3>1. Tracked(h)' => Tracked(h)
      BY <1>9, <1>10, <1>13 DEF Frame, WayFrame, Tracked
    <3>2. Stale(h) => ~Way("btmToPersist", "LoadTrackers", h)
      BY <1>7 DEF Stale
    <3>3. Stale(h) => Stale(h)'
      BY <1>9, <1>10, <1>13, <2>2, <3>2 DEF Frame, WayFrame, AheadFrame, Stale, Calm
    <3>4. QED
      BY <1>9, <1>10, <1>13, <1>14, <2>1, <2>2, <3>1, <3>3 DEF Frame, Sound, Populated, Calm
  <2>8. Had(h)'
    BY <1>9, <1>10, <1>13, <1>14, <2>2 DEF Frame, WayFrame, Sound, Had, Calm
  <2>9. OnTheWay(h)'
    BY <1>8, <1>9, <1>10, <1>13, <1>14, <2>2 DEF Frame, WayFrame, Sound, OnTheWay, Tracked, Calm
  <2>10. Registered(h)'
    BY <2>4 DEF Registered
  <2>11. Agrees(h) => Agrees(h)'
    <3>1. k[1] \notin {"appToBtm", "btmToApp"} /\ \A t \in Reports : <<"btmToApp", t>> \notin S
      BY <1>9, <1>10
    <3>2. QED
      BY <1>7, <1>13, <2>2, <3>1, CalmAgrees
  <2>12. QED
    BY <2>2, <2>5, <2>6, <2>7, <2>8, <2>9, <2>10, <2>11 DEF Sound, Tidy, Calm
<1>15. h \in Torrents => Each(h)'
  BY <1>8, <1>14, EachStep
<1>16. DOMAIN db' = DOMAIN db \cup {h} /\ db'[h] = {} /\ \A g \in DOMAIN db : g # h => db'[g] = db[g]
  BY <1>7 DEF With
<1>17. Backed'
  <2>1. \A g \in Torrents, x \in Pieces : Storing(g, x)' => Storing(g, x)
    <3>1. \A x \in Pieces : Storing(h, x)' => Storing(h, x)
      BY <1>10, <1>13 DEF Frame
    <3>2. \A g : g # h => \A x \in Pieces : Storing(g, x)' => Storing(g, x)
      BY <1>13 DEF Frame
    <3>3. QED
      BY <3>1, <3>2
  <2>2. torrentIds' \subseteq DOMAIN db' /\ \A g \in Torrents : g \in DOMAIN db' => db'[g] \subseteq onDisk[g]
    BY <1>7, <1>16 DEF Whole, Global, Backed
  <2>3. QED
    BY <1>7, <2>1, <2>2 DEF Whole, Global, Backed
<1>18. Loaded'
  <2>1. q'["appToPersist"] = q["appToPersist"]
    BY <1>9, <1>13 DEF Frame
  <2>2. QED
    BY <1>7, <1>16, <2>1 DEF Whole, Global, Loaded
<1>19. Global'
  BY <1>7, <1>17, <1>18, EntriesSame DEF btmVars, Whole, Global, Held
<1>20. \A g : g # h => SameBtm(g) /\ SameStored(g) /\ SameEntries(g)
  BY <1>7, SameAppBtm DEF SameStored
<1>21. QED
  BY <1>8, <1>12, <1>15, <1>19, <1>20, Beside

-------------------------------------------------------------------------------
(* The app. *)

(* A step of the app. *)
LEMMA AppStep ==
  ASSUME Inv, Whole, NEW c, NEW sent, Shift(c, sent), c # "appToPersist", Sent(sent, "appToPersist") = <<>>,
         UNCHANGED <<btmVars, known, onDisk, persistVars>>, active' \subseteq active, Mapped',
         \A g \in Torrents : Each(g)' /\ \A p \in Pieces : Storing(g, p)' => Storing(g, p)
  PROVE  Whole'
<1>1. q'["appToPersist"] = q["appToPersist"]
  BY Untouched DEF Shift, Channels, Inv, Typed
<1>2. Loaded'
  BY <1>1 DEF Whole, Global, Loaded, persistVars
<1>3. Backed' /\ Held'
  BY DEF Whole, Global, Backed, Held, persistVars, btmVars
<1>4. QED
  BY <1>2, <1>3 DEF Whole, Global

(* What a step of the app leaves alone. *)
Steady(h) ==
    /\ Known(h)' <=> Known(h)
    /\ Undone(h)' <=> Undone(h)
    /\ IsComplete(h)' <=> IsComplete(h)
    /\ Active(h)' <=> Active(h)
    /\ Good(h) => Good(h)'
    /\ Have(h) \subseteq Have(h)'
    /\ h \in announced' <=> h \in announced
    /\ h \in known' <=> h \in known
    /\ h \in torrentIds' <=> h \in torrentIds
    /\ onDisk[h] \subseteq onDisk'[h]

(* So it is when only the app changes, and no write is taken. *)
LEMMA Steadies ==
  ASSUME NEW k, NEW S, NEW h, Frame(k, S, h), k # <<"btmToDisk", "Write">>,
         UNCHANGED <<btmVars, known, onDisk, persistVars>>
  PROVE  Steady(h) /\ SameBtm(h) /\ SameStored(h)
<1>1. SameBtm(h) /\ onDisk[h] \subseteq onDisk'[h] /\ Writing(h) \subseteq Writing(h)'
  BY DEF SameBtm, SameAt, btmVars, Frame
<1>2. /\ Known(h)' <=> Known(h)
      /\ Undone(h)' <=> Undone(h)
      /\ IsComplete(h)' <=> IsComplete(h)
      /\ Active(h)' <=> Active(h)
      /\ Good(h) => Good(h)'
      /\ Have(h) \subseteq Have(h)'
  BY <1>1, SameState
<1>3. /\ h \in announced' <=> h \in announced
      /\ h \in known' <=> h \in known
      /\ h \in torrentIds' <=> h \in torrentIds
  BY DEF btmVars, persistVars
<1>4. SameStored(h)
  BY DEF SameStored, persistVars
<1>5. QED
  BY <1>1, <1>2, <1>3, <1>4 DEF Steady

(* removeTorrent: the entry goes and its removal is on its way, unless     *)
(* another info hash was read.                                             *)
LEMMA RemoveCommandKeeps ==
  ASSUME Inv, Whole, NEW id \in DOMAIN idTorrentMap, removeTorrent(id)
  PROVE  Whole'
<1>1. PICK h \in Hashes : h = idTorrentMap[id].hash
  BY DEF Inv, Typed, EntriesTyped
<1>2. PICK read \in {h, NoHash} :
          /\ Pushes([appToBtm |-> << <<"Remove", read>> >>])
          /\ IF read = h THEN UNCHANGED history ELSE Note("misread", h)
  BY <1>1 DEF removeTorrent
<1>3. read \in Hashes
  BY DEF Hashes
<1>4. /\ UNCHANGED <<btmVars, known, onDisk, persistVars>> /\ active' \subseteq active
      /\ idTorrentMap' = Without(idTorrentMap, id) /\ hashToIdMap' = Without(hashToIdMap, h)
  BY <1>1 DEF removeTorrent
<1>5. history \subseteq history' /\ (read # h => Muddled(h)')
  BY <1>2 DEF Note, Muddled, Unexpected
<1>6. PICK sent : sent = [appToBtm |-> << <<"Remove", read>> >>]
  OBVIOUS
<1>7. DOMAIN sent = {"appToBtm"} /\ sent["appToBtm"] = << <<"Remove", read>> >> /\ Pushes(sent)
  BY <1>2, <1>6, Records
<1>8. PICK S : S = {<<"appToBtm", "Remove">>}
  OBVIOUS
<1>9. "appToBtm" \in Channels \ (Loading \cup {None}) /\ None # "appToPersist" /\ "appToBtm" # None
  BY DEF Channels, Loading, None
<1>10. Hop(None, sent, NoKind, S, read)
  <2>1. <<"Remove", read>> \in EventsOf("appToBtm") /\ <<"Remove", read>>[1] = "Remove" /\ <<"Remove", read>>[2] = read
    BY <1>3, Made
  <2>2. Says(sent, S, read, None)
    BY <1>7, <1>8, <1>9, <2>1, SaysOne
  <2>3. QED
    BY <1>7, <2>2, HopSent
<1>11. /\ Shift(None, sent) /\ Sent(sent, "appToPersist") = <<>> /\ Frame(NoKind, S, read)
       /\ \A g : g # read => Frame(NoKind, {}, g)
  <2>1. Frame(NoKind, S, read) /\ \A g : g # read => Frame(NoKind, {}, g)
    BY <1>10, Hopped
  <2>2. Shift(None, sent) /\ Clear(None, sent, NoKind, S, read)
    BY <1>10 DEF Hop
  <2>3. Sent(sent, "appToPersist") = <<>>
    BY <2>2 DEF Clear
  <2>4. QED
    BY <2>1, <2>2, <2>3
<1>12. \A g : Frame(NoKind, S, g)
  <2>1. \A g : Frame(NoKind, {}, g) => Frame(NoKind, S, g)
    BY DEF Frame, WayFrame, AheadFrame
  <2>2. QED
    BY <1>11, <2>1
<1>13. /\ DOMAIN idTorrentMap' = DOMAIN idTorrentMap \ {id}
       /\ \A x \in DOMAIN idTorrentMap' : idTorrentMap'[x] = idTorrentMap[x]
       /\ DOMAIN hashToIdMap' = DOMAIN hashToIdMap \ {h}
       /\ \A x \in DOMAIN hashToIdMap' : hashToIdMap'[x] = hashToIdMap[x]
  BY <1>4 DEF Without
<1>14. Mapped'
  BY <1>13 DEF Whole, Global, Mapped
<1>15. \A g : Shown(g)' = Shown(g) \ {id}
  BY <1>13 DEF Shown
<1>16. id \in Shown(h)
  BY <1>1 DEF Shown
<1>17. ASSUME NEW g \in Torrents PROVE Steady(g) /\ SameBtm(g) /\ SameStored(g)
  <2>1. NoKind # <<"btmToDisk", "Write">>
    BY DEF NoKind
  <2>2. QED
    BY <1>4, <1>12, <2>1, Steadies
<1>18. ASSUME NEW g \in Torrents, g # h PROVE Each(g)'
  <2>1. g # read
    BY <1>18, LifecycleAssumption
  <2>2. Shown(g)' = Shown(g)
    BY <1>1, <1>15, <1>18 DEF Shown
  <2>3. SameAt(hashToIdMap, hashToIdMap', g)
    BY <1>13, <1>18 DEF SameAt
  <2>4. \A x \in Shown(g) : idTorrentMap'[x].state = idTorrentMap[x].state
    BY <1>13, <2>2 DEF Shown
  <2>5. SameEntries(g)
    BY <2>2, <2>3, <2>4 DEF SameEntries
  <2>6. Each(g) /\ Frame(NoKind, {}, g)
    BY <1>11, <2>1 DEF Whole
  <2>7. QED
    BY <1>5, <1>17, <2>5, <2>6, EachKeeps
<1>19. ASSUME h \in Torrents, Sound(h), OneLife(h) PROVE Sound(h)' /\ (~Muddled(h)' => Tidy(h)')
  <2>1. Frame(NoKind, S, h) /\ Steady(h)
    BY <1>12, <1>17, <1>19
  <2>2. ShownDone(h)' => ShownDone(h)
    <3>1. SUFFICES ASSUME NEW x \in Shown(h)', idTorrentMap'[x].state = "Completed" PROVE ShownDone(h)
      BY DEF ShownDone
    <3>2. x \in DOMAIN idTorrentMap' /\ x \in Shown(h)
      BY <1>15, <3>1 DEF Shown
    <3>3. QED
      BY <1>13, <3>1, <3>2 DEF ShownDone
  <2>3. Current(h)'
    BY <1>8, <1>19, <2>1 DEF Frame, WayFrame, AheadFrame, NoKind, Sound, Current, Steady
  <2>4. Prepared(h)'
    BY <1>8, <1>19, <2>1 DEF Frame, WayFrame, NoKind, Sound, Prepared, Steady
  <2>5. Populated(h)'
    BY <1>8, <1>19, <2>1 DEF Frame, WayFrame, AheadFrame, NoKind, Sound, Populated, Tracked, Stale, Steady
  <2>6. Had(h)'
    BY <1>8, <1>19, <2>1, <2>2 DEF Frame, WayFrame, NoKind, Sound, Had, Steady
  <2>7. OnTheWay(h)'
    BY <1>5, <1>8, <1>19, <2>1 DEF Frame, WayFrame, NoKind, Sound, OnTheWay, Tracked, Steady
  <2>8. ASSUME ~Muddled(h)' PROVE Tidy(h)'
    <3>1. read = h
      BY <1>5, <2>8
    <3>2. Way("appToBtm", "Remove", h)'
      BY <1>7, <1>9, <1>11, <3>1, Arrives
    <3>3. Shown(h)' = {}
      BY <1>15, <1>16, <1>19 DEF OneLife
    <3>4. h \notin DOMAIN hashToIdMap'
      BY <1>13
    <3>5. QED
      BY <3>2, <3>3, <3>4 DEF Tidy, Registered, MapsTo, Agrees
  <2>9. QED
    BY <2>3, <2>4, <2>5, <2>6, <2>7, <2>8 DEF Sound
<1>20. h \in Torrents => Each(h)'
  BY <1>5, <1>19, EachStep
<1>21. \A g \in Torrents : Each(g)' /\ \A p \in Pieces : Storing(g, p)' => Storing(g, p)
  <2>1. \A g : \A p \in Pieces : Storing(g, p)' => Storing(g, p)
    BY <1>8, <1>12 DEF Frame
  <2>2. QED
    BY <1>18, <1>20, <2>1
<1>22. QED
  BY <1>4, <1>9, <1>11, <1>14, <1>21, AppStep

(* StateChanges: the last report leaves the entry as BitTorrentManager has *)
(* the torrent.                                                            *)
LEMMA StateKeeps ==
  ASSUME Inv, Whole, StateChanges
  PROVE  Whole'
<1>1. PICK type \in Reports :
          /\ Takes("app", "btmToApp", type)
          /\ LET h == Event("btmToApp")[2]
                 id == IF h \in DOMAIN hashToIdMap THEN hashToIdMap[h] ELSE 0
                 hash == IF id \in DOMAIN idTorrentMap THEN idTorrentMap[id].hash ELSE NoHash
             IN  /\ hashToIdMap' = With(hashToIdMap, h, id)
                 /\ idTorrentMap' = With(idTorrentMap, id, [hash |-> hash, state |-> StateShown(type)])
                 /\ IF id = 0 THEN Note("ghost", h) ELSE UNCHANGED history
          /\ Answers("btmToApp", Nothing)
          /\ UNCHANGED <<active, idCounter, btmVars, known, onDisk, persistVars, turns>>
  BY DEF StateChanges, Reports
<1>2. "btmToApp" \in Channels \ Loading /\ "btmToApp" # "appToPersist"
  BY Names
<1>3. Event("btmToApp") \in EventsOf("btmToApp") /\ Event("btmToApp")[1] = type
  BY <1>1, <1>2, Taken
<1>4. PICK h \in Hashes : Event("btmToApp") = <<type, h>>
  <2>1. PICK t \in {"Added", "AddError", "Stopped", "Completed", "Resumed", "Removed"}, h \in Hashes : Event("btmToApp") = <<t, h>>
    BY <1>3, Shapes
  <2>2. QED
    BY <1>3, <2>1
<1>5. Event("btmToApp")[2] = h /\ Head(q["btmToApp"]) = <<type, h>>
  BY <1>4 DEF Event
<1>6. PICK id : id = IF h \in DOMAIN hashToIdMap THEN hashToIdMap[h] ELSE 0
  OBVIOUS
<1>7. PICK hash : hash = IF id \in DOMAIN idTorrentMap THEN idTorrentMap[id].hash ELSE NoHash
  OBVIOUS
<1>8. PICK state : state = StateShown(type)
  OBVIOUS
<1>9. PICK entry : entry = [hash |-> hash, state |-> state]
  OBVIOUS
<1>10. entry.hash = hash /\ entry.state = state
  BY <1>9
<1>11. /\ hashToIdMap' = With(hashToIdMap, h, id) /\ idTorrentMap' = With(idTorrentMap, id, entry)
       /\ IF id = 0 THEN Note("ghost", h) ELSE UNCHANGED history
  BY <1>1, <1>5, <1>6, <1>7, <1>8, <1>9
<1>12. /\ UNCHANGED <<btmVars, known, onDisk, persistVars>> /\ active' \subseteq active
       /\ history \subseteq history' /\ (id = 0 => Muddled(h)')
  BY <1>1, <1>11 DEF Note, Muddled, Unexpected
<1>13. /\ DOMAIN idTorrentMap' = DOMAIN idTorrentMap \cup {id} /\ idTorrentMap'[id] = entry
       /\ \A x \in DOMAIN idTorrentMap : x # id => idTorrentMap'[x] = idTorrentMap[x]
       /\ DOMAIN hashToIdMap' = DOMAIN hashToIdMap \cup {h} /\ hashToIdMap'[h] = id
       /\ \A x \in DOMAIN hashToIdMap : x # h => hashToIdMap'[x] = hashToIdMap[x]
  BY <1>11 DEF With
<1>14. hash \in {h, NoHash} /\ (id = 0 => hash = NoHash)
  BY <1>6, <1>7 DEF Whole, Global, Mapped
<1>15. \A x \in DOMAIN idTorrentMap : idTorrentMap'[x].hash = idTorrentMap[x].hash
  BY <1>7, <1>10, <1>13
<1>16. Mapped'
  <2>1. 0 \in DOMAIN idTorrentMap' => idTorrentMap'[0].hash = NoHash
    BY <1>10, <1>13, <1>14, <1>15 DEF Whole, Global, Mapped
  <2>2. ASSUME NEW g \in DOMAIN hashToIdMap', hashToIdMap'[g] \in DOMAIN idTorrentMap'
        PROVE  idTorrentMap'[hashToIdMap'[g]].hash \in {g, NoHash}
    <3>1. CASE g = h
      BY <1>10, <1>13, <1>14, <3>1
    <3>2. CASE g # h
      <4>1. g \in DOMAIN hashToIdMap /\ hashToIdMap'[g] = hashToIdMap[g]
        BY <1>13, <3>2
      <4>2. CASE hashToIdMap[g] \in DOMAIN idTorrentMap
        BY <1>15, <4>1, <4>2 DEF Whole, Global, Mapped
      <4>3. CASE hashToIdMap[g] \notin DOMAIN idTorrentMap
        <5>1. hashToIdMap[g] = id /\ hash = NoHash
          BY <1>7, <1>13, <2>2, <4>1, <4>3
        <5>2. QED
          BY <1>10, <1>13, <4>1, <5>1
      <4>4. QED
        BY <4>2, <4>3
    <3>3. QED
      BY <3>1, <3>2
  <2>3. QED
    BY <2>1, <2>2 DEF Mapped
<1>17. PICK sent : sent = Nothing
  OBVIOUS
<1>18. PICK k : k = <<"btmToApp", type>>
  OBVIOUS
<1>19. Hop("btmToApp", sent, k, {}, h)
  BY <1>1, <1>2, <1>5, <1>17, <1>18, SaysNothing, HopTaken
<1>20. /\ Shift("btmToApp", sent) /\ Frame(k, {}, h) /\ \A g : g # h => Frame(NoKind, {}, g)
       /\ Sent(sent, "appToPersist") = <<>>
  <2>1. Frame(k, {}, h) /\ \A g : g # h => Frame(NoKind, {}, g)
    BY <1>19, Hopped
  <2>2. Shift("btmToApp", sent) /\ Clear("btmToApp", sent, k, {}, h)
    BY <1>19 DEF Hop
  <2>3. Sent(sent, "appToPersist") = <<>>
    BY <2>2 DEF Clear
  <2>4. QED
    BY <2>1, <2>2, <2>3
<1>21. ASSUME NEW g \in Torrents PROVE Shown(g)' = Shown(g)
  <2>1. g # NoHash
    BY LifecycleAssumption
  <2>2. id \notin DOMAIN idTorrentMap => idTorrentMap'[id].hash # g
    BY <1>7, <1>10, <1>13, <2>1
  <2>3. QED
    BY <1>13, <1>15, <2>2 DEF Shown
<1>22. ASSUME NEW g \in Torrents, g # h PROVE Each(g)'
  <2>1. Each(g) /\ Frame(NoKind, {}, g) /\ NoKind # <<"btmToDisk", "Write">>
    BY <1>20, <1>22 DEF Whole, NoKind
  <2>2. SameBtm(g) /\ SameStored(g)
    BY <1>12, <2>1, Steadies
  <2>3. id \notin Shown(g)
    BY <1>7, <1>14, <1>22, LifecycleAssumption DEF Shown
  <2>4. \A x \in Shown(g) : idTorrentMap'[x].state = idTorrentMap[x].state
    BY <1>13, <2>3 DEF Shown
  <2>5. SameAt(hashToIdMap, hashToIdMap', g)
    BY <1>13, <1>22 DEF SameAt
  <2>6. SameEntries(g)
    BY <1>21, <2>4, <2>5 DEF SameEntries
  <2>7. QED
    BY <1>12, <2>1, <2>2, <2>6, EachKeeps
<1>23. ASSUME h \in Torrents, Sound(h) PROVE Sound(h)' /\ (~Muddled(h)' /\ Tidy(h) => Tidy(h)')
  <2>1. Steady(h) /\ Shown(h)' = Shown(h)
    BY <1>12, <1>18, <1>20, <1>21, <1>23, Steadies
  <2>2. Way("btmToApp", type, h)
    BY <1>2, <1>5, <1>20, WasThere
  <2>3. type = "Stopped" \/ type = "Completed" \/ type = "Resumed"
    BY DEF Reports
  <2>4. /\ type = "Stopped" => state = "Stopped"
        /\ type = "Completed" => state = "Completed"
        /\ type = "Resumed" => state = "Running"
    BY <1>8, Zenon DEF StateShown
  <2>5. ShownDone(h)' => ShownDone(h) \/ Way("btmToApp", "Completed", h)
    <3>1. SUFFICES ASSUME NEW x \in Shown(h), idTorrentMap'[x].state = "Completed"
                   PROVE  ShownDone(h) \/ Way("btmToApp", "Completed", h)
      BY <2>1 DEF ShownDone
    <3>2. CASE x = id
      BY <1>10, <1>13, <2>2, <2>3, <2>4, <3>1, <3>2
    <3>3. CASE x # id
      BY <1>13, <3>1, <3>3 DEF ShownDone, Shown
    <3>4. QED
      BY <3>2, <3>3
  <2>6. Current(h)'
    BY <1>18, <1>20, <1>23, <2>1 DEF Frame, WayFrame, AheadFrame, Sound, Current, Steady
  <2>7. Prepared(h)'
    BY <1>18, <1>20, <1>23, <2>1 DEF Frame, WayFrame, Sound, Prepared, Steady
  <2>8. Populated(h)'
    BY <1>18, <1>20, <1>23, <2>1 DEF Frame, WayFrame, AheadFrame, Sound, Populated, Tracked, Stale, Steady
  <2>9. Had(h)'
    BY <1>18, <1>20, <1>23, <2>1, <2>5 DEF Frame, WayFrame, Sound, Had, Steady
  <2>10. OnTheWay(h)'
    BY <1>12, <1>18, <1>20, <1>23, <2>1 DEF Frame, WayFrame, Sound, OnTheWay, Tracked, Steady
  <2>11. ASSUME ~Muddled(h)', Tidy(h) PROVE Tidy(h)'
    <3>1. id # 0 /\ h \in DOMAIN hashToIdMap /\ id = hashToIdMap[h]
      BY <1>6, <1>12, <2>11
    <3>2. Shown(h) = {id}
      BY <2>11, <3>1 DEF Tidy, MapsTo
    <3>3. MapsTo(h)'
      BY <1>13, <2>1, <3>1, <3>2 DEF MapsTo
    <3>4. Registered(h)'
      BY <1>18, <1>20, <2>1, <2>3, <2>11 DEF Frame, WayFrame, Tidy, Registered, Steady
    <3>5. Agrees(h)'
      <4>1. SUFFICES ASSUME ~Way("appToBtm", "Start", h)'
                     PROVE  /\ \A t \in Reports : Latest(t, h)' => Reported(t, h)'
                            /\ Unreported(h)' => AllFit(h)'
        BY DEF Agrees
      <4>2. ~Way("appToBtm", "Start", h)
        BY <1>18, <1>20, <4>1 DEF Frame, WayFrame
      <4>3. \A t \in Reports : Latest(t, h) => Reported(t, h)
        BY <2>11, <3>2, <4>2 DEF Tidy, Agrees
      <4>4. \A t : Reported(t, h)' <=> Reported(t, h)
        BY <2>1 DEF Reported, Steady
      <4>5. \A t \in Reports : Latest(t, h)' => Latest(t, h)
        BY <1>20 DEF Frame
      <4>6. ASSUME Unreported(h)' PROVE AllFit(h)'
        <5>1. PICK s : s = q["btmToApp"]
          OBVIOUS
        <5>2. PICK x : x = <<type, h>>
          OBVIOUS
        <5>3. PICK X : X = Reports \X {h}
          OBVIOUS
        <5>4. s \in Seq(EventsOf("btmToApp")) /\ s # <<>> /\ q'["btmToApp"] = Tail(s) /\ x = Head(s)
          BY <1>2, <1>5, <1>20, <5>1, <5>2, Shifted DEF Inv, Typed
        <5>5. \A e \in X : e \notin Range(Tail(s))
          <6>1. \A t \in Reports : ~Way("btmToApp", t, h)'
            BY <4>6 DEF Unreported, Reports
          <6>2. \A t \in Reports : <<t, h>> \notin Range(Tail(s))
            BY <5>4, <6>1 DEF Way
          <6>3. QED
            BY <5>3, <6>2
        <5>6. LastOf(s, x, X)
          BY <5>4, <5>5, LastTake
        <5>7. Reported(type, h)'
          BY <4>3, <4>4, <5>1, <5>2, <5>3, <5>6 DEF Latest
        <5>8. Fits(state, h)'
          BY <2>3, <2>4, <5>7 DEF Reported, Fits
        <5>9. QED
          BY <1>10, <1>13, <2>1, <3>2, <5>8 DEF AllFit
      <4>7. QED
        BY <4>3, <4>4, <4>5, <4>6
    <3>6. QED
      BY <3>3, <3>4, <3>5 DEF Tidy
  <2>12. QED
    BY <2>6, <2>7, <2>8, <2>9, <2>10, <2>11 DEF Sound
<1>24. h \in Torrents => Each(h)'
  BY <1>12, <1>23, EachStep
<1>25. \A g \in Torrents : Each(g)' /\ \A p \in Pieces : Storing(g, p)' => Storing(g, p)
  <2>1. \A g : \A p \in Pieces : Storing(g, p)' => Storing(g, p)
    <3>1. \A g : Frame(k, {}, g) \/ Frame(NoKind, {}, g)
      BY <1>20
    <3>2. QED
      BY <3>1 DEF Frame
  <2>2. QED
    BY <1>22, <1>24, <2>1
<1>26. QED
  BY <1>2, <1>12, <1>16, <1>20, <1>25, AppStep

(* What new entries are, and that the old ones stay. *)
LEMMA NewOnes ==
  ASSUME EntriesTyped, NEW hashes \in Seq(Hashes), NEW c, NewEntries(c, hashes)
  PROVE  /\ \A g, m : m \in Shown(g) => m \in Shown(g)' /\ idTorrentMap'[m] = idTorrentMap[m]
         /\ \A g, m : m \in Shown(g)' => \/ m \in Shown(g)
                                         \/ m # 0 /\ idTorrentMap'[m].state = "Running" /\ g \in Range(hashes)
         /\ \A g \in Range(hashes) : Shown(g)' # {}
         /\ DOMAIN hashToIdMap' = DOMAIN hashToIdMap \cup Range(hashes)
         /\ \A g \in DOMAIN hashToIdMap : hashToIdMap'[g] = hashToIdMap[g]
         /\ \A g \in Range(hashes) : g \notin DOMAIN hashToIdMap => hashToIdMap'[g] \in Shown(g)'
         /\ Mapped => Mapped'
<1> DEFINE n == Len(hashes)
           N == idCounter
           ids == [i \in 1 .. n |-> N + i]
           id(h) == CHOOSE m \in Range(ids) : hashes[m - N] = h
           entry(m) == [hash |-> hashes[m - N], state |-> "Running"]
<1>1. n \in Nat /\ N \in Nat /\ \A i \in 1 .. n : hashes[i] \in Hashes
  BY DEF EntriesTyped
<1>2. \A h : h \in Range(hashes) <=> \E i \in 1 .. n : hashes[i] = h
  BY InRange
<1>3. Range(ids) = N + 1 .. N + n
  <2>1. Range(ids) = {N + i : i \in 1 .. n}
    BY DEF Range
  <2> HIDE DEF ids, n, N
  <2>2. \A m : m \in N + 1 .. N + n <=> m \in {N + i : i \in 1 .. n}
    <3>1. ASSUME NEW m \in N + 1 .. N + n PROVE m \in {N + i : i \in 1 .. n}
      <4>1. m - N \in 1 .. n /\ m = N + (m - N)
        BY <1>1
      <4>2. QED
        BY <4>1
    <3>2. \A i \in 1 .. n : N + i \in N + 1 .. N + n
      BY <1>1
    <3>3. QED
      BY <3>1, <3>2
  <2>3. QED
    BY <2>1, <2>2
<1>4. /\ idTorrentMap' = [m \in DOMAIN idTorrentMap \cup Range(ids) |->
                             IF m \in Range(ids) THEN entry(m) ELSE idTorrentMap[m]]
      /\ hashToIdMap' = [h \in DOMAIN hashToIdMap \cup Range(hashes) |->
                            IF h \in DOMAIN hashToIdMap THEN hashToIdMap[h] ELSE id(h)]
  BY DEF NewEntries
<1>5. ASSUME NEW h \in Range(hashes) PROVE id(h) \in N + 1 .. N + n /\ hashes[id(h) - N] = h
  <2>1. PICK i \in 1 .. n : hashes[i] = h
    BY <1>2
  <2>2. N + i \in N + 1 .. N + n /\ (N + i) - N = i
    BY <1>1
  <2>3. \E m \in Range(ids) : hashes[m - N] = h
    BY <1>3, <2>1, <2>2
  <2>4. QED
    BY <1>3, <2>3
<1>6. \A m : entry(m).hash = hashes[m - N] /\ entry(m).state = "Running"
  OBVIOUS
<1> HIDE DEF ids, id, entry
<1>7. /\ DOMAIN idTorrentMap' = DOMAIN idTorrentMap \cup (N + 1 .. N + n)
      /\ \A m \in N + 1 .. N + n : idTorrentMap'[m].hash = hashes[m - N] /\ idTorrentMap'[m].state = "Running"
      /\ \A m \in DOMAIN idTorrentMap : m \notin N + 1 .. N + n => idTorrentMap'[m] = idTorrentMap[m]
      /\ DOMAIN hashToIdMap' = DOMAIN hashToIdMap \cup Range(hashes)
      /\ \A h \in DOMAIN hashToIdMap : hashToIdMap'[h] = hashToIdMap[h]
      /\ \A h \in Range(hashes) : h \notin DOMAIN hashToIdMap => hashToIdMap'[h] = id(h)
  BY <1>3, <1>4, <1>6
<1>8. \A m \in N + 1 .. N + n : m - N \in 1 .. n /\ m \notin 0 .. N /\ m # 0
  BY <1>1
<1>9. DOMAIN idTorrentMap \subseteq 0 .. N /\ \A h \in DOMAIN hashToIdMap : hashToIdMap[h] \in 0 .. N
  BY DEF EntriesTyped
<1> HIDE DEF n, N
<1>10. \A m \in DOMAIN idTorrentMap : m \in DOMAIN idTorrentMap' /\ idTorrentMap'[m] = idTorrentMap[m]
  BY <1>7, <1>8, <1>9
<1>11. /\ \A g, m : m \in Shown(g)' <=> m \in DOMAIN idTorrentMap' /\ idTorrentMap'[m].hash = g
       /\ \A g, m : m \in Shown(g) <=> m \in DOMAIN idTorrentMap /\ idTorrentMap[m].hash = g
  BY DEF Shown
<1>12. \A g, m : m \in Shown(g) => m \in Shown(g)' /\ idTorrentMap'[m] = idTorrentMap[m]
  BY <1>10, <1>11
<1>13. ASSUME NEW g, NEW m \in Shown(g)'
       PROVE  m \in Shown(g) \/ (m # 0 /\ idTorrentMap'[m].state = "Running" /\ g \in Range(hashes))
  <2>1. m \in DOMAIN idTorrentMap' /\ idTorrentMap'[m].hash = g
    BY <1>11
  <2>2. CASE m \in N + 1 .. N + n
    <3>1. hashes[m - N] = g /\ m - N \in 1 .. n
      BY <1>7, <1>8, <2>1, <2>2
    <3>2. QED
      BY <1>2, <1>7, <1>8, <2>2, <3>1
  <2>3. CASE m \notin N + 1 .. N + n
    BY <1>7, <1>10, <1>11, <2>1, <2>3
  <2>4. QED
    BY <2>2, <2>3
<1>14. \A g \in Range(hashes) : id(g) \in Shown(g)'
  BY <1>5, <1>7, <1>11
<1>15. ASSUME Mapped PROVE Mapped'
  <2>1. 0 \in DOMAIN idTorrentMap' => idTorrentMap'[0].hash = NoHash
    BY <1>7, <1>8, <1>10, <1>15 DEF Mapped
  <2>2. ASSUME NEW g \in DOMAIN hashToIdMap', hashToIdMap'[g] \in DOMAIN idTorrentMap'
        PROVE  idTorrentMap'[hashToIdMap'[g]].hash \in {g, NoHash}
    <3>1. CASE g \in DOMAIN hashToIdMap
      <4>1. hashToIdMap'[g] = hashToIdMap[g] /\ hashToIdMap[g] \in DOMAIN idTorrentMap
        BY <1>7, <1>8, <1>9, <2>2, <3>1
      <4>2. QED
        BY <1>10, <1>15, <3>1, <4>1 DEF Mapped
    <3>2. CASE g \notin DOMAIN hashToIdMap
      <4>1. g \in Range(hashes) /\ hashToIdMap'[g] = id(g)
        BY <1>7, <3>2
      <4>2. QED
        BY <1>11, <1>14, <4>1
    <3>3. QED
      BY <3>1, <3>2
  <2>3. QED
    BY <2>1, <2>2 DEF Mapped
<1>16. \A g \in Range(hashes) : Shown(g)' # {}
  BY <1>14
<1>17. \A g \in Range(hashes) : g \notin DOMAIN hashToIdMap => hashToIdMap'[g] \in Shown(g)'
  BY <1>7, <1>14
<1>18. QED
  BY <1>7, <1>12, <1>13, <1>15, <1>16, <1>17

(* New entries: nothing that was asked for an earlier life of the torrent  *)
(* is left, and its removal is not on its way before its start.            *)
LEMMA EntriesKeep ==
  ASSUME Inv, Whole, NEW c \in {"btmToApp", "persistToApp"}, q[c] # <<>>, NEW hashes \in Seq(Hashes),
         \A i, j \in 1 .. Len(hashes) : hashes[i] = hashes[j] => i = j, NewEntries(c, hashes),
         c = "btmToApp" => \E h \in Hashes : Head(q[c]) = <<"Added", h>> /\ \A g : g \in Range(hashes) <=> g = h,
         c = "persistToApp" => Range(hashes) = Head(q[c])[2] /\ Head(q[c])[1] = "AllTorrents"
  PROVE  Whole'
<1>1. /\ QueuesTyped /\ EntriesTyped /\ c \in Channels /\ "appToBtm" \in Channels
      /\ c # "appToBtm" /\ c # "appToPersist"
  BY DEF Inv, Typed, Channels
<1>2. PICK w : w = Starts(hashes)
  OBVIOUS
<1>3. /\ w \in Seq(EventsOf("appToBtm"))
      /\ \A x : x \in Range(w) <=> \E g \in Range(hashes) : x = <<"Start", g>>
  BY <1>2, StartsAre
<1>4. PICK sent : sent = [appToBtm |-> w]
  OBVIOUS
<1>5. DOMAIN sent = {"appToBtm"} /\ sent["appToBtm"] = w
  BY <1>4, Records
<1>6. Answers(c, sent)
  BY <1>2, <1>4 DEF NewEntries, Starts
<1>7. Sent(sent, "appToBtm") = w /\ \A d : d # "appToBtm" => Sent(sent, d) = <<>>
  BY <1>5 DEF Sent
<1>8. \A d \in Channels : Sent(sent, d) \in Seq(EventsOf(d))
  <2>1. ASSUME NEW d \in Channels PROVE Sent(sent, d) \in Seq(EventsOf(d))
    <3>1. <<>> \in Seq(EventsOf(d))
      OBVIOUS
    <3>2. CASE d = "appToBtm"
      BY <1>3, <1>7, <3>2
    <3>3. CASE d # "appToBtm"
      BY <1>7, <3>1, <3>3
    <3>4. QED
      BY <3>2, <3>3
  <2>2. QED
    BY <2>1
<1>9. Shift(c, sent)
  <2>1. q' = [d \in Channels |-> q'[d]] /\ Moved(c, sent)
    BY <1>1, <1>5, <1>6, <1>8, Answered
  <2>2. QED
    BY <1>1, <1>8, <2>1 DEF Shift
<1>10. \A d, x : x \in Range(Sent(sent, d)) => d = "appToBtm" /\ \E g \in Range(hashes) : x = <<"Start", g>>
  <2>1. Range(<<>>) = {}
    BY DEF Range
  <2>2. QED
    BY <1>3, <1>7, <2>1
<1>11. PICK S : S = {<<"appToBtm", "Start">>}
  OBVIOUS
<1>12. PICK k : k = IF c = "btmToApp" THEN <<"btmToApp", "Added">> ELSE <<"persistToApp", "AllTorrents">>
  OBVIOUS
<1>13. \A d \in Channels : \A g : \A x \in Range(Sent(sent, d)) : x[2] = g => <<d, x[1]>> \in S /\ g \in Range(hashes)
  <2>1. \A g : <<"Start", g>>[1] = "Start" /\ <<"Start", g>>[2] = g
    OBVIOUS
  <2>2. QED
    BY <1>10, <1>11, <2>1
<1>14. Sent(sent, "appToPersist") = <<>> /\ Sent(sent, "persistToApp") = <<>>
  BY <1>7
<1>15. <<c, Head(q[c])[1]>> = k
  BY <1>12
<1>16. ASSUME NEW g PROVE Frame(k, S, g) /\ (g \notin Range(hashes) => Frame(k, {}, g))
  <2>1. c = "persistToApp" => k = <<"persistToApp", "AllTorrents">>
    BY <1>12
  <2>2. Clear(c, sent, k, S, g)
    BY <1>1, <1>13, <1>14, <1>15, <2>1 DEF Clear
  <2>3. g \notin Range(hashes) => Clear(c, sent, k, {}, g)
    BY <1>1, <1>13, <1>14, <1>15, <2>1 DEF Clear
  <2>4. QED
    BY <1>1, <1>9, <2>2, <2>3, Framed
<1>17. ASSUME NEW g, g \notin Range(hashes) PROVE Frame(NoKind, {}, g)
  <2>1. CASE c = "btmToApp"
    <3>1. Head(q[c])[2] # g
      <4>1. PICK h \in Hashes : Head(q[c]) = <<"Added", h>> /\ \A x : x \in Range(hashes) <=> x = h
        BY <2>1
      <4>2. QED
        BY <1>17, <4>1
    <3>2. \A d \in Channels : \A x \in Range(Sent(sent, d)) : x[2] # g
      BY <1>13, <1>17
    <3>3. Clear(c, sent, NoKind, {}, g)
      BY <1>1, <1>14, <2>1, <3>1, <3>2 DEF Clear
    <3>4. QED
      BY <1>1, <1>9, <3>3, Framed
  <2>2. CASE c = "persistToApp"
    <3>1. ~Carries("persistToApp", g)
      <4>1. Tail(q[c]) = <<>> /\ q[c] \in Seq(EventsOf(c)) /\ Range(<<>>) = {}
        BY <1>1, <2>2 DEF QueuesTyped, Range
      <4>2. \A x : x \in Range(q[c]) => x = Head(q[c])
        BY <4>1, Taking
      <4>3. g \notin Head(q[c])[2]
        BY <1>17, <2>2
      <4>4. QED
        BY <2>2, <4>2, <4>3, CarriesWhat
    <3>2. ~Carries("persistToApp", g)'
      <4>1. Tail(q[c]) = <<>> /\ Range(<<>>) = {}
        BY <1>1, <2>2 DEF QueuesTyped, Range
      <4>2. q'[c] = Tail(q[c])
        BY <1>1, <1>9, Shifted
      <4>3. Range(q'["persistToApp"]) = {}
        BY <2>2, <4>1, <4>2
      <4>4. QED
        BY <4>3, CarriesWhat
    <3>3. k = <<"persistToApp", "AllTorrents">>
      BY <1>12, <2>2
    <3>4. QED
      BY <1>16, <1>17, <3>1, <3>2, <3>3 DEF Frame, WayFrame, AheadFrame, NoKind
  <2>3. QED
    BY <2>1, <2>2
<1>18. /\ UNCHANGED <<btmVars, known, onDisk, persistVars>> /\ active' \subseteq active /\ history \subseteq history'
  BY DEF NewEntries
<1>19. /\ \A g, m : m \in Shown(g) => m \in Shown(g)' /\ idTorrentMap'[m] = idTorrentMap[m]
       /\ \A g, m : m \in Shown(g)' => \/ m \in Shown(g)
                                       \/ m # 0 /\ idTorrentMap'[m].state = "Running" /\ g \in Range(hashes)
       /\ \A g \in Range(hashes) : Shown(g)' # {}
       /\ DOMAIN hashToIdMap' = DOMAIN hashToIdMap \cup Range(hashes)
       /\ \A g \in DOMAIN hashToIdMap : hashToIdMap'[g] = hashToIdMap[g]
       /\ \A g \in Range(hashes) : g \notin DOMAIN hashToIdMap => hashToIdMap'[g] \in Shown(g)'
       /\ Mapped'
  BY <1>1, NewOnes DEF Whole, Global
<1>20. \A g : Shown(g) = {} => \A i, j \in Shown(g)' : i = j
  BY <1>1, Entries
<1>21. ASSUME NEW g \in Torrents, g \notin Range(hashes) PROVE Each(g)'
  <2>1. Frame(NoKind, {}, g) /\ Each(g) /\ NoKind # <<"btmToDisk", "Write">>
    BY <1>17, <1>21 DEF Whole, NoKind
  <2>2. SameBtm(g) /\ SameStored(g)
    BY <1>18, <2>1, Steadies
  <2>3. Shown(g)' = Shown(g)
    BY <1>19, <1>21
  <2>4. SameAt(hashToIdMap, hashToIdMap', g)
    BY <1>19, <1>21 DEF SameAt
  <2>5. SameEntries(g)
    BY <1>19, <2>3, <2>4 DEF SameEntries
  <2>6. QED
    BY <1>18, <2>1, <2>2, <2>5, EachKeeps
<1>22. ASSUME NEW h \in Torrents, h \in Range(hashes) PROVE Each(h)'
  <2>1. SUFFICES ASSUME Sound(h), OneLife(h) PROVE Sound(h)' /\ (Tidy(h) => Tidy(h)')
    BY <1>18, EachStep
  <2>2. Frame(k, S, h) /\ Steady(h)
    <3>1. Frame(k, S, h) /\ k # <<"btmToDisk", "Write">>
      BY <1>12, <1>16
    <3>2. QED
      BY <1>18, <3>1, Steadies
  <2>3. Way("btmToApp", "Added", h) \/ Carries("persistToApp", h)
    <3>1. CASE c = "btmToApp"
      <4>1. Head(q[c]) = <<"Added", h>>
        BY <1>22, <3>1
      <4>2. QED
        BY <1>1, <1>9, <3>1, <4>1, WasThere
    <3>2. CASE c = "persistToApp"
      <4>1. Head(q[c]) \in Range(q[c])
        BY <1>1, <1>9, Shifted
      <4>2. QED
        BY <1>22, <3>2, <4>1, CarriesWhat
    <3>3. QED
      BY <3>1, <3>2
  <2>4. Shown(h) = {} /\ h \in torrentIds /\ ~Way("appToBtm", "Remove", h) /\ ~Way("btmToPersist", "Remove", h)
    BY <2>1, <2>3, Exclusive
  <2>5. Way("appToBtm", "Start", h)'
    <3>1. <<"Start", h>> \in Range(Sent(sent, "appToBtm"))
      BY <1>3, <1>7, <1>22
    <3>2. \A x : x \in Range(Sent(sent, "appToBtm")) => x \in Range(q'["appToBtm"])
      BY <1>1, <1>9, Shifted
    <3>3. QED
      BY <3>1, <3>2 DEF Way
  <2>6. Ahead("appToBtm", "Start", "Remove", h)'
    <3>1. <<"Remove", h>> \notin Range(Sent(sent, "appToBtm"))
      BY <1>10
    <3>2. QED
      BY <1>1, <1>9, <2>1, <2>4, <3>1, AheadStays DEF Sound, Current
  <2>7. ~ShownDone(h)'
    BY <1>19, <2>4 DEF ShownDone
  <2>8. Current(h)'
    BY <1>11, <1>12, <2>1, <2>2, <2>4, <2>6 DEF Frame, WayFrame, AheadFrame, Sound, Current, Steady
  <2>9. Prepared(h)'
    BY <1>11, <1>12, <2>1, <2>2 DEF Frame, WayFrame, Sound, Prepared, Steady
  <2>10. Populated(h)'
    <3>1. ~Stale(h)
      BY <2>3 DEF Stale
    <3>2. QED
      BY <1>11, <1>12, <2>1, <2>2, <3>1 DEF Frame, WayFrame, Sound, Populated, Tracked, Steady
  <2>11. Had(h)'
    BY <1>11, <1>12, <2>1, <2>2, <2>7 DEF Frame, WayFrame, Sound, Had, Steady
  <2>12. OnTheWay(h)'
    BY <1>11, <1>12, <1>18, <2>1, <2>2 DEF Frame, WayFrame, Sound, OnTheWay, Tracked, Steady
  <2>13. ASSUME Tidy(h) PROVE Tidy(h)'
    <3>1. h \notin DOMAIN hashToIdMap
      BY <2>4, <2>13 DEF Tidy, MapsTo
    <3>2. Shown(h)' # {} /\ h \in DOMAIN hashToIdMap' /\ hashToIdMap'[h] \in Shown(h)'
      BY <1>19, <1>22, <3>1
    <3>3. \A m \in Shown(h)' : m # 0 /\ m = hashToIdMap'[h]
      BY <1>19, <1>20, <2>4, <3>2
    <3>4. MapsTo(h)'
      BY <3>2, <3>3 DEF MapsTo
    <3>5. QED
      BY <2>5, <3>2, <3>4 DEF Tidy, Registered, Agrees
  <2>14. QED
    BY <2>8, <2>9, <2>10, <2>11, <2>12, <2>13 DEF Sound
<1>23. \A g \in Torrents : Each(g)' /\ \A p \in Pieces : Storing(g, p)' => Storing(g, p)
  <2>1. \A g : \A p \in Pieces : Storing(g, p)' => Storing(g, p)
    BY <1>11, <1>16 DEF Frame
  <2>2. QED
    BY <1>21, <1>22, <2>1
<1>24. QED
  BY <1>1, <1>9, <1>14, <1>18, <1>19, <1>23, AppStep

(* AddedTorrent and AllTorrents. *)
LEMMA NewKeep ==
  ASSUME Inv, Whole, AddedTorrent \/ AllTorrents
  PROVE  Whole'
<1>1. "btmToApp" \in Channels /\ "persistToApp" \in Channels /\ "btmToApp" # "persistToApp"
  BY DEF Channels
<1>2. CASE AddedTorrent
  <2>1. Takes("app", "btmToApp", "Added") /\ NewEntries("btmToApp", <<Event("btmToApp")[2]>>)
    BY <1>2 DEF AddedTorrent
  <2>2. /\ q["btmToApp"] # <<>> /\ Event("btmToApp") = Head(q["btmToApp"])
        /\ Event("btmToApp") \in EventsOf("btmToApp") /\ Event("btmToApp")[1] = "Added"
    BY <1>1, <2>1, Taken
  <2>3. PICK h \in Hashes : Event("btmToApp") = <<"Added", h>>
    BY <2>2, Shapes
  <2>4. Event("btmToApp")[2] = h /\ Head(q["btmToApp"]) = <<"Added", h>>
    BY <2>2, <2>3
  <2>5. PICK hashes : hashes = <<h>>
    OBVIOUS
  <2>6. NewEntries("btmToApp", hashes)
    BY <2>1, <2>4, <2>5
  <2>7. hashes \in Seq(Hashes) /\ (\A g : g \in Range(hashes) <=> g = h)
    BY <2>5, Single
  <2>8. \A i, j \in 1 .. Len(hashes) : i = j
    BY <2>5
  <2>9. \A i, j \in 1 .. Len(hashes) : hashes[i] = hashes[j] => i = j
    BY <2>8
  <2>10. QED
    BY <1>1, <2>2, <2>4, <2>6, <2>7, <2>9, EntriesKeep
<1>3. CASE AllTorrents
  <2>1. Takes("app", "persistToApp", "AllTorrents")
        /\ NewEntries("persistToApp", SetToSeq(Event("persistToApp")[2]))
    BY <1>3 DEF AllTorrents
  <2>2. /\ q["persistToApp"] # <<>> /\ Event("persistToApp") = Head(q["persistToApp"])
        /\ Event("persistToApp") \in EventsOf("persistToApp")
    BY <1>1, <2>1, Taken
  <2>3. PICK S \in SUBSET Hashes : Event("persistToApp") = <<"AllTorrents", S>> /\ IsFiniteSet(S)
    BY <2>2, Made
  <2>4. Event("persistToApp")[2] = S /\ Head(q["persistToApp"])[2] = S /\ Head(q["persistToApp"])[1] = "AllTorrents"
    BY <2>2, <2>3
  <2>5. PICK hashes : hashes = SetToSeq(S)
    OBVIOUS
  <2>6. NewEntries("persistToApp", hashes)
    BY <2>1, <2>4, <2>5
  <2>7. /\ hashes \in Seq(Hashes) /\ Range(hashes) = S
        /\ \A i, j \in 1 .. Len(hashes) : hashes[i] = hashes[j] => i = j
    BY <2>3, <2>5, Listed
  <2>8. Range(hashes) = Head(q["persistToApp"])[2]
    BY <2>4, <2>7
  <2>9. QED
    BY <1>1, <2>2, <2>4, <2>6, <2>7, <2>8, EntriesKeep
<1>4. QED
  BY <1>2, <1>3

(* PersistLoadTorrents: no torrent was known before. *)
LEMMA LoadTorrentsKeep ==
  ASSUME Inv, Whole, PersistLoadTorrents
  PROVE  Whole'
<1>1. Takes("persist", "appToPersist", "LoadTorrents")
  BY DEF PersistLoadTorrents
<1>2. /\ "appToPersist" \in Channels /\ "persistToApp" \in Channels /\ QueuesTyped /\ EntriesTyped
      /\ "appToPersist" # "persistToApp"
  BY DEF Channels, Inv, Typed
<1>3. q["appToPersist"] # <<>> /\ Head(q["appToPersist"])[1] = "LoadTorrents"
  BY <1>1, <1>2, Taken
<1>4. PICK D \in SUBSET Hashes : D = DOMAIN db /\ IsFiniteSet(D)
  BY <1>2 DEF EntriesTyped
<1>5. PICK e \in EventsOf("persistToApp") : e = <<"AllTorrents", D>>
  BY <1>4, Made
<1>6. PICK sent : sent = [persistToApp |-> <<e>>]
  OBVIOUS
<1>7. DOMAIN sent = {"persistToApp"} /\ sent["persistToApp"] = <<e>>
  BY <1>6
<1>8. Answers("appToPersist", sent) /\ torrentIds' = torrentIds \cup D
  BY <1>4, <1>5, <1>6 DEF PersistLoadTorrents
<1>9. /\ Shift("appToPersist", sent)
      /\ \A d : d \notin DOMAIN sent => Sent(sent, d) = <<>>
      /\ \A d, x : x \in Range(Sent(sent, d)) => d \in DOMAIN sent /\ sent[d] = <<x>>
  <2>1. Step("appToPersist", sent)
    BY <1>2, <1>3, <1>7, <1>8 DEF Step
  <2>2. QED
    BY <1>2, <2>1, StepMoves DEF Shift
<1>10. \A d, x : x \in Range(Sent(sent, d)) => d = "persistToApp" /\ x = e
  <2>1. \A x : <<x>> = <<e>> => x = e
    OBVIOUS
  <2>2. QED
    BY <1>7, <1>9, <2>1
<1>11. PICK k : k = <<"appToPersist", "LoadTorrents">>
  OBVIOUS
<1>12. PICK S : S = {<<"persistToApp", "AllTorrents">>}
  OBVIOUS
<1>13. ASSUME NEW g PROVE Frame(k, S, g)
  <2>1. \A d \in Channels : \A x \in Range(Sent(sent, d)) : <<d, x[1]>> \in S
    BY <1>5, <1>10, <1>12
  <2>2. Sent(sent, "appToPersist") = <<>>
    BY <1>2, <1>7, <1>9
  <2>3. Clear("appToPersist", sent, k, S, g)
    BY <1>2, <1>3, <1>11, <1>12, <2>1, <2>2 DEF Clear
  <2>4. QED
    BY <1>2, <1>9, <2>3, Framed
<1>14. UNCHANGED <<appVars, btmVars>> /\ UNCHANGED <<active, known, onDisk, db, history>>
  BY DEF PersistLoadTorrents
<1>15. e \in Range(q'["persistToApp"]) /\ e[2] = D
  <2>1. Sent(sent, "persistToApp") = <<e>> /\ e \in Range(<<e>>)
    BY <1>7, Single DEF Sent
  <2>2. \A x : x \in Range(Sent(sent, "persistToApp")) => x \in Range(q'["persistToApp"])
    BY <1>2, <1>9, Shifted
  <2>3. QED
    BY <1>5, <2>1, <2>2
<1>16. ASSUME NEW h \in Torrents, Sound(h), OneLife(h) PROVE Sound(h)' /\ (Tidy(h) => Tidy(h)')
  <2>1. Frame(k, S, h)
    BY <1>13
  <2>2. Have(h) \subseteq Have(h)' /\ onDisk[h] \subseteq onDisk'[h] /\ (h \in known' <=> h \in known)
    BY <1>11, <1>14, <2>1 DEF Frame, Have
  <2>3. Calm(h)
    BY <1>14, <2>2, Calms
  <2>4. h \notin torrentIds /\ Shown(h) = {}
    BY <1>3, <1>16, Exclusive
  <2>5. Current(h)'
    BY <1>8, <1>11, <1>12, <1>16, <2>1, <2>3, <2>4 DEF Frame, WayFrame, AheadFrame, Sound, Current, Calm
  <2>6. Prepared(h)'
    BY <1>11, <1>12, <1>16, <2>1, <2>2, <2>3 DEF Frame, WayFrame, Sound, Prepared, Calm
  <2>7. Populated(h)'
    <3>1. ~Stale(h)
      BY <1>3 DEF Stale
    <3>2. QED
      BY <1>11, <1>12, <1>16, <2>1, <2>2, <2>3, <3>1 DEF Frame, WayFrame, Sound, Populated, Tracked, Calm
  <2>8. Had(h)'
    BY <1>11, <1>12, <1>16, <2>1, <2>3 DEF Frame, WayFrame, Sound, Had, Calm
  <2>9. OnTheWay(h)'
    BY <1>11, <1>12, <1>14, <1>16, <2>1, <2>3 DEF Frame, WayFrame, Sound, OnTheWay, Tracked, Calm
  <2>10. h \in D => Carries("persistToApp", h)'
    BY <1>15, CarriesWhat
  <2>11. Registered(h)' /\ Agrees(h)'
    BY <1>8, <2>3, <2>4, <2>10 DEF Registered, Agrees, Calm
  <2>12. QED
    BY <2>3, <2>5, <2>6, <2>7, <2>8, <2>9, <2>11 DEF Sound, Tidy, Calm
<1>17. \A h \in Torrents : Each(h)'
  BY <1>14, <1>16, EachStep
<1>18. Backed'
  <2>1. \A g \in Torrents, x \in Pieces : Storing(g, x)' => Storing(g, x)
    BY <1>12, <1>13 DEF Frame
  <2>2. torrentIds' \subseteq DOMAIN db'
    BY <1>4, <1>8, <1>14 DEF Whole, Global, Backed
  <2>3. QED
    BY <1>14, <2>1, <2>2 DEF Whole, Global, Backed
<1>19. Loaded' /\ Held' /\ Mapped'
  <2>1. Mapped'
    BY <1>14, EntriesSame DEF Whole, Global
  <2>2. Held'
    BY <1>14 DEF btmVars, Whole, Global, Held
  <2>3. Loaded'
    BY <1>4, <1>8, <1>14 DEF Loaded
  <2>4. QED
    BY <2>1, <2>2, <2>3
<1>20. QED
  BY <1>17, <1>18, <1>19 DEF Whole, Global

(* Steps that only end a service or tell another to end. *)
LEMMA Ending ==
  ASSUME Inv, Whole, NEW c \in (Channels \ Loading) \cup {None}, NEW sent, Step(c, sent),
         c \in Channels => Head(q[c])[1] = "Shutdown",
         \A d \in DOMAIN sent : d \in Channels \ Loading /\ sent[d] = << <<"Shutdown">> >>,
         UNCHANGED <<appVars, btmVars, known, onDisk, persistVars, history>>, active' \subseteq active
  PROVE  Whole'
<1>1. /\ Shift(c, sent)
      /\ \A d : d \notin DOMAIN sent => Sent(sent, d) = <<>>
      /\ \A d, x : x \in Range(Sent(sent, d)) => d \in DOMAIN sent /\ sent[d] = <<x>>
  BY StepMoves DEF Shift, Inv, Typed
<1>2. PICK S : S = (Channels \ Loading) \X {"Shutdown"}
  OBVIOUS
<1>3. PICK k : k = <<c, "Shutdown">>
  OBVIOUS
<1>4. \A d, x : x \in Range(Sent(sent, d)) => <<d, x[1]>> \in S
  <2>1. ASSUME NEW d, NEW x \in Range(Sent(sent, d)) PROVE <<d, x[1]>> \in S
    <3>1. d \in Channels \ Loading /\ <<x>> = << <<"Shutdown">> >>
      BY <1>1
    <3>2. x = <<"Shutdown">>
      BY <3>1
    <3>3. x[1] = "Shutdown"
      BY <3>2
    <3>4. QED
      BY <1>2, <3>1, <3>3
  <2>2. QED
    BY <2>1
<1>5. Sent(sent, "appToPersist") = <<>> /\ Sent(sent, "persistToApp") = <<>> /\ c # "appToPersist" /\ c # "persistToApp"
  BY <1>1 DEF Loading, None
<1>6. ASSUME NEW g PROVE Frame(NoKind, {}, g)
  <2>1. Clear(c, sent, k, S, g)
    BY <1>3, <1>4, <1>5 DEF Clear
  <2>2. Frame(k, S, g)
    BY <1>1, <2>1, Framed DEF Inv, Typed
  <2>3. \A d, t : t # "Shutdown" => <<d, t>> \notin S /\ <<d, t>> # k
    BY <1>2, <1>3
  <2>4. QED
    BY <2>2, <2>3 DEF Frame, WayFrame, AheadFrame, NoKind, Reports
<1>7. ASSUME NEW g \in Torrents PROVE Each(g)'
  <2>1. SameBtm(g) /\ SameEntries(g) /\ SameStored(g)
    BY SameAppBtm DEF SameStored, persistVars
  <2>2. QED
    BY <1>6, <2>1, EachKeeps DEF Whole
<1>8. Mapped'
  BY EntriesSame DEF Whole, Global
<1>9. \A g \in Torrents : Each(g)' /\ \A p \in Pieces : Storing(g, p)' => Storing(g, p)
  BY <1>6, <1>7 DEF Frame
<1>10. QED
  BY <1>1, <1>5, <1>8, <1>9, AppStep

(* exit, ProcessShutdown, DiskShutdown and PersistShutdown. *)
LEMMA EndsKeep ==
  ASSUME Inv, Whole, exit \/ ProcessShutdown \/ DiskShutdown \/ PersistShutdown
  PROVE  Whole'
<1>1. /\ {"appToBtm", "btmToDisk", "btmToPersist"} \subseteq Channels \ Loading /\ None \notin Channels
  BY DEF Channels, Loading, None
<1>2. PICK e : e = <<"Shutdown">>
  OBVIOUS
<1>3. e \in EventsOf("appToBtm") /\ e \in EventsOf("btmToDisk") /\ e \in EventsOf("btmToPersist")
  BY <1>2, Made
<1>4. UNCHANGED <<appVars, btmVars, known, onDisk, persistVars, history>> /\ active' \subseteq active
  BY DEF exit, ProcessShutdown, DiskShutdown, PersistShutdown
<1>5. CASE exit
  <2>1. PICK sent : sent = [appToBtm |-> <<e>>]
    OBVIOUS
  <2>2. DOMAIN sent = {"appToBtm"} /\ sent["appToBtm"] = <<e>>
    BY <2>1, Records
  <2>3. Pushes(sent)
    BY <1>2, <1>5, <2>1 DEF exit
  <2>4. Step(None, sent)
    BY <1>1, <1>3, <2>2, <2>3 DEF Step
  <2>5. QED
    BY <1>1, <1>2, <1>4, <2>2, <2>4, Ending
<1>6. CASE ProcessShutdown
  <2>1. PICK sent : sent = [btmToPersist |-> <<e>>, btmToDisk |-> <<e>>]
    OBVIOUS
  <2>2. DOMAIN sent = {"btmToPersist", "btmToDisk"} /\ sent["btmToPersist"] = <<e>> /\ sent["btmToDisk"] = <<e>>
    BY <2>1
  <2>3. Takes("btm", "appToBtm", "Shutdown") /\ Answers("appToBtm", sent)
    BY <1>2, <1>6, <2>1 DEF ProcessShutdown
  <2>4. q["appToBtm"] # <<>> /\ Head(q["appToBtm"])[1] = "Shutdown"
    BY <1>1, <2>3, Taken
  <2>5. Step("appToBtm", sent)
    <3>1. "appToBtm" \notin DOMAIN sent
      BY <2>2
    <3>2. QED
      BY <1>1, <1>3, <2>2, <2>3, <2>4, <3>1 DEF Step
  <2>6. QED
    BY <1>1, <1>2, <1>4, <2>2, <2>4, <2>5, Ending
<1>7. CASE DiskShutdown \/ PersistShutdown
  <2>1. PICK s \in {"disk", "persist"}, c \in {"btmToDisk", "btmToPersist"} : Takes(s, c, "Shutdown") /\ Answers(c, Nothing)
    BY <1>7 DEF DiskShutdown, PersistShutdown
  <2>2. c \in Channels \ Loading
    BY <1>1
  <2>3. q[c] # <<>> /\ Head(q[c])[1] = "Shutdown"
    BY <2>1, <2>2, Taken
  <2>4. PICK sent : sent = Nothing
    OBVIOUS
  <2>5. DOMAIN sent = {}
    BY <2>4, Records
  <2>6. Step(c, sent)
    BY <2>1, <2>2, <2>3, <2>4, <2>5 DEF Step
  <2>7. QED
    BY <1>4, <2>2, <2>3, <2>5, <2>6, Ending
<1>8. QED
  BY <1>5, <1>6, <1>7

-------------------------------------------------------------------------------
(* Start, exception and restart, and the theorems. *)

(* A process that has just been started or has ended, with what is left on *)
(* disk.                                                                   *)
Blank ==
    /\ Fresh /\ torrents = Empty /\ pieceMan = Empty /\ announced = {} /\ known = {}
    /\ onDisk \in [Torrents -> SUBSET Pieces]
    /\ \A h \in Torrents : h \in DOMAIN db => db[h] \subseteq onDisk[h]
    /\ "persist" \in active => q["appToPersist"] # <<>>

(* It satisfies the invariant. *)
LEMMA BlankWhole ==
  ASSUME Blank
  PROVE  Whole
<1>1. {"appToBtm", "btmToApp", "btmToPersist", "persistToBtm", "btmToDisk", "diskToBtm", "persistToApp"}
      = Channels \ {"appToPersist"}
  BY DEF Channels
<1>2. \A d \in Channels \ {"appToPersist"} : q[d] = <<>>
  BY DEF Blank, Fresh
<1>3. Range(<<>>) = {} /\ Len(<<>>) = 0
  BY DEF Range
<1>4. \A d \in Channels \ {"appToPersist"} : Range(q[d]) = {}
  BY <1>2, <1>3
<1>5. \A d \in Channels \ {"appToPersist"} : \A t, h : ~Way(d, t, h)
  BY <1>4 DEF Way
<1>6. \A d \in Channels \ {"appToPersist"} : \A t, u, h : Ahead(d, t, u, h)
  BY <1>2, <1>3 DEF Ahead, NoneBefore
<1>7. /\ DOMAIN idTorrentMap = {} /\ DOMAIN hashToIdMap = {} /\ DOMAIN torrents = {} /\ DOMAIN pieceMan = {}
      /\ announced = {} /\ torrentIds = {}
  BY DEF Blank, Fresh, Empty
<1>8. \A h : Shown(h) = {}
  BY <1>7 DEF Shown
<1>9. \A h, p : ~Storing(h, p)
  BY <1>1, <1>4 DEF Storing
<1>10. \A h : ~PiecesWay(h) /\ Covered(h) /\ Prefixed(h)
  <2>1. \A h : ~PiecesWay(h) /\ Covered(h)
    BY <1>1, <1>4 DEF PiecesWay, Covered
  <2>2. \A h : Prefixed(h)
    BY <1>1, <1>2, <1>3 DEF Prefixed, SomeBefore
  <2>3. QED
    BY <2>1, <2>2
<1>11. Global
  <2>1. Backed
    BY <1>7, <1>9 DEF Blank, Backed
  <2>2. Mapped /\ Held
    BY <1>7 DEF Mapped, Held
  <2>3. Loaded
    BY DEF Blank, Loaded
  <2>4. QED
    BY <2>1, <2>2, <2>3 DEF Global
<1>12. ASSUME NEW h \in Torrents PROVE Each(h)
  <2>1. ~Known(h) /\ ~Undone(h) /\ ~IsComplete(h) /\ ~ShownDone(h)
    BY <1>7, <1>8 DEF Known, Undone, IsComplete, ShownDone
  <2>2. Current(h)
    BY <1>1, <1>5, <1>6, <2>1 DEF Current
  <2>3. Prepared(h)
    BY <1>1, <1>5, <1>10, <2>1 DEF Prepared
  <2>4. Populated(h)
    BY <1>1, <1>5, <1>7, <1>10 DEF Populated, Tracked
  <2>5. Had(h) /\ OnTheWay(h)
    BY <1>1, <1>5, <2>1 DEF Had, OnTheWay
  <2>6. Registered(h) /\ MapsTo(h) /\ Agrees(h)
    BY <1>7, <1>8 DEF Registered, MapsTo, Agrees
  <2>7. QED
    BY <2>2, <2>3, <2>4, <2>5, <2>6 DEF Each, Sound, Tidy
<1>13. QED
  BY <1>11, <1>12 DEF Whole

(* The start, the exception and every restart. *)
LEMMA BlankStarts ==
  /\ Init => Whole
  /\ Inv /\ Whole /\ (PersistThrows \/ Restart) => Whole'
<1>1. ASSUME Init PROVE Whole
  <2>1. DOMAIN db = {} /\ IsFiniteSet({})
    BY <1>1, FS_EmptySet DEF Init, Empty
  <2>2. Fresh
    BY <1>1, <2>1 DEF Init, Fresh, Started, Channels
  <2>3. q["appToPersist"] # <<>>
    BY <1>1 DEF Init, Started, Channels
  <2>4. Blank
    BY <1>1, <2>1, <2>2, <2>3 DEF Init, Blank
  <2>5. QED
    BY <2>4, BlankWhole
<1>2. ASSUME Inv, Whole, PersistThrows \/ Restart PROVE Whole'
  <2>1. /\ DOMAIN db \subseteq Hashes /\ IsFiniteSet(DOMAIN db) /\ db' = db /\ onDisk' = onDisk
        /\ onDisk \in [Torrents -> SUBSET Pieces]
        /\ \A h \in Torrents : h \in DOMAIN db => db[h] \subseteq onDisk[h]
    BY <1>2 DEF Inv, Typed, EntriesTyped, PersistThrows, Restart, Whole, Global, Backed
  <2>2. Blank'
    <3>1. CASE Restart
      <4>1. q'["appToPersist"] # <<>>
        BY <3>1 DEF Restart, Started, Channels
      <4>2. Fresh'
        BY <2>1, <3>1 DEF Fresh, Restart, MemoryLost, Started, Channels
      <4>3. QED
        BY <2>1, <3>1, <4>1, <4>2 DEF Blank, Restart, MemoryLost
    <3>2. CASE PersistThrows
      <4>1. Fresh'
        BY <2>1, <3>2 DEF Fresh, PersistThrows, MemoryLost, Channels
      <4>2. QED
        BY <2>1, <3>2, <4>1 DEF Blank, PersistThrows, MemoryLost
    <3>3. QED
      BY <1>2, <3>1, <3>2
  <2>3. Blank' => Whole'
    BY BlankWhole, PTL
  <2>4. QED
    BY <2>2, <2>3
<1>3. QED
  BY <1>1, <1>2

(* Every step keeps the invariant. *)
LEMMA WholeStep ==
  ASSUME Inv, Whole, [Next]_vars
  PROVE  Whole'
<1>1. CASE User
  <2>1. CASE \/ \E h \in Torrents : addTorrent(h)
             \/ \E id \in DOMAIN idTorrentMap : stopTorrent(id) \/ resumeTorrent(id)
    BY <2>1, CommandKeeps
  <2>2. CASE \E id \in DOMAIN idTorrentMap : removeTorrent(id)
    BY <2>2, RemoveCommandKeeps
  <2>3. CASE exit
    BY <2>3, EndsKeep
  <2>4. QED
    BY <1>1, <2>1, <2>2, <2>3 DEF User
<1>2. CASE App
  BY <1>2, NewKeep, StateKeeps, OnlyShownKeeps DEF App
<1>3. CASE BtmApp
  BY <1>3, AddKeeps, StartKeeps, StopKeeps, ResumeKeeps, RemoveKeeps, EndsKeep DEF BtmApp
<1>4. CASE BtmDisk
  BY <1>4, AddKeeps, InitializedKeeps, WriteSuccessKeeps DEF BtmDisk
<1>5. CASE BtmPersist
  BY <1>5, AddedKeeps, AddKeeps, PiecesKeep, TrackersKeep DEF BtmPersist
<1>6. CASE Peers
  <2>1. PICK h \in Torrents : NothingMissing(h) \/ \E p \in Pieces : PieceFinished(h, p)
    BY <1>6 DEF Peers
  <2>2. CASE NothingMissing(h)
    BY <2>2, NothingMissingKeeps
  <2>3. CASE \E p \in Pieces : PieceFinished(h, p)
    BY <2>3, PieceFinishedKeeps
  <2>4. QED
    BY <2>1, <2>2, <2>3
<1>7. CASE Disk
  BY <1>7, DiskReadKeeps, DiskInitKeeps, DiskWriteKeeps, EndsKeep DEF Disk
<1>8. CASE PersistBtm
  <2>1. CASE PersistAdd
    BY <2>1, ExistsKeeps, PersistAddKeeps
  <2>2. QED
    BY <1>8, <2>1, PersistRemoveKeeps, PieceCompleteKeeps, LoadPiecesKeep, LoadTrackersKeep, EndsKeep DEF PersistBtm
<1>9. CASE PersistLoadTorrents
  BY <1>9, LoadTorrentsKeep
<1>10. CASE PersistThrows \/ Restart
  BY <1>10, BlankStarts
<1>11. CASE UNCHANGED vars
  <2>1. /\ UNCHANGED <<appVars, btmVars>> /\ UNCHANGED <<q, active, known, onDisk, persistVars, history>>
    BY <1>11 DEF vars
  <2>2. ASSUME NEW h PROVE Frame(NoKind, {}, h)
    <3>1. /\ \A d, t : Way(d, t, h)' <=> Way(d, t, h)
          /\ \A d, t, u : Ahead(d, t, u, h)' <=> Ahead(d, t, u, h)
          /\ \A t : Latest(t, h)' <=> Latest(t, h)
          /\ Carries("persistToApp", h)' <=> Carries("persistToApp", h)
      BY <2>1, CarriesWhat DEF Way, Ahead, Latest
    <3>2. /\ PiecesWay(h)' <=> PiecesWay(h)
          /\ Covered(h)' <=> Covered(h)
          /\ Prefixed(h)' <=> Prefixed(h)
          /\ Writing(h)' = Writing(h)
          /\ \A p : Storing(h, p)' <=> Storing(h, p)
      BY <2>1 DEF PiecesWay, Covered, Prefixed, Writing, Storing
    <3>3. QED
      BY <2>1, <3>1, <3>2 DEF Frame, WayFrame, AheadFrame
  <2>3. ASSUME NEW h \in Torrents PROVE Each(h)'
    <3>1. SameBtm(h) /\ SameEntries(h) /\ SameStored(h)
      BY <2>1, SameAppBtm DEF SameStored, persistVars
    <3>2. QED
      BY <2>1, <2>2, <3>1, EachKeeps DEF Whole
  <2>4. Global'
    <3>1. Mapped'
      BY <2>1, EntriesSame DEF Whole, Global
    <3>2. Backed' /\ Loaded' /\ Held'
      BY <2>1 DEF Whole, Global, Backed, Loaded, Held, Storing, btmVars, persistVars
    <3>3. QED
      BY <3>1, <3>2 DEF Global
  <2>5. QED
    BY <2>3, <2>4 DEF Whole
<1>12. QED
  BY <1>1, <1>2, <1>3, <1>4, <1>5, <1>6, <1>7, <1>8, <1>9, <1>10, <1>11 DEF Next

(* The invariant holds always, whatever the user, the services, the peers, *)
(* a failure of the database and restarts do, in any order: what the       *)
(* database and the reports on their way say of a torrent is in its files, *)
(* or the pieces are in the queue to the disk service, which knows the     *)
(* torrent by then; and the last report about a torrent is its state.      *)
THEOREM WholeInvariant == Spec => [](Inv /\ Whole)
<1>1. Init => Inv /\ Whole
  BY Restarts, BlankStarts
<1>2. Inv /\ Whole /\ [Next]_vars => Inv' /\ Whole'
  BY InvStep, WholeStep
<1>3. QED
  BY <1>1, <1>2, PTL DEF Spec

(* A torrent that the display shows as completed has every piece in its    *)
(* files or in the queue to the disk service, through stops, resumes,      *)
(* removals, additions and restarts, for any torrents and pieces: neither  *)
(* isComplete nor what loadPieces answers from the database is ahead of    *)
(* the data.  The exceptions are those of the property: a torrent that was *)
(* removed while it was prepared, and one that is listed twice.            *)
THEOREM CompletionShownIsStored == Spec => []ShownCompleteIsStored
<1>1. ASSUME Whole PROVE ShownCompleteIsStored
  <2>1. SUFFICES ASSUME NEW h \in Torrents, NEW id \in Shown(h), idTorrentMap[id].state = "Completed",
                        ~Unexpected({"late", "early"}, h)
                 PROVE  Pieces \subseteq onDisk[h] \cup Writing(h)
    BY DEF ShownCompleteIsStored
  <2>2. Had(h)
    BY <1>1, <2>1 DEF Whole, Each, Sound, Spoilt
  <2>3. ShownDone(h)
    BY <2>1 DEF ShownDone
  <2>4. QED
    BY <2>2, <2>3 DEF Had, Have
<1>2. QED
  BY <1>1, WholeInvariant, PTL

(* When nothing is on its way, a torrent has the entry of its state. *)
LEMMA QuietFits ==
  ASSUME Inv, Whole, Quiet, NEW h \in Torrents, ~Muddled(h)
  PROVE  /\ Shown(h) # {} <=> h \in DOMAIN db
         /\ \A i, j \in Shown(h) : i = j
         /\ AllFit(h)
         /\ Undone(h) => h \in announced \/ <<"silent", h>> \in history
<1>1. ~Spoilt(h) /\ ~Early(h)
  BY DEF Spoilt, Muddled, Unexpected, Early
<1>2. Sound(h) /\ Tidy(h) /\ OneLife(h) /\ Global
  BY <1>1 DEF Whole, Each, Inv, Lives
<1>3. {"appToBtm", "btmToApp", "btmToPersist", "persistToBtm", "btmToDisk", "diskToBtm", "persistToApp",
       "appToPersist"} = Channels
  BY DEF Channels
<1>4. Range(<<>>) = {}
  BY DEF Range
<1>5. \A d \in Channels : q[d] = <<>> /\ Range(q[d]) = {}
  BY <1>4 DEF Quiet
<1>6. \A d \in Channels : \A t : ~Way(d, t, h)
  BY <1>5 DEF Way
<1>7. ~PiecesWay(h) /\ ~Tracked(h)
  BY <1>3, <1>5, <1>6 DEF PiecesWay, Tracked
<1>8. ~Carries("persistToApp", h)
  BY <1>3, <1>5, CarriesWhat
<1>9. Undone(h) => h \in announced \/ <<"silent", h>> \in history
  BY <1>2, <1>3, <1>6, <1>7 DEF Sound, OnTheWay
<1>10. DOMAIN db = torrentIds
  <2>1. "persist" \in active /\ q["appToPersist"] = <<>>
    BY <1>3, <1>5 DEF Quiet, Services
  <2>2. QED
    BY <1>2, <2>1 DEF Global, Loaded, Backed
<1>11. h \in torrentIds => Shown(h) # {}
  BY <1>2, <1>3, <1>6, <1>8 DEF Tidy, Registered
<1>12. Shown(h) # {} => h \in torrentIds
  BY <1>2, CarriesWhat DEF OneLife, Places
<1>13. AllFit(h)
  <2>1. Unreported(h) /\ ~Way("appToBtm", "Start", h)
    BY <1>3, <1>6 DEF Unreported
  <2>2. Shown(h) # {} => AllFit(h)
    BY <1>2, <2>1 DEF Tidy, Agrees
  <2>3. QED
    BY <2>2 DEF AllFit
<1>14. QED
  BY <1>2, <1>9, <1>10, <1>11, <1>12, <1>13 DEF OneLife

(* When every event has been handled, TorrentController, BitTorrentManager *)
(* and the database agree on every torrent to which nothing unexpected has *)
(* happened: it has one entry if it is stored and none if it is not, and   *)
(* the state of the entry, which only the reports of BitTorrentManager     *)
(* set, is the one that the torrent has there; one that runs has got as    *)
(* far as its trackers, or the disk service did not answer InitTorrent.    *)
THEOREM QuietStatesAgree == Spec => []QuietAgrees
<1>1. ASSUME Inv, Whole PROVE QuietAgrees
  <2>1. SUFFICES ASSUME Quiet, NEW h \in Torrents, ~Muddled(h)
                 PROVE  /\ Cardinality(Shown(h)) = IF h \in DOMAIN db THEN 1 ELSE 0
                        /\ \A id \in Shown(h) :
                              /\ h \in DOMAIN torrents \cap DOMAIN pieceMan
                              /\ CASE idTorrentMap[id].state = "Running" ->
                                         /\ pieceMan[h].active /\ ~torrents[h]
                                         /\ h \in announced \/ Unexpected({"silent"}, h)
                                   [] idTorrentMap[id].state = "Stopped" -> ~pieceMan[h].active
                                   [] idTorrentMap[id].state = "Completed" -> torrents[h]
    BY DEF QuietAgrees, Muddled
  <2>2. /\ Shown(h) # {} <=> h \in DOMAIN db
        /\ \A i, j \in Shown(h) : i = j
        /\ AllFit(h)
        /\ Undone(h) => h \in announced \/ <<"silent", h>> \in history
    BY <1>1, <2>1, QuietFits
  <2>3. DOMAIN torrents \subseteq DOMAIN pieceMan
    BY <1>1 DEF Whole, Global, Held
  <2>4. Cardinality(Shown(h)) = IF h \in DOMAIN db THEN 1 ELSE 0
    <3>1. CASE Shown(h) = {}
      BY <2>2, <3>1, FS_EmptySet
    <3>2. CASE Shown(h) # {}
      <4>1. PICK id : id \in Shown(h)
        BY <3>2
      <4>2. Shown(h) = {id}
        BY <2>2, <4>1
      <4>3. Cardinality({id}) = 1
        BY FS_Singleton
      <4>4. QED
        BY <2>2, <3>2, <4>2, <4>3
    <3>3. QED
      BY <3>1, <3>2
  <2>5. ASSUME NEW id \in Shown(h)
        PROVE  /\ h \in DOMAIN torrents \cap DOMAIN pieceMan
               /\ CASE idTorrentMap[id].state = "Running" ->
                          /\ pieceMan[h].active /\ ~torrents[h]
                          /\ h \in announced \/ Unexpected({"silent"}, h)
                    [] idTorrentMap[id].state = "Stopped" -> ~pieceMan[h].active
                    [] idTorrentMap[id].state = "Completed" -> torrents[h]
    <3>1. PICK state : state = idTorrentMap[id].state
      OBVIOUS
    <3>2. Fits(state, h)
      BY <2>2, <2>5, <3>1 DEF AllFit
    <3>3. h \in DOMAIN torrents \cap DOMAIN pieceMan
      BY <2>3, <3>2 DEF Fits, Undone, Known, IsComplete
    <3>4. "Running" # "Stopped" /\ "Running" # "Completed" /\ "Stopped" # "Completed"
      OBVIOUS
    <3>5. CASE state = "Running"
      <4>1. Undone(h) /\ Active(h)
        BY <3>2, <3>4, <3>5 DEF Fits
      <4>2. pieceMan[h].active /\ ~torrents[h] /\ (h \in announced \/ Unexpected({"silent"}, h))
        BY <2>2, <4>1 DEF Undone, Active, Unexpected
      <4>3. QED
        BY <3>1, <3>3, <3>4, <3>5, <4>2, Zenon
    <3>6. CASE state = "Stopped"
      <4>1. Known(h) /\ ~Active(h)
        BY <3>2, <3>4, <3>6 DEF Fits
      <4>2. ~pieceMan[h].active
        BY <3>3, <4>1 DEF Active
      <4>3. QED
        BY <3>1, <3>3, <3>4, <3>6, <4>2, Zenon
    <3>7. CASE state = "Completed"
      <4>1. torrents[h]
        BY <3>2, <3>4, <3>7 DEF Fits, IsComplete
      <4>2. QED
        BY <3>1, <3>3, <3>4, <3>7, <4>1, Zenon
    <3>8. QED
      BY <3>2, <3>5, <3>6, <3>7 DEF Fits
  <2>6. QED
    BY <2>4, <2>5
<1>2. QED
  BY <1>1, WholeInvariant, PTL
===============================================================================
