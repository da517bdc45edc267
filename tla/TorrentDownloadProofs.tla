------------------------ MODULE TorrentDownloadProofs ------------------------
(***************************************************************************)
(* A download loses nothing and claims nothing it does not have, for every *)
(* number of peers, pieces, blocks, faults and events on their way.        *)
(*                                                                         *)
(* The properties are not inductive one by one.  Safe joins them with what *)
(* the queues promise: what has passed the disk service is in the files or *)
(* its write has failed, what the persist service has answered is in the   *)
(* database, and nobody connects before the pieces are known.              *)
(***************************************************************************)
EXTENDS TorrentDownload, TLAPS

Data == Seq({"good", "bad"})
Write == [piece : Pieces, data : Data]
PersistRequest == [type : {"LoadPieces"}] \cup [type : {"PieceComplete"}, piece : Pieces]

(* The events of a queue, and the parts of Underway, one for each queue. *)
Elems(s) == {s[k] : k \in 1 .. Len(s)}
Writing == {w.piece : w \in Elems(toDisk)}
Written == Elems(fromDisk)
Storing == {r.piece : r \in {q \in Elems(toPersist) : q.type = "PieceComplete"}}

(* What has passed the disk service is in the files, or its write failed. *)
WrittenIsOnDisk == Written \cup Storing \subseteq onDisk \cup unwritten

(* The persist service answers with pieces that the database has. *)
LoadedIsStored == \A done \in Elems(fromPersist) : done \subseteq stored

(* Peers are only asked for after the first populate. *)
ConnectedIsPopulated == connections # {} => populated

Typed == TypeOK /\ BufferBelowPiece
Safe == /\ StoredIsOnDisk /\ WrittenIsOnDisk
        /\ LoadedIsStored /\ ConnectedIsPopulated
        /\ NothingForgotten /\ CompleteIsComplete

------------------------------------------------------------------------------
(* Operators. *)

(* Requests are the pairs of a piece and the index of one of its blocks. *)
LEMMA RequestsAre ==
  /\ \A i \in Pieces, n \in Nat : n < NumBlocks[i] => <<i, n>> \in Requests
  /\ \A req \in Requests : req[1] \in Pieces /\ req[2] \in Nat
<1>1. \A i \in Pieces, n \in Nat : n < NumBlocks[i] => <<i, n>> \in {i} \X (0 .. NumBlocks[i] - 1)
  BY PiecesAssumption
<1>2. ASSUME NEW req \in Requests PROVE req[1] \in Pieces /\ req[2] \in Nat
  <2>1. PICK i \in Pieces : req \in {i} \X (0 .. NumBlocks[i] - 1)
    BY DEF Requests
  <2>2. QED
    BY <2>1, PiecesAssumption
<1>3. QED
  BY <1>1, <1>2 DEF Requests

(* requestNextPiece: the request it makes is for the next block of a piece,  *)
(* and it answers COMPLETE only when the torrent wants no piece any more.   *)
LEMMA NextRequest ==
  ASSUME NEW have \in SUBSET Pieces, NEW avail \in SUBSET Pieces, NEW data \in [Pieces -> Data],
         NEW choking \in BOOLEAN, \A i \in Pieces : Len(data[i]) < NumBlocks[i],
         NEW r \in RequestNextPiece(have, avail, data, choking)
  PROVE  /\ r.requests \subseteq Requests
         /\ r.state \in {"OPEN", "CLOSED", "COMPLETE"}
         /\ r.state = "COMPLETE" => avail = {}
<1>1. CASE active /\ have \cap avail # {}
  <2>1. PICK i \in have \cap avail :
           r = [state |-> "OPEN", requests |-> IF choking THEN {} ELSE {<<i, Len(data[i])>>}]
    BY <1>1 DEF RequestNextPiece
  <2>2. <<i, Len(data[i])>> \in Requests
    BY RequestsAre, PiecesAssumption DEF Data
  <2>3. QED
    BY <2>1, <2>2
<1>2. CASE ~(active /\ have \cap avail # {})
  BY <1>2 DEF RequestNextPiece
<1>3. QED
  BY <1>1, <1>2

(* Appending an event to a queue, or a block to a buffer. *)
LEMMA AppendElems == ASSUME NEW S, NEW s \in Seq(S), NEW e \in S
                     PROVE  /\ Append(s, e) \in Seq(S) /\ Len(Append(s, e)) = Len(s) + 1
                            /\ Elems(Append(s, e)) = Elems(s) \cup {e}
<1>1. /\ Append(s, e) \in Seq(S) /\ Len(Append(s, e)) = Len(s) + 1
      /\ \A k \in 1 .. Len(s) : Append(s, e)[k] = s[k]
      /\ Append(s, e)[Len(s) + 1] = e
  OBVIOUS
<1>2. 1 .. Len(s) + 1 = (1 .. Len(s)) \cup {Len(s) + 1}
  OBVIOUS
<1>3. QED
  BY <1>1, <1>2 DEF Elems

(* Taking the first event off a queue leaves the others. *)
LEMMA TailElems == ASSUME NEW S, NEW s \in Seq(S), s # <<>>
                   PROVE  /\ Tail(s) \in Seq(S) /\ Head(s) \in S
                          /\ Elems(s) = {Head(s)} \cup Elems(Tail(s))
<1>1. /\ Tail(s) \in Seq(S) /\ Head(s) \in S /\ Head(s) = s[1]
      /\ Len(s) \in Nat \ {0} /\ Len(Tail(s)) = Len(s) - 1
      /\ \A k \in 1 .. Len(s) - 1 : Tail(s)[k] = s[k + 1]
  OBVIOUS
<1>2. ASSUME NEW k \in 1 .. Len(s), k # 1 PROVE s[k] \in Elems(Tail(s))
  <2>1. k - 1 \in 1 .. Len(s) - 1 /\ (k - 1) + 1 = k
    BY <1>1, <1>2
  <2>2. Tail(s)[k - 1] = s[k]
    BY <1>1, <2>1
  <2>3. QED
    BY <1>1, <2>1, <2>2 DEF Elems
<1>3. ASSUME NEW k \in 1 .. Len(Tail(s)) PROVE Tail(s)[k] \in Elems(s)
  <2>1. k + 1 \in 1 .. Len(s)
    BY <1>1
  <2>2. QED
    BY <1>1, <2>1 DEF Elems
<1>4. 1 \in 1 .. Len(s)
  BY <1>1
<1>5. QED
  BY <1>1, <1>2, <1>3, <1>4 DEF Elems

(* An empty queue has no events. *)
LEMMA EmptyElems == Elems(<<>>) = {}
BY DEF Elems

(* handleMessage asks connected peers to leave, and completes the torrent   *)
(* only on COMPLETE.                                                        *)
LEMMA StateHandled ==
  ASSUME TypeOK, NEW p \in connections, NEW state, HandleState(p, state)
  PROVE  /\ leaving' \subseteq connections /\ isComplete' \in BOOLEAN
         /\ isComplete' => isComplete \/ state = "COMPLETE"
<1>1. CASE UNCHANGED <<leaving, isComplete>>
  BY <1>1 DEF TypeOK
<1>2. CASE leaving' = leaving \cup {p} /\ UNCHANGED isComplete
  BY <1>2 DEF TypeOK
<1>3. CASE state = "COMPLETE" /\ UpdateTorrentCompleted({p})
  <2>1. isComplete' = TRUE /\ state = "COMPLETE"
    BY <1>3 DEF UpdateTorrentCompleted
  <2>2. leaving' \subseteq connections
    BY <1>3 DEF UpdateTorrentCompleted, TypeOK
  <2>3. QED
    BY <2>1, <2>2
<1>4. QED
  BY <1>1, <1>2, <1>3 DEF HandleState

------------------------------------------------------------------------------
(* Types and buffers. *)

(* The first state has the types and empty buffers. *)
LEMMA TypedInit == Init => Typed
<1> SUFFICES ASSUME Init PROVE Typed
  OBVIOUS
<1>1. toPersist \in Seq(PersistRequest)
  <2>1. LoadRequest \in PersistRequest
    BY DEF LoadRequest, PersistRequest
  <2>2. QED
    BY <2>1 DEF Init
<1>2. BufferBelowPiece
  BY PiecesAssumption DEF Init, BufferBelowPiece
<1>3. /\ populated \in BOOLEAN /\ active \in BOOLEAN /\ isComplete \in BOOLEAN
      /\ mPeerChoking \in [Peers -> BOOLEAN] /\ mAmInterested \in [Peers -> BOOLEAN]
  BY DEF Init
<1>4. /\ mPieceData \in [Pieces -> Data] /\ availablePieces \in [Peers -> SUBSET Pieces]
      /\ requested \in [Peers -> SUBSET Requests]
  BY DEF Init, Data
<1>5. /\ toDisk \in Seq(Write) /\ fromDisk \in Seq(Pieces) /\ fromPersist \in Seq(SUBSET Pieces)
      /\ faults \in 0 .. MaxFaults
  BY PeersAssumption DEF Init
<1>6. TypeOK
  BY <1>1, <1>3, <1>4, <1>5 DEF Init, TypeOK, PersistRequest, Data, Write
<1>7. QED
  BY <1>2, <1>6 DEF Typed

(* A block that arrives is the next one of its piece, which it may fill, or *)
(* the buffer is left alone: in all cases what the peer is asked next is a  *)
(* block that the piece has.                                                *)
LEMMA TypedPiece ==
  ASSUME Typed, NEW p \in Peers, PieceArrives(p)
  PROVE  Typed'
<1> USE PiecesAssumption, PeersAssumption
<1>0. TypeOK /\ BufferBelowPiece
  BY DEF Typed
<1>1. PICK req \in requested[p], again \in BOOLEAN :
         \/ ReceivesOtherBlock(p, req, again)
         \/ \E block \in Blocks(p) : \/ ReceivesBlock(p, req, again, block)
                                     \/ CompletesPiece(p, req, again, block)
                                     \/ FailsHashCheck(p, req, again, block)
  BY DEF PieceArrives
<1> DEFINE i == req[1]
<1>2. /\ i \in Pieces /\ req[2] \in Nat /\ p \in connections
      /\ StillOpen(p, req, again) \subseteq Requests
      /\ mPieceData[i] \in Data
  BY <1>0, <1>1, RequestsAre
     DEF TypeOK, StillOpen, Data, ReceivesOtherBlock, ReceivesBlock, CompletesPiece,
         FailsHashCheck, Answers
<1>3. \A block \in Blocks(p) : block \in {"good", "bad"}
  BY DEF Blocks
<1>4. Answers(p, req, again) => faults' \in 0 .. MaxFaults
  BY <1>0 DEF Answers, TypeOK
<1>5. CASE ReceivesOtherBlock(p, req, again)
  <2>1. PICK r \in RequestNextPiece(availablePieces[p], mAvailable, mPieceData, mPeerChoking[p]) :
          /\ requested' = [requested EXCEPT ![p] = StillOpen(p, req, again) \cup r.requests]
          /\ HandleState(p, r.state)
    BY <1>5 DEF ReceivesOtherBlock
  <2>2. r.requests \subseteq Requests
    <3>1. /\ availablePieces[p] \in SUBSET Pieces /\ mAvailable \in SUBSET Pieces
          /\ mPieceData \in [Pieces -> Data] /\ mPeerChoking[p] \in BOOLEAN
          /\ \A k \in Pieces : Len(mPieceData[k]) < NumBlocks[k]
      BY <1>0 DEF TypeOK, BufferBelowPiece, Data
    <3>2. QED
      BY <3>1, NextRequest
  <2>3. requested' \in [Peers -> SUBSET Requests]
    BY <1>0, <1>2, <2>1, <2>2 DEF TypeOK
  <2>4. leaving' \subseteq connections /\ isComplete' \in BOOLEAN
    BY <1>0, <1>2, <2>1, StateHandled
  <2>5. QED
    BY <1>0, <1>4, <1>5, <2>3, <2>4
       DEF ReceivesOtherBlock, Typed, TypeOK, BufferBelowPiece, psmVars, queueVars, fileVars
<1>6. ASSUME NEW block \in Blocks(p), ReceivesBlock(p, req, again, block)
      PROVE  Typed'
  <2> DEFINE data == Append(mPieceData[i], block)
  <2>1. /\ mPieceData' = [mPieceData EXCEPT ![i] = data]
        /\ \E r \in RequestNextPiece(availablePieces[p], mAvailable, mPieceData', mPeerChoking[p]) :
              /\ requested' = [requested EXCEPT ![p] = StillOpen(p, req, again) \cup r.requests]
              /\ HandleState(p, r.state)
        /\ Len(data) # NumBlocks[i]
    BY <1>6 DEF ReceivesBlock, Full
  <2>2. data \in Data /\ Len(data) = Len(mPieceData[i]) + 1
    BY <1>2, <1>3, AppendElems DEF Data
  <2>3. /\ mPieceData' \in [Pieces -> Data]
        /\ \A k \in Pieces : Len(mPieceData'[k]) < NumBlocks[k]
    BY <1>0, <1>2, <2>1, <2>2 DEF TypeOK, BufferBelowPiece, Data
  <2>4. PICK r \in RequestNextPiece(availablePieces[p], mAvailable, mPieceData', mPeerChoking[p]) :
          /\ requested' = [requested EXCEPT ![p] = StillOpen(p, req, again) \cup r.requests]
          /\ HandleState(p, r.state)
    BY <2>1
  <2>5. r.requests \subseteq Requests
    <3>1. availablePieces[p] \in SUBSET Pieces /\ mAvailable \in SUBSET Pieces
          /\ mPeerChoking[p] \in BOOLEAN
      BY <1>0 DEF TypeOK
    <3>2. QED
      BY <2>3, <3>1, NextRequest
  <2>6. requested' \in [Peers -> SUBSET Requests]
    BY <1>0, <1>2, <2>4, <2>5 DEF TypeOK
  <2>7. leaving' \subseteq connections /\ isComplete' \in BOOLEAN
    BY <1>0, <1>2, <2>4, StateHandled
  <2>8. QED
    BY <1>0, <1>4, <1>6, <2>3, <2>6, <2>7
       DEF ReceivesBlock, Typed, TypeOK, BufferBelowPiece, queueVars, fileVars, Data
<1>7. ASSUME NEW block \in Blocks(p), CompletesPiece(p, req, again, block)
      PROVE  Typed'
  <2> DEFINE data == Append(mPieceData[i], block)
  <2>1. /\ mPieceData' = [mPieceData EXCEPT ![i] = <<>>]
        /\ mAvailable' = mAvailable \ {i}
        /\ mCompletedPieces' = mCompletedPieces \cup {i}
        /\ availablePieces' = [availablePieces EXCEPT ![p] = @ \ {i}]
        /\ toDisk' = Append(toDisk, [piece |-> i, data |-> data])
        /\ \E r \in RequestNextPiece(availablePieces'[p], mAvailable', mPieceData', mPeerChoking[p]) :
              /\ requested' = [requested EXCEPT ![p] = StillOpen(p, req, again) \cup r.requests]
              /\ HandleState(p, r.state)
    BY <1>7 DEF CompletesPiece
  <2>2. data \in Data
    BY <1>2, <1>3, AppendElems DEF Data
  <2>3. toDisk' \in Seq(Write)
    <3>1. [piece |-> i, data |-> data] \in Write /\ toDisk \in Seq(Write)
      BY <1>0, <1>2, <2>2 DEF TypeOK, Write, Data
    <3>2. QED
      BY <2>1, <3>1, AppendElems
  <2>4. /\ mPieceData' \in [Pieces -> Data]
        /\ \A k \in Pieces : Len(mPieceData'[k]) < NumBlocks[k]
    BY <1>0, <1>2, <2>1 DEF TypeOK, BufferBelowPiece, Data
  <2>5. /\ mAvailable' \in SUBSET Pieces /\ mCompletedPieces' \in SUBSET Pieces
        /\ availablePieces' \in [Peers -> SUBSET Pieces]
    BY <1>0, <1>2, <2>1 DEF TypeOK
  <2>6. PICK r \in RequestNextPiece(availablePieces'[p], mAvailable', mPieceData', mPeerChoking[p]) :
          /\ requested' = [requested EXCEPT ![p] = StillOpen(p, req, again) \cup r.requests]
          /\ HandleState(p, r.state)
    BY <2>1
  <2>7. r.requests \subseteq Requests
    <3>1. availablePieces'[p] \in SUBSET Pieces /\ mPeerChoking[p] \in BOOLEAN
      BY <1>0, <2>5 DEF TypeOK
    <3>2. QED
      BY <2>4, <2>5, <3>1, NextRequest
  <2>8. requested' \in [Peers -> SUBSET Requests]
    BY <1>0, <1>2, <2>6, <2>7 DEF TypeOK
  <2>9. leaving' \subseteq connections /\ isComplete' \in BOOLEAN
    BY <1>0, <1>2, <2>6, StateHandled
  <2>10. QED
    BY <1>0, <1>4, <1>7, <2>3, <2>4, <2>5, <2>8, <2>9
       DEF CompletesPiece, Typed, TypeOK, BufferBelowPiece, fileVars, Data, Write
<1>8. ASSUME NEW block \in Blocks(p), FailsHashCheck(p, req, again, block)
      PROVE  Typed'
  <2>1. /\ mPieceData' = [mPieceData EXCEPT ![i] = <<>>]
        /\ requested' = [requested EXCEPT ![p] = StillOpen(p, req, again)]
        /\ HandleState(p, "HASH_CHECK_FAIL")
    BY <1>8 DEF FailsHashCheck
  <2>2. /\ mPieceData' \in [Pieces -> Data]
        /\ \A k \in Pieces : Len(mPieceData'[k]) < NumBlocks[k]
    BY <1>0, <1>2, <2>1 DEF TypeOK, BufferBelowPiece, Data
  <2>3. requested' \in [Peers -> SUBSET Requests]
    BY <1>0, <1>2, <2>1 DEF TypeOK
  <2>4. leaving' \subseteq connections /\ isComplete' \in BOOLEAN
    BY <1>0, <1>2, <2>1, StateHandled
  <2>5. QED
    BY <1>0, <1>4, <1>8, <2>2, <2>3, <2>4
       DEF FailsHashCheck, Typed, TypeOK, BufferBelowPiece, queueVars, fileVars, Data
<1>9. QED
  BY <1>1, <1>5, <1>6, <1>7, <1>8

(* Every step keeps the types, and every buffer shorter than its piece. *)
LEMMA TypedNext == Typed /\ [Next]_vars => Typed'
<1> SUFFICES ASSUME Typed, [Next]_vars PROVE Typed'
  OBVIOUS
<1> USE PiecesAssumption, PeersAssumption
<1>0. TypeOK /\ BufferBelowPiece
  BY DEF Typed
<1> USE DEF Typed, TypeOK, BufferBelowPiece, psmVars, protocolVars, queueVars, fileVars
<1>1. ASSUME NEW p \in Peers, Chokes(p) PROVE Typed'
  BY <1>0, <1>1 DEF Chokes
<1>2. ASSUME NEW p \in Peers, UnChokes(p) PROVE Typed'
  <2>1. PICK r \in RequestNextPiece(availablePieces[p], mAvailable, mPieceData, FALSE) :
          /\ requested' = [requested EXCEPT ![p] = @ \cup r.requests]
          /\ HandleState(p, r.state)
    BY <1>2 DEF UnChokes
  <2>2. r.requests \subseteq Requests
    <3>1. /\ availablePieces[p] \in SUBSET Pieces /\ mAvailable \in SUBSET Pieces
          /\ mPieceData \in [Pieces -> Data]
          /\ \A k \in Pieces : Len(mPieceData[k]) < NumBlocks[k]
      BY <1>0 DEF Data
    <3>2. QED
      BY <3>1, NextRequest
  <2>3. requested' \in [Peers -> SUBSET Requests]
    BY <1>0, <2>1, <2>2
  <2>4. p \in connections
    BY <1>2 DEF UnChokes
  <2>5. leaving' \subseteq connections /\ isComplete' \in BOOLEAN
    BY <1>0, <2>1, <2>4, StateHandled
  <2>6. mPeerChoking' \in [Peers -> BOOLEAN]
    BY <1>0, <1>2 DEF UnChokes
  <2>7. QED
    BY <1>0, <1>2, <2>3, <2>5, <2>6 DEF UnChokes
<1>3. ASSUME NEW p \in Peers, SendsBitfield(p) PROVE Typed'
  BY <1>0, <1>3 DEF SendsBitfield
<1>4. ASSUME NEW p \in Peers, PieceArrives(p) PROVE Typed'
  BY <1>4, TypedPiece
<1>5. ASSUME NEW p \in Peers, Connects(p) PROVE Typed'
  BY <1>0, <1>5 DEF Connects
<1>6. ASSUME NEW p \in Peers, Disconnected(p) PROVE Typed'
  BY <1>0, <1>6 DEF Disconnected
<1>7. ASSUME NEW p \in Peers, NEW i \in Pieces, SendsHave(p, i) PROVE Typed'
  BY <1>0, <1>7 DEF SendsHave
<1>8. CASE DiskWrites \/ DiskFails
  <2>1. Tail(toDisk) \in Seq(Write) /\ Head(toDisk) \in Write
    <3>1. toDisk \in Seq(Write) /\ toDisk # <<>>
      BY <1>0, <1>8 DEF DiskWrites, DiskFails, Write, Data
    <3>2. QED
      BY <3>1, TailElems
  <2>2. Append(fromDisk, Head(toDisk).piece) \in Seq(Pieces)
    BY <1>0, <2>1, AppendElems DEF Write
  <2>3. QED
    <3>1. CASE DiskWrites
      BY <1>0, <3>1, <2>1, <2>2 DEF DiskWrites, Write, Data
    <3>2. CASE DiskFails
      <4>1. Head(toDisk).piece \in Pieces
        BY <2>1 DEF Write
      <4>2. toDisk' \in Seq(Write) /\ fromDisk' \in Seq(Pieces) /\ unwritten' \subseteq Pieces
        BY <1>0, <2>1, <2>2, <3>2, <4>1 DEF DiskFails
      <4>3. faults' \in 0 .. MaxFaults
        <5>1. faults \in 0 .. MaxFaults /\ faults < MaxFaults /\ faults' = faults + 1
          BY <1>0, <3>2 DEF DiskFails
        <5>2. QED
          BY <5>1
      <4>4. UNCHANGED <<psmVars, protocolVars, isComplete, toPersist, fromPersist, onDisk, stored>>
        BY <3>2 DEF DiskFails
      <4>5. QED
        BY <1>0, <4>2, <4>3, <4>4 DEF Write, Data
    <3>3. QED
      BY <1>8, <3>1, <3>2
<1>9. CASE WriteSucceeded
  <2>1. Tail(fromDisk) \in Seq(Pieces) /\ Head(fromDisk) \in Pieces
    BY <1>0, <1>9, TailElems DEF WriteSucceeded
  <2>2. [type |-> "PieceComplete", piece |-> Head(fromDisk)] \in PersistRequest
    BY <2>1 DEF PersistRequest
  <2>3. toPersist' \in Seq(PersistRequest)
    BY <1>0, <1>9, <2>2, AppendElems DEF WriteSucceeded, PersistRequest
  <2>4. QED
    BY <1>0, <1>9, <2>1, <2>3 DEF WriteSucceeded, PersistRequest
<1>10. CASE StoresPiece
  <2>1. Tail(toPersist) \in Seq(PersistRequest) /\ Head(toPersist) \in PersistRequest
    BY <1>0, <1>10, TailElems DEF StoresPiece, PersistRequest
  <2>2. Head(toPersist).piece \in Pieces
    BY <1>10, <2>1 DEF StoresPiece, PersistRequest
  <2>3. QED
    BY <1>0, <1>10, <2>1, <2>2 DEF StoresPiece, PersistRequest
<1>11. CASE LoadsPieces
  <2>1. Tail(toPersist) \in Seq(PersistRequest)
    BY <1>0, <1>11, TailElems DEF LoadsPieces, PersistRequest
  <2>2. Append(fromPersist, stored) \in Seq(SUBSET Pieces)
    BY <1>0, AppendElems
  <2>3. QED
    BY <1>0, <1>11, <2>1, <2>2 DEF LoadsPieces, PersistRequest
<1>12. CASE PiecesLoaded
  <2>1. Tail(fromPersist) \in Seq(SUBSET Pieces)
    BY <1>0, <1>12, TailElems DEF PiecesLoaded
  <2>2. mAvailable' \subseteq Pieces /\ populated' \in BOOLEAN
    BY <1>0, <1>12 DEF PiecesLoaded, Populate
  <2>3. leaving' \subseteq connections /\ isComplete' \in BOOLEAN
    <3>1. CASE UNCHANGED <<leaving, isComplete>>
      BY <1>0, <3>1
    <3>2. CASE UpdateTorrentCompleted({})
      BY <1>0, <3>2 DEF UpdateTorrentCompleted
    <3>3. QED
      BY <1>12, <3>1, <3>2 DEF PiecesLoaded
  <2>4. QED
    BY <1>0, <1>12, <2>1, <2>2, <2>3 DEF PiecesLoaded
<1>13. CASE StopTorrent
  <2>1. active' \in BOOLEAN
    BY <1>13 DEF StopTorrent
  <2>2. faults' \in 0 .. MaxFaults /\ leaving' \subseteq connections
    BY <1>0, <1>13 DEF StopTorrent
  <2>3. QED
    BY <1>0, <1>13, <2>1, <2>2 DEF StopTorrent
<1>14. CASE ResumeTorrent
  <2>1. LoadRequest \in PersistRequest
    BY DEF LoadRequest, PersistRequest
  <2>2. toPersist' \in Seq(PersistRequest)
    BY <1>0, <1>14, <2>1, AppendElems DEF ResumeTorrent, PersistRequest
  <2>3. QED
    BY <1>0, <1>14, <2>2 DEF ResumeTorrent, PersistRequest
<1>15. CASE Restart
  <2>1. LoadRequest \in PersistRequest
    BY DEF LoadRequest, PersistRequest
  <2>2. toPersist' \in Seq(PersistRequest)
    BY <1>15, <2>1 DEF Restart
  <2>3. /\ populated' \in BOOLEAN /\ active' \in BOOLEAN /\ isComplete' \in BOOLEAN
        /\ mPeerChoking' \in [Peers -> BOOLEAN] /\ mAmInterested' \in [Peers -> BOOLEAN]
    BY <1>15 DEF Restart
  <2>4. /\ mPieceData' \in [Pieces -> Data] /\ availablePieces' \in [Peers -> SUBSET Pieces]
        /\ requested' \in [Peers -> SUBSET Requests]
        /\ \A i \in Pieces : Len(mPieceData'[i]) < NumBlocks[i]
    BY <1>15 DEF Restart, Data
  <2>5. QED
    BY <1>0, <1>15, <2>2, <2>3, <2>4 DEF Restart, PersistRequest, Data
<1>16. CASE UNCHANGED vars
  BY <1>0, <1>16 DEF vars
<1>17. QED
  <2>1. ASSUME NEW p \in Peers, PeerStep(p) PROVE Typed'
    BY <1>1, <1>2, <1>3, <1>4, <1>5, <1>6, <1>7, <2>1 DEF PeerStep
  <2>2. ASSUME ServiceStep PROVE Typed'
    BY <1>8, <1>9, <1>10, <1>11, <1>12, <2>2 DEF ServiceStep
  <2>3. QED
    BY <1>13, <1>14, <1>15, <1>16, <2>1, <2>2 DEF Next

(* TypeOK and BufferBelowPiece hold together: a request is for a block of   *)
(* the piece only because the buffer is shorter than the piece, and the     *)
(* buffer stays shorter because blocks are appended in order, one by one.   *)
THEOREM BuffersStayBelow == Spec => [](TypeOK /\ BufferBelowPiece)
<1>1. Typed => TypeOK /\ BufferBelowPiece
  BY DEF Typed
<1>2. QED
  BY <1>1, TypedInit, TypedNext, PTL DEF Spec

------------------------------------------------------------------------------
(* What goes to the disk. *)

(* A piece is only written when its buffer is full and all of it is good,   *)
(* and the disk service and a restart only take writes away.                *)
LEMMA VerifiedNext == Typed /\ WritesAreVerified /\ [Next]_vars => WritesAreVerified'
<1> SUFFICES ASSUME Typed, WritesAreVerified, [Next]_vars PROVE WritesAreVerified'
  OBVIOUS
<1>0. toDisk \in Seq(Write) /\ requested \in [Peers -> SUBSET Requests]
      /\ mPieceData \in [Pieces -> Data]
  BY DEF Typed, TypeOK, Write, Data
<1> DEFINE Verified(w) == w.data = [n \in 1 .. NumBlocks[w.piece] |-> "good"]
<1>a. /\ WritesAreVerified <=> \A w \in Elems(toDisk) : Verified(w)
      /\ WritesAreVerified' <=> \A w \in Elems(toDisk') : Verified(w)
  BY DEF WritesAreVerified, Elems
<1> HIDE DEF Verified
<1>1. CASE UNCHANGED toDisk
  BY <1>1, <1>a
<1>2. CASE toDisk # <<>> /\ toDisk' = Tail(toDisk)
  BY <1>0, <1>2, <1>a, TailElems
<1>3. CASE toDisk' = <<>>
  BY <1>3, <1>a, EmptyElems
<1>4. ASSUME NEW p \in Peers, NEW req \in requested[p], NEW again \in BOOLEAN,
             NEW block \in Blocks(p), CompletesPiece(p, req, again, block)
      PROVE  WritesAreVerified'
  <2> DEFINE i == req[1]
             data == Append(mPieceData[i], block)
             w == [piece |-> i, data |-> data]
  <2>1. /\ toDisk' = Append(toDisk, w)
        /\ Len(data) = NumBlocks[i] /\ \A n \in 1 .. Len(data) : data[n] = "good"
    BY <1>4 DEF CompletesPiece, Full, HashCheck
  <2>2. data \in Data /\ w \in Write
    <3>1. block \in {"good", "bad"} /\ i \in Pieces
      BY <1>0, RequestsAre DEF Blocks
    <3>2. data \in Data
      BY <1>0, <3>1, AppendElems DEF Data
    <3>3. QED
      BY <3>1, <3>2 DEF Write
  <2>3. Verified(w)
    BY <2>1, <2>2 DEF Data, Verified
  <2>4. QED
    BY <1>0, <1>a, <2>1, <2>2, <2>3, AppendElems
<1>5. QED
  <2>1. ASSUME NEW p \in Peers, PeerStep(p) PROVE WritesAreVerified'
    <3>1. CASE PieceArrives(p)
      BY <1>1, <1>4, <3>1 DEF PieceArrives, ReceivesOtherBlock, ReceivesBlock, FailsHashCheck,
                             queueVars
    <3>2. CASE ~PieceArrives(p)
      BY <1>1, <2>1, <3>2 DEF PeerStep, Chokes, UnChokes, SendsBitfield, Connects, Disconnected,
                             SendsHave, queueVars
    <3>3. QED
      BY <3>1, <3>2
  <2>2. ASSUME ServiceStep PROVE WritesAreVerified'
    BY <1>1, <1>2, <2>2 DEF ServiceStep, DiskWrites, DiskFails, WriteSucceeded, StoresPiece,
                           LoadsPieces, PiecesLoaded
  <2>3. CASE StopTorrent \/ ResumeTorrent \/ UNCHANGED vars
    BY <1>1, <2>3 DEF StopTorrent, ResumeTorrent, queueVars, vars
  <2>4. CASE Restart
    BY <1>3, <2>4 DEF Restart
  <2>5. QED
    BY <2>1, <2>2, <2>3, <2>4 DEF Next

(* Whatever good and bad peers put into the shared buffers, late and twice, *)
(* every write is of a whole piece of good data.                            *)
THEOREM OnlyVerifiedWrites == Spec => []WritesAreVerified
<1>1. Init => WritesAreVerified
  BY DEF Init, WritesAreVerified
<1>2. QED
  BY <1>1, TypedInit, TypedNext, VerifiedNext, PTL DEF Spec

------------------------------------------------------------------------------
(* The way of a piece through the services. *)

(* Underway is what the three queues hold. *)
LEMMA UnderwayParts == Underway = Writing \cup Written \cup Storing
<1>1. Writing = {toDisk[k].piece : k \in 1 .. Len(toDisk)}
  BY DEF Writing, Elems
<1>2. Storing = {toPersist[k].piece :
                   k \in {j \in 1 .. Len(toPersist) : toPersist[j].type = "PieceComplete"}}
  BY DEF Storing, Elems
<1>3. QED
  BY <1>1, <1>2 DEF Underway, Written, Elems

(* A finished piece joins the writes. *)
LEMMA WritingGrows ==
  ASSUME Typed, NEW w \in Write, toDisk' = Append(toDisk, w)
  PROVE  Writing' = Writing \cup {w.piece}
<1>1. Elems(toDisk') = Elems(toDisk) \cup {w}
  <2>1. toDisk \in Seq(Write)
    BY DEF Typed, TypeOK, Write, Data
  <2>2. QED
    BY <2>1, AppendElems
<1>2. QED
  BY <1>1 DEF Writing

(* The disk service takes the first write and answers with its piece. *)
LEMMA DiskServes ==
  ASSUME Typed, toDisk # <<>>, toDisk' = Tail(toDisk),
         fromDisk' = Append(fromDisk, Head(toDisk).piece)
  PROVE  /\ Writing = Writing' \cup {Head(toDisk).piece}
         /\ Written' = Written \cup {Head(toDisk).piece}
<1>1. toDisk \in Seq(Write) /\ fromDisk \in Seq(Pieces)
  BY DEF Typed, TypeOK, Write, Data
<1>2. Head(toDisk) \in Write /\ Elems(toDisk) = {Head(toDisk)} \cup Elems(toDisk')
  BY <1>1, TailElems
<1>3. Head(toDisk).piece \in Pieces
  BY <1>2 DEF Write
<1>4. Elems(fromDisk') = Elems(fromDisk) \cup {Head(toDisk).piece}
  BY <1>1, <1>3, AppendElems
<1>5. QED
  BY <1>2, <1>4 DEF Writing, Written

(* The manager passes an answer of the disk service on to be stored. *)
LEMMA AnswerPassedOn ==
  ASSUME Typed, WriteSucceeded
  PROVE  /\ Written = Written' \cup {Head(fromDisk)}
         /\ Storing' = Storing \cup {Head(fromDisk)}
<1> DEFINE new == [type |-> "PieceComplete", piece |-> Head(fromDisk)]
<1>1. toPersist \in Seq(PersistRequest) /\ fromDisk \in Seq(Pieces)
  BY DEF Typed, TypeOK, PersistRequest
<1>2. Head(fromDisk) \in Pieces /\ Elems(fromDisk) = {Head(fromDisk)} \cup Elems(fromDisk')
  BY <1>1, TailElems DEF WriteSucceeded
<1>3. new \in PersistRequest
  BY <1>2 DEF PersistRequest
<1>4. Elems(toPersist') = Elems(toPersist) \cup {new}
  BY <1>1, <1>3, AppendElems DEF WriteSucceeded
<1>5. new.type = "PieceComplete" /\ new.piece = Head(fromDisk)
  OBVIOUS
<1> HIDE DEF new
<1>6. Storing' = Storing \cup {Head(fromDisk)}
  BY <1>4, <1>5 DEF Storing
<1>7. QED
  BY <1>2, <1>6 DEF Written

(* The persist service takes the first request off its queue. *)
LEMMA PersistServes ==
  ASSUME Typed, toPersist # <<>>, toPersist' = Tail(toPersist)
  PROVE  Storing = IF Head(toPersist).type = "PieceComplete"
                   THEN Storing' \cup {Head(toPersist).piece} ELSE Storing'
<1>1. Elems(toPersist) = {Head(toPersist)} \cup Elems(toPersist')
  BY TailElems DEF Typed, TypeOK
<1>2. QED
  BY <1>1 DEF Storing

(* A request to load adds nothing to what is being stored. *)
LEMMA LoadAsked ==
  ASSUME Typed, toPersist' = Append(toPersist, LoadRequest)
  PROVE  Storing' = Storing
<1>1. toPersist \in Seq(PersistRequest) /\ LoadRequest \in PersistRequest
  BY DEF Typed, TypeOK, PersistRequest, LoadRequest
<1>2. Elems(toPersist') = Elems(toPersist) \cup {LoadRequest}
  BY <1>1, AppendElems
<1>3. LoadRequest.type # "PieceComplete"
  BY DEF LoadRequest
<1>4. QED
  BY <1>2, <1>3 DEF Storing

------------------------------------------------------------------------------
(* Nothing is lost, nothing is claimed too early. *)

(* Nothing is known, wanted, stored or claimed at first. *)
LEMMA SafeInit == Init => Safe
<1> SUFFICES ASSUME Init PROVE Safe
  OBVIOUS
<1>1. Elems(toPersist) = {LoadRequest}
  BY DEF Init, Elems
<1>2. Storing = {}
  <2>1. LoadRequest.type # "PieceComplete"
    BY DEF LoadRequest
  <2>2. QED
    BY <1>1, <2>1 DEF Storing
<1>3. Written = {} /\ Elems(fromPersist) = {}
  BY EmptyElems DEF Init, Written
<1>4. QED
  BY <1>2, <1>3
     DEF Init, Safe, StoredIsOnDisk, WrittenIsOnDisk, LoadedIsStored, ConnectedIsPopulated,
         NothingForgotten, CompleteIsComplete

(* What a step of a peer leaves alone, and that a torrent which has just     *)
(* become complete wants nothing any more.                                  *)
LEMMA PeerEffect ==
  ASSUME Typed, ConnectedIsPopulated, NEW p \in Peers, PeerStep(p)
  PROVE  /\ UNCHANGED <<populated, fromDisk, toPersist, fromPersist, onDisk, unwritten, stored>>
         /\ connections' # {} => populated
         /\ isComplete' /\ ~isComplete => populated /\ mAvailable' = {}
         /\ \/ UNCHANGED <<mAvailable, toDisk>>
            \/ \E w \in Write : mAvailable' = mAvailable \ {w.piece} /\ toDisk' = Append(toDisk, w)
<1> DEFINE Goal ==
         /\ UNCHANGED <<populated, fromDisk, toPersist, fromPersist, onDisk, unwritten, stored>>
         /\ connections' # {} => populated
         /\ isComplete' /\ ~isComplete => populated /\ mAvailable' = {}
         /\ \/ UNCHANGED <<mAvailable, toDisk>>
            \/ \E w \in Write : mAvailable' = mAvailable \ {w.piece} /\ toDisk' = Append(toDisk, w)
<1>0. TypeOK /\ BufferBelowPiece
  BY DEF Typed
<1>1. p \in connections => populated
  BY DEF ConnectedIsPopulated
<1> USE DEF psmVars, queueVars, fileVars
<1>2. CASE Chokes(p) \/ SendsBitfield(p) \/ (\E i \in Pieces : SendsHave(p, i))
  BY <1>2 DEF Chokes, SendsBitfield, SendsHave, ConnectedIsPopulated
<1>3. CASE Connects(p)
  BY <1>3 DEF Connects
<1>4. CASE Disconnected(p)
  BY <1>4 DEF Disconnected, ConnectedIsPopulated
<1>5. ASSUME NEW have \in SUBSET Pieces, NEW avail \in SUBSET Pieces,
             NEW data \in [Pieces -> Data], NEW choking \in BOOLEAN,
             \A k \in Pieces : Len(data[k]) < NumBlocks[k],
             NEW r \in RequestNextPiece(have, avail, data, choking),
             p \in connections, HandleState(p, r.state), avail = mAvailable'
      PROVE  isComplete' /\ ~isComplete => populated /\ mAvailable' = {}
  <2>1. r.state = "COMPLETE" => avail = {}
    BY <1>5, NextRequest
  <2>2. isComplete' => isComplete \/ r.state = "COMPLETE"
    BY <1>0, <1>5, StateHandled
  <2>3. QED
    BY <1>1, <1>5, <2>1, <2>2
<1>6. /\ availablePieces[p] \in SUBSET Pieces /\ mAvailable \in SUBSET Pieces
      /\ mPieceData \in [Pieces -> Data] /\ mPeerChoking[p] \in BOOLEAN /\ FALSE \in BOOLEAN
      /\ \A k \in Pieces : Len(mPieceData[k]) < NumBlocks[k]
  BY <1>0 DEF TypeOK, BufferBelowPiece, Data
<1>7. CASE UnChokes(p)
  <2>1. PICK r \in RequestNextPiece(availablePieces[p], mAvailable, mPieceData, FALSE) :
           HandleState(p, r.state)
    BY <1>7 DEF UnChokes
  <2>2. p \in connections /\ mAvailable' = mAvailable
    BY <1>7 DEF UnChokes
  <2>3. isComplete' /\ ~isComplete => populated /\ mAvailable' = {}
    BY <1>5, <1>6, <2>1, <2>2
  <2>4. QED
    BY <1>7, <2>3 DEF UnChokes, ConnectedIsPopulated
<1>8. ASSUME NEW req \in requested[p], NEW again \in BOOLEAN, ReceivesOtherBlock(p, req, again)
      PROVE  Goal
  <2>1. PICK r \in RequestNextPiece(availablePieces[p], mAvailable, mPieceData, mPeerChoking[p]) :
           HandleState(p, r.state)
    BY <1>8 DEF ReceivesOtherBlock
  <2>2. p \in connections /\ mAvailable' = mAvailable
    BY <1>8 DEF ReceivesOtherBlock, Answers
  <2>3. isComplete' /\ ~isComplete => populated /\ mAvailable' = {}
    BY <1>5, <1>6, <2>1, <2>2
  <2>4. QED
    BY <1>8, <2>3 DEF ReceivesOtherBlock, ConnectedIsPopulated
<1>9. ASSUME NEW req \in requested[p], NEW again \in BOOLEAN, NEW block \in Blocks(p),
             ReceivesBlock(p, req, again, block)
      PROVE  Goal
  <2>1. PICK r \in RequestNextPiece(availablePieces[p], mAvailable, mPieceData', mPeerChoking[p]) :
           HandleState(p, r.state)
    BY <1>9 DEF ReceivesBlock
  <2>2. p \in connections /\ mAvailable' = mAvailable
    BY <1>9 DEF ReceivesBlock, Answers
  <2>3. /\ mPieceData' \in [Pieces -> Data]
        /\ \A k \in Pieces : Len(mPieceData'[k]) < NumBlocks[k]
    <3>1. PieceArrives(p)
      BY <1>9 DEF PieceArrives
    <3>2. QED
      BY <3>1, TypedPiece DEF Typed, TypeOK, BufferBelowPiece, Data
  <2>4. isComplete' /\ ~isComplete => populated /\ mAvailable' = {}
    BY <1>5, <1>6, <2>1, <2>2, <2>3
  <2>5. QED
    BY <1>9, <2>4 DEF ReceivesBlock, ConnectedIsPopulated
<1>10. ASSUME NEW req \in requested[p], NEW again \in BOOLEAN, NEW block \in Blocks(p),
              CompletesPiece(p, req, again, block)
       PROVE  Goal
  <2> DEFINE i == req[1]
             w == [piece |-> i, data |-> Append(mPieceData[i], block)]
  <2>1. PICK r \in RequestNextPiece(availablePieces'[p], mAvailable', mPieceData', mPeerChoking[p]) :
           HandleState(p, r.state)
    BY <1>10 DEF CompletesPiece
  <2>2. p \in connections /\ mAvailable' = mAvailable \ {i} /\ toDisk' = Append(toDisk, w)
    BY <1>10 DEF CompletesPiece, Answers
  <2>3. /\ mPieceData' \in [Pieces -> Data] /\ mAvailable' \in SUBSET Pieces
        /\ availablePieces'[p] \in SUBSET Pieces
        /\ \A k \in Pieces : Len(mPieceData'[k]) < NumBlocks[k]
    <3>1. PieceArrives(p)
      BY <1>10 DEF PieceArrives
    <3>2. QED
      BY <3>1, TypedPiece DEF Typed, TypeOK, BufferBelowPiece, Data
  <2>4. isComplete' /\ ~isComplete => populated /\ mAvailable' = {}
    BY <1>5, <1>6, <2>1, <2>2, <2>3
  <2>5. w \in Write
    <3>1. i \in Pieces /\ block \in {"good", "bad"}
      BY <1>0, RequestsAre DEF TypeOK, Blocks
    <3>2. QED
      BY <1>6, <3>1, AppendElems DEF Write, Data
  <2>6. w.piece = i
    OBVIOUS
  <2> HIDE DEF w
  <2>7. \E v \in Write : mAvailable' = mAvailable \ {v.piece} /\ toDisk' = Append(toDisk, v)
    BY <2>2, <2>5, <2>6
  <2>8. QED
    BY <1>10, <2>4, <2>7 DEF CompletesPiece, ConnectedIsPopulated
<1>11. ASSUME NEW req \in requested[p], NEW again \in BOOLEAN, NEW block \in Blocks(p),
              FailsHashCheck(p, req, again, block)
       PROVE  Goal
  <2>1. p \in connections /\ HandleState(p, "HASH_CHECK_FAIL")
    BY <1>11 DEF FailsHashCheck, Answers
  <2>2. isComplete' => isComplete
    BY <1>0, <2>1, StateHandled
  <2>3. QED
    BY <1>11, <2>2 DEF FailsHashCheck, ConnectedIsPopulated
<1>12. PieceArrives(p) => Goal
  BY <1>8, <1>9, <1>10, <1>11 DEF PieceArrives
<1>13. QED
  BY <1>2, <1>3, <1>4, <1>7, <1>12 DEF PeerStep

(* Each step keeps Safe: a piece leaves mAvailable only for the disk queue,  *)
(* and each service takes it from one queue and puts it into the next, or   *)
(* into the database.  A restart empties the queues, and with them goes     *)
(* what the process knew.                                                   *)
LEMMA SafeNext == Typed /\ Safe /\ [Next]_vars => Safe'
<1> SUFFICES ASSUME Typed, Safe, [Next]_vars PROVE Safe'
  OBVIOUS
<1>0. /\ StoredIsOnDisk /\ WrittenIsOnDisk /\ LoadedIsStored /\ ConnectedIsPopulated
      /\ NothingForgotten /\ CompleteIsComplete
  BY DEF Safe
<1>1. /\ Underway = Writing \cup Written \cup Storing
      /\ Underway' = Writing' \cup Written' \cup Storing'
  <2>1. (Underway = Writing \cup Written \cup Storing)'
    BY UnderwayParts, PTL
  <2>2. QED
    BY <2>1, UnderwayParts
<1>2. TypeOK
  BY DEF Typed
<1> USE DEF Safe, StoredIsOnDisk, WrittenIsOnDisk, LoadedIsStored, ConnectedIsPopulated,
            NothingForgotten, CompleteIsComplete
<1>3. ASSUME NEW p \in Peers, PeerStep(p) PROVE Safe'
  <2>1. /\ UNCHANGED <<populated, fromDisk, toPersist, fromPersist, onDisk, unwritten, stored>>
        /\ connections' # {} => populated
        /\ isComplete' /\ ~isComplete => populated /\ mAvailable' = {}
        /\ \/ UNCHANGED <<mAvailable, toDisk>>
           \/ \E w \in Write : mAvailable' = mAvailable \ {w.piece} /\ toDisk' = Append(toDisk, w)
    BY <1>0, <1>3, PeerEffect
  <2>2. Written' = Written /\ Storing' = Storing /\ Elems(fromPersist') = Elems(fromPersist)
    BY <2>1 DEF Written, Storing
  <2>3. mAvailable \cup Writing \subseteq mAvailable' \cup Writing' /\ Writing \subseteq Writing'
    <3>1. CASE UNCHANGED <<mAvailable, toDisk>>
      BY <3>1 DEF Writing
    <3>2. ASSUME NEW w \in Write, mAvailable' = mAvailable \ {w.piece}, toDisk' = Append(toDisk, w)
          PROVE  mAvailable \cup Writing \subseteq mAvailable' \cup Writing' /\ Writing \subseteq Writing'
      BY <3>2, WritingGrows
    <3>3. QED
      BY <2>1, <3>1, <3>2
  <2>4. NothingForgotten'
    BY <1>0, <1>1, <2>1, <2>2, <2>3
  <2>5. CompleteIsComplete'
    BY <1>0, <1>1, <2>1, <2>2, <2>3
  <2>6. QED
    BY <1>0, <2>1, <2>2, <2>4, <2>5
<1>4. CASE DiskWrites \/ DiskFails
  <2>1. /\ Writing = Writing' \cup {Head(toDisk).piece}
        /\ Written' = Written \cup {Head(toDisk).piece}
    BY <1>4, DiskServes DEF DiskWrites, DiskFails
  <2>2. /\ UNCHANGED <<populated, mAvailable, connections, isComplete, toPersist, fromPersist, stored>>
        /\ onDisk \cup unwritten \cup {Head(toDisk).piece} \subseteq onDisk' \cup unwritten'
    BY <1>4 DEF DiskWrites, DiskFails, psmVars, protocolVars
  <2>3. Storing' = Storing /\ Underway' = Underway /\ Elems(fromPersist') = Elems(fromPersist)
    BY <1>1, <2>1, <2>2 DEF Storing
  <2>4. QED
    BY <1>0, <2>1, <2>2, <2>3
<1>5. CASE WriteSucceeded
  <2>1. /\ Written = Written' \cup {Head(fromDisk)}
        /\ Storing' = Storing \cup {Head(fromDisk)}
    BY <1>5, AnswerPassedOn
  <2>2. UNCHANGED <<populated, mAvailable, connections, isComplete, toDisk, fromPersist, stored,
                    onDisk, unwritten>>
    BY <1>5 DEF WriteSucceeded, psmVars, protocolVars, fileVars
  <2>3. Underway' = Underway /\ Elems(fromPersist') = Elems(fromPersist)
    BY <1>1, <2>1, <2>2 DEF Writing
  <2>4. QED
    BY <1>0, <2>1, <2>2, <2>3
<1>6. CASE StoresPiece
  <2>1. Storing = Storing' \cup {Head(toPersist).piece}
    BY <1>6, PersistServes DEF StoresPiece
  <2>2. /\ UNCHANGED <<populated, mAvailable, connections, isComplete, toDisk, fromDisk,
                       fromPersist, onDisk, unwritten>>
        /\ stored' = stored \cup {Head(toPersist).piece}
    BY <1>6 DEF StoresPiece, psmVars, protocolVars, fileVars
  <2>3. /\ Underway' \cup stored' = Underway \cup stored /\ Written' = Written
        /\ Elems(fromPersist') = Elems(fromPersist)
    BY <1>1, <2>1, <2>2 DEF Writing, Written
  <2>4. QED
    BY <1>0, <2>1, <2>2, <2>3
<1>7. CASE LoadsPieces
  <2>1. Storing' = Storing
    BY <1>7, PersistServes DEF LoadsPieces
  <2>2. UNCHANGED <<populated, mAvailable, connections, isComplete, toDisk, fromDisk, stored,
                    onDisk, unwritten>>
    BY <1>7 DEF LoadsPieces, psmVars, protocolVars, fileVars
  <2>3. Elems(fromPersist') = Elems(fromPersist) \cup {stored}
    <3>1. fromPersist \in Seq(SUBSET Pieces) /\ stored \in SUBSET Pieces
      BY <1>2 DEF TypeOK
    <3>2. QED
      BY <1>7, <3>1, AppendElems DEF LoadsPieces
  <2>4. Underway' = Underway /\ Written' = Written
    BY <1>1, <2>1, <2>2 DEF Writing, Written
  <2>5. QED
    BY <1>0, <2>1, <2>2, <2>3, <2>4
<1>8. CASE PiecesLoaded
  <2>1. Elems(fromPersist) = {Head(fromPersist)} \cup Elems(fromPersist')
    BY <1>2, <1>8, TailElems DEF PiecesLoaded, TypeOK
  <2>2. Head(fromPersist) \subseteq stored
    BY <1>0, <2>1
  <2>3. /\ UNCHANGED <<connections, toDisk, fromDisk, toPersist, stored, onDisk, unwritten>>
        /\ populated' = TRUE /\ mAvailable' = mAvailable \cup (Pieces \ Head(fromPersist))
        /\ UNCHANGED isComplete \/ mAvailable' = {}
    BY <1>8 DEF PiecesLoaded, Populate, fileVars
  <2>4. Underway' = Underway /\ Written' = Written /\ Storing' = Storing
    BY <1>1, <2>3 DEF Writing, Written, Storing
  <2>5. NothingForgotten'
    BY <2>2, <2>3
  <2>6. CompleteIsComplete'
    BY <1>0, <2>2, <2>3, <2>4
  <2>7. QED
    BY <1>0, <2>1, <2>3, <2>4, <2>5, <2>6
<1>9. CASE StopTorrent
  BY <1>0, <1>9, <1>1 DEF StopTorrent, Writing, Written, Storing, queueVars, fileVars
<1>10. CASE ResumeTorrent
  <2>1. Storing' = Storing
    BY <1>10, LoadAsked DEF ResumeTorrent
  <2>2. UNCHANGED <<populated, mAvailable, connections, isComplete, toDisk, fromDisk, fromPersist,
                    stored, onDisk, unwritten>>
    BY <1>10 DEF ResumeTorrent, protocolVars, fileVars
  <2>3. Underway' = Underway /\ Written' = Written /\ Elems(fromPersist') = Elems(fromPersist)
    BY <1>1, <2>1, <2>2 DEF Writing, Written
  <2>4. QED
    BY <1>0, <2>1, <2>2, <2>3
<1>11. CASE Restart
  <2>1. Elems(toPersist') = {LoadRequest} /\ LoadRequest.type # "PieceComplete"
    BY <1>11 DEF Restart, Elems, LoadRequest
  <2>2. Storing' = {}
    BY <2>1 DEF Storing
  <2>3. Written' = {} /\ Elems(fromPersist') = {}
    BY <1>11, EmptyElems DEF Restart, Written
  <2>4. populated' = FALSE /\ isComplete' = FALSE /\ connections' = {}
        /\ UNCHANGED <<stored, onDisk, unwritten>>
    BY <1>11 DEF Restart, fileVars
  <2>5. QED
    BY <1>0, <2>2, <2>3, <2>4
<1>12. CASE UNCHANGED vars
  BY <1>0, <1>1, <1>12 DEF vars, psmVars, protocolVars, queueVars, fileVars, Writing, Written, Storing
<1>13. QED
  BY <1>3, <1>4, <1>5, <1>6, <1>7, <1>8, <1>9, <1>10, <1>11, <1>12 DEF Next, ServiceStep

(* The database never has a piece that the files lack, wherever the process *)
(* dies, unless a write failed: a piece is on disk, or its write has failed, *)
(* before the answer that leads to its being stored is sent.                *)
THEOREM DatabaseNeverAhead == Spec => []StoredIsOnDisk
<1>1. Safe => StoredIsOnDisk
  BY DEF Safe
<1>2. QED
  BY <1>1, TypedInit, TypedNext, SafeInit, SafeNext, PTL DEF Spec

(* No piece gets lost between its hash check and the database, through      *)
(* stops, resumes, late answers of the persist service and restarts.        *)
THEOREM NoPieceForgotten == Spec => []NothingForgotten
<1>1. Safe => NothingForgotten
  BY DEF Safe
<1>2. QED
  BY <1>1, TypedInit, TypedNext, SafeInit, SafeNext, PTL DEF Spec

(* The app is told that a torrent is complete only when every piece of it   *)
(* is stored or on its way to be: the peer that finds nothing wanted any    *)
(* more finds so after the first populate.                                  *)
THEOREM CompletionIsTrue == Spec => []CompleteIsComplete
<1>1. Safe => CompleteIsComplete
  BY DEF Safe
<1>2. QED
  BY <1>1, TypedInit, TypedNext, SafeInit, SafeNext, PTL DEF Spec

==============================================================================
