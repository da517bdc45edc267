--------------------------- MODULE TorrentDownload ---------------------------
(***************************************************************************)
(* The download of one torrent: the peers' Protocol objects, which share   *)
(* one PieceStateManager, and the way of a finished piece through the disk *)
(* service and the persist service, with stops, resumes and restarts of    *)
(* the process.                                                            *)
(*                                                                         *)
(* Data are cut into blocks of the request size (16 KB).  A block is good  *)
(* or bad; a piece passes its SHA-1 check when all its blocks are good.    *)
(* Peers answer what they were asked, with blocks of the size asked for,   *)
(* but late, more than once, or not at all, and with bad data if they are  *)
(* in BadPeers.                                                            *)
(*                                                                         *)
(* Handling one event is one step of the BitTorrentManager thread.         *)
(***************************************************************************)
EXTENDS Naturals, Sequences, FiniteSets

CONSTANTS Peers, Pieces,
          NumBlocks,  \* blocks in each piece
          PeerHas,    \* the pieces of each peer when it connects
          BadPeers,   \* peers that may send bad blocks
          Loyal,      \* peers that do not hang up of their own accord
          MayStop,    \* whether the user stops the torrent
          MaxFaults,  \* bound on chokes, hang-ups, repeated answers,
                      \* failed writes, stops and crashes
          MaxQueue    \* bound on the events on their way between services

ASSUME PiecesAssumption == Pieces # {} /\ NumBlocks \in [Pieces -> Nat \ {0}]
ASSUME PeersAssumption == /\ PeerHas \in [Peers -> SUBSET Pieces]
                          /\ BadPeers \subseteq Peers /\ Loyal \subseteq Peers
                          /\ MayStop \in BOOLEAN
                          /\ MaxFaults \in Nat /\ MaxQueue \in Nat \ {0}

VARIABLES
    \* PieceStateManager
    populated, mAvailable, mCompletedPieces, mPieceData, active,
    \* Protocol, for the peers in connections
    connections, mPeerChoking, mAmInterested, availablePieces,
    requested,    \* requests on their way to a peer or being worked on by it
    leaving,      \* peers that BitTorrentManager has asked to be disconnected
    \* BitTorrentManager: torrents[ih].isComplete
    isComplete,
    \* queues: to and from the disk service, to and from the persist service
    toDisk, fromDisk, toPersist, fromPersist,
    onDisk,       \* pieces whose data are in the files
    unwritten,    \* pieces whose last write has failed (a history variable)
    stored,       \* pieces the database has as complete
    faults

psmVars == <<populated, mAvailable, mCompletedPieces, mPieceData, active>>
protocolVars == <<connections, mPeerChoking, mAmInterested, availablePieces, requested, leaving>>
queueVars == <<toDisk, fromDisk, toPersist, fromPersist>>
fileVars == <<onDisk, unwritten>>
vars == <<psmVars, protocolVars, isComplete, queueVars, fileVars, stored, faults>>

Requests == UNION {{i} \X (0 .. NumBlocks[i] - 1) : i \in Pieces}

LoadRequest == [type |-> "LoadPieces"]

(* BitTorrentManager after a StartTorrent has been through the disk        *)
(* service and come back as TorrentInitialized.                            *)
Init == /\ populated = FALSE /\ mAvailable = {} /\ mCompletedPieces = {}
        /\ mPieceData = [i \in Pieces |-> <<>>] /\ active = TRUE
        /\ connections = {} /\ leaving = {} /\ isComplete = FALSE
        /\ mPeerChoking = [p \in Peers |-> TRUE]
        /\ mAmInterested = [p \in Peers |-> FALSE]
        /\ availablePieces = [p \in Peers |-> {}]
        /\ requested = [p \in Peers |-> {}]
        /\ toDisk = <<>> /\ fromDisk = <<>>
        /\ toPersist = <<LoadRequest>> /\ fromPersist = <<>>
        /\ onDisk = {} /\ unwritten = {} /\ stored = {}
        /\ faults = 0

------------------------------------------------------------------------------
(* PieceStateManager. *)

(* hashCheck: SHA-1 tells good data from bad. *)
NoHashCheck(data) == TRUE                     \* mutant
HashCheck(data) == \A i \in 1 .. Len(data) : data[i] = "good"

FullLate(i, data) == Len(data) > NumBlocks[i]    \* mutant: off by one
Full(i, data) == Len(data) = NumBlocks[i]     \* PieceState::isComplete

(* updateTorrentCompleted tells the app once, and deactivates the torrent, *)
(* which asks for every connected peer to be disconnected.                 *)
UpdateTorrentCompleted(leavers) ==
    /\ isComplete' = TRUE
    /\ leaving' = leaving \cup (IF isComplete THEN leavers ELSE connections)

------------------------------------------------------------------------------
(* Protocol: requestNextPiece, with the state it finds as parameters.  Any *)
(* available piece may come first: the peer's pieces are a hash set.       *)
CompleteWhenIdle(have, avail, data, choking) ==    \* mutant: no isAllComplete()
    LET wanted == have \cap avail IN
    IF active /\ wanted # {}
    THEN {[state |-> "OPEN",
           requests |-> IF choking THEN {} ELSE {<<i, Len(data[i])>>}] : i \in wanted}
    ELSE {[state |-> IF ~active THEN "CLOSED" ELSE "COMPLETE", requests |-> {}]}

RequestNextPiece(have, avail, data, choking) ==
    LET wanted == have \cap avail IN
    IF active /\ wanted # {}
    THEN {[state |-> "OPEN",
           requests |-> IF choking THEN {} ELSE {<<i, Len(data[i])>>}] : i \in wanted}
    ELSE {[state |-> IF avail # {} \/ ~active THEN "CLOSED" ELSE "COMPLETE",
           requests |-> {}]}

(* PeerEventHandler::handleMessage on what onMessage returned. *)
HandleState(p, state) ==
    \/ state = "OPEN" /\ UNCHANGED <<leaving, isComplete>>
    \/ /\ state \in {"CLOSED", "HASH_CHECK_FAIL"}
       /\ leaving' = leaving \cup {p}
       /\ UNCHANGED isComplete
    \/ state = "COMPLETE" /\ UpdateTorrentCompleted({p})

Chokes(p) ==
    /\ p \in connections /\ faults < MaxFaults
    /\ mPeerChoking' = [mPeerChoking EXCEPT ![p] = TRUE]
    /\ faults' = faults + 1
    /\ UNCHANGED <<psmVars, connections, mAmInterested, availablePieces, requested, leaving,
                   isComplete, queueVars, fileVars, stored>>

(* A loyal peer unchokes who is interested, others when they like. *)
UnChokes(p) ==
    /\ p \in connections /\ mPeerChoking[p]
    /\ p \in Loyal => mAmInterested[p]
    /\ mPeerChoking' = [mPeerChoking EXCEPT ![p] = FALSE]
    /\ \E r \in RequestNextPiece(availablePieces[p], mAvailable, mPieceData, FALSE) :
          /\ requested' = [requested EXCEPT ![p] = @ \cup r.requests]
          /\ HandleState(p, r.state)
    /\ UNCHANGED <<psmVars, connections, mAmInterested, availablePieces, queueVars, fileVars,
                   stored, faults>>

(* The first message of a peer that has anything. *)
SendsBitfield(p) ==
    /\ p \in connections /\ ~mAmInterested[p]
    /\ availablePieces' = [availablePieces EXCEPT ![p] = @ \cup PeerHas[p]]
    /\ mAmInterested' = [mAmInterested EXCEPT ![p] = TRUE]
    /\ UNCHANGED <<psmVars, connections, mPeerChoking, requested, leaving, isComplete,
                   queueVars, fileVars, stored, faults>>

(* A piece that the peer has got since. *)
SendsHave(p, i) ==
    /\ p \in connections /\ i \notin PeerHas[p]
    /\ i \notin mCompletedPieces
    /\ availablePieces' = [availablePieces EXCEPT ![p] = @ \cup {i}]
    /\ mAmInterested' = [mAmInterested EXCEPT ![p] = TRUE]
    /\ UNCHANGED <<psmVars, connections, mPeerChoking, requested, leaving, isComplete,
                   queueVars, fileVars, stored, faults>>

Answers(p, req, again) ==
    /\ p \in connections /\ req \in requested[p]
    /\ again => faults < MaxFaults
    /\ faults' = IF again THEN faults + 1 ELSE faults

StillOpen(p, req, again) == IF again THEN requested[p] ELSE requested[p] \ {req}

OtherBlockIgnored(p, req, again) ==      \* mutant: returns OPEN without the next request
    /\ Answers(p, req, again)
    /\ req[2] # Len(mPieceData[req[1]])
    /\ requested' = [requested EXCEPT ![p] = StillOpen(p, req, again)]
    /\ UNCHANGED <<psmVars, connections, mPeerChoking, mAmInterested, availablePieces, leaving,
                   isComplete, queueVars, fileVars, stored>>

(* onMessage(Piece): a block that is not the next one of its piece *)
ReceivesOtherBlock(p, req, again) ==
    /\ Answers(p, req, again)
    /\ req[2] # Len(mPieceData[req[1]])
    /\ \E r \in RequestNextPiece(availablePieces[p], mAvailable, mPieceData, mPeerChoking[p]) :
          /\ requested' = [requested EXCEPT ![p] = StillOpen(p, req, again) \cup r.requests]
          /\ HandleState(p, r.state)
    /\ UNCHANGED <<psmVars, connections, mPeerChoking, mAmInterested, availablePieces,
                   queueVars, fileVars, stored>>

(* one that is, and does not fill the piece *)
ReceivesBlock(p, req, again, block) ==
    LET i == req[1]  data == Append(mPieceData[i], block) IN
    /\ Answers(p, req, again)
    /\ req[2] = Len(mPieceData[i]) /\ ~Full(i, data)
    /\ mPieceData' = [mPieceData EXCEPT ![i] = data]
    /\ \E r \in RequestNextPiece(availablePieces[p], mAvailable, mPieceData', mPeerChoking[p]) :
          /\ requested' = [requested EXCEPT ![p] = StillOpen(p, req, again) \cup r.requests]
          /\ HandleState(p, r.state)
    /\ UNCHANGED <<populated, mAvailable, mCompletedPieces, active, connections, mPeerChoking,
                   mAmInterested, availablePieces, queueVars, fileVars, stored>>

(* one that completes it, with good data: written, then makeCompleted *)
CompletesPiece(p, req, again, block) ==
    LET i == req[1]  data == Append(mPieceData[i], block) IN
    /\ Answers(p, req, again)
    /\ req[2] = Len(mPieceData[i]) /\ Full(i, data) /\ HashCheck(data)
    /\ Len(toDisk) < MaxQueue
    /\ toDisk' = Append(toDisk, [piece |-> i, data |-> data])
    /\ mAvailable' = mAvailable \ {i}
    /\ mCompletedPieces' = mCompletedPieces \cup {i}
    /\ mPieceData' = [mPieceData EXCEPT ![i] = <<>>]
    /\ availablePieces' = [availablePieces EXCEPT ![p] = @ \ {i}]
    /\ \E r \in RequestNextPiece(availablePieces'[p], mAvailable', mPieceData', mPeerChoking[p]) :
          /\ requested' = [requested EXCEPT ![p] = StillOpen(p, req, again) \cup r.requests]
          /\ HandleState(p, r.state)
    /\ UNCHANGED <<populated, active, connections, mPeerChoking, mAmInterested, fromDisk,
                   toPersist, fromPersist, fileVars, stored>>

CompletesThenFails(p, req, again, block) ==  \* mutant: makeCompleted before the hash check
    LET i == req[1]  data == Append(mPieceData[i], block) IN
    /\ Answers(p, req, again)
    /\ req[2] = Len(mPieceData[i]) /\ Full(i, data) /\ ~HashCheck(data)
    /\ mAvailable' = mAvailable \ {i}
    /\ mCompletedPieces' = mCompletedPieces \cup {i}
    /\ mPieceData' = [mPieceData EXCEPT ![i] = <<>>]
    /\ requested' = [requested EXCEPT ![p] = StillOpen(p, req, again)]
    /\ HandleState(p, "HASH_CHECK_FAIL")
    /\ UNCHANGED <<populated, active, connections, mPeerChoking, mAmInterested,
                   availablePieces, queueVars, fileVars, stored>>

(* one that completes it, and the data are bad *)
FailsHashCheck(p, req, again, block) ==
    LET i == req[1]  data == Append(mPieceData[i], block) IN
    /\ Answers(p, req, again)
    /\ req[2] = Len(mPieceData[i]) /\ Full(i, data) /\ ~HashCheck(data)
    /\ mPieceData' = [mPieceData EXCEPT ![i] = <<>>]
    /\ requested' = [requested EXCEPT ![p] = StillOpen(p, req, again)]
    /\ HandleState(p, "HASH_CHECK_FAIL")
    /\ UNCHANGED <<populated, mAvailable, mCompletedPieces, active, connections, mPeerChoking,
                   mAmInterested, availablePieces, queueVars, fileVars, stored>>

Blocks(p) == IF p \in BadPeers THEN {"good", "bad"} ELSE {"good"}

PieceArrives(p) ==
    \E req \in requested[p], again \in BOOLEAN :
        \/ ReceivesOtherBlock(p, req, again)
        \/ \E block \in Blocks(p) : \/ ReceivesBlock(p, req, again, block)
                                    \/ CompletesPiece(p, req, again, block)
                                    \/ FailsHashCheck(p, req, again, block)

------------------------------------------------------------------------------
(* Connections. Announces only follow the first populate, and from then on *)
(* the peer tracker may hand a peer out at any time.                       *)

Connects(p) ==
    /\ p \notin connections /\ populated
    /\ connections' = connections \cup {p}
    /\ mPeerChoking' = [mPeerChoking EXCEPT ![p] = TRUE]
    /\ mAmInterested' = [mAmInterested EXCEPT ![p] = FALSE]
    /\ availablePieces' = [availablePieces EXCEPT ![p] = {}]
    /\ requested' = [requested EXCEPT ![p] = {}]
    /\ UNCHANGED <<psmVars, leaving, isComplete, queueVars, fileVars, stored, faults>>

(* ConnectionDisconnected: asked for, or the peer has hung up. *)

Disconnected(p) ==
    /\ p \in connections
    /\ IF p \in leaving THEN UNCHANGED faults
       ELSE p \notin Loyal /\ faults < MaxFaults /\ faults' = faults + 1
    /\ connections' = connections \ {p}
    /\ leaving' = leaving \ {p}
    /\ requested' = [requested EXCEPT ![p] = {}]
    /\ availablePieces' = [availablePieces EXCEPT ![p] = {}]
    /\ UNCHANGED <<psmVars, mPeerChoking, mAmInterested, isComplete, queueVars, fileVars,
                   stored>>

------------------------------------------------------------------------------
(* The services behind the queues. *)

(* DiskIOService::process(WriteData): the files are written before the     *)
(* answer is sent.                                                         *)
AnswersBeforeWriting ==                  \* mutant
    /\ toDisk # <<>> /\ Len(fromDisk) < MaxQueue
    /\ toDisk' = Tail(toDisk)
    /\ fromDisk' = Append(fromDisk, Head(toDisk).piece)
    /\ UNCHANGED <<psmVars, protocolVars, isComplete, toPersist, fromPersist, fileVars, stored,
                   faults>>

DiskWrites ==
    /\ toDisk # <<>> /\ Len(fromDisk) < MaxQueue
    /\ toDisk' = Tail(toDisk)
    /\ onDisk' = onDisk \cup {Head(toDisk).piece}
    /\ unwritten' = unwritten \ {Head(toDisk).piece}
    /\ fromDisk' = Append(fromDisk, Head(toDisk).piece)
    /\ UNCHANGED <<psmVars, protocolVars, isComplete, toPersist, fromPersist, stored, faults>>

(* The file cannot be opened or written; the answer is the same. *)
DiskFails ==
    /\ toDisk # <<>> /\ Len(fromDisk) < MaxQueue /\ faults < MaxFaults
    /\ toDisk' = Tail(toDisk)
    /\ unwritten' = unwritten \cup {Head(toDisk).piece}
    /\ fromDisk' = Append(fromDisk, Head(toDisk).piece)
    /\ faults' = faults + 1
    /\ UNCHANGED <<psmVars, protocolVars, isComplete, toPersist, fromPersist, onDisk, stored>>

(* BitTorrentManager::process(WriteSuccess) *)
WriteSucceeded ==
    /\ fromDisk # <<>> /\ Len(toPersist) < MaxQueue
    /\ fromDisk' = Tail(fromDisk)
    /\ toPersist' = Append(toPersist, [type |-> "PieceComplete", piece |-> Head(fromDisk)])
    /\ UNCHANGED <<psmVars, protocolVars, isComplete, toDisk, fromPersist, fileVars, stored,
                   faults>>

(* PersistService::processBtEvent, PersistClient::addPiece *)
StoresPiece ==
    /\ toPersist # <<>> /\ Head(toPersist).type = "PieceComplete"
    /\ toPersist' = Tail(toPersist)
    /\ stored' = stored \cup {Head(toPersist).piece}
    /\ UNCHANGED <<psmVars, protocolVars, isComplete, toDisk, fromDisk, fromPersist, fileVars,
                   faults>>

(* PersistClient::loadPieces *)
LoadsPieces ==
    /\ toPersist # <<>> /\ Head(toPersist).type = "LoadPieces"
    /\ Len(fromPersist) < MaxQueue
    /\ toPersist' = Tail(toPersist)
    /\ fromPersist' = Append(fromPersist, stored)
    /\ UNCHANGED <<psmVars, protocolVars, isComplete, toDisk, fromDisk, fileVars, stored, faults>>

(* BitTorrentManager::process(Pieces): populate adds what the database     *)
(* lacks to mAvailable and never takes anything away.                      *)
Populate(done) == Pieces \ done

PiecesLoaded ==
    /\ fromPersist # <<>>
    /\ fromPersist' = Tail(fromPersist)
    /\ populated' = TRUE
    /\ mAvailable' = mAvailable \cup Populate(Head(fromPersist))
    /\ IF mAvailable' = {} THEN UpdateTorrentCompleted({}) ELSE UNCHANGED <<leaving, isComplete>>
    /\ UNCHANGED <<mCompletedPieces, mPieceData, active, connections, mPeerChoking,
                   mAmInterested, availablePieces, requested, toDisk, fromDisk, toPersist,
                   fileVars, stored, faults>>

------------------------------------------------------------------------------
(* The user, and the end of the process. *)

StopTorrent ==
    /\ MayStop /\ active /\ faults < MaxFaults
    /\ active' = FALSE
    /\ leaving' = connections
    /\ faults' = faults + 1
    /\ UNCHANGED <<populated, mAvailable, mCompletedPieces, mPieceData, connections,
                   mPeerChoking, mAmInterested, availablePieces, requested, isComplete,
                   queueVars, fileVars, stored>>

(* process(ResumeTorrent): a complete torrent is left alone. *)
ResumeTorrent ==
    /\ ~active /\ ~isComplete /\ Len(toPersist) < MaxQueue
    /\ active' = TRUE
    /\ toPersist' = Append(toPersist, LoadRequest)
    /\ UNCHANGED <<populated, mAvailable, mCompletedPieces, mPieceData, protocolVars,
                   isComplete, toDisk, fromDisk, fromPersist, fileVars, stored, faults>>

(* The process dies and is started again: only files and database survive. *)
Restart ==
    /\ MayStop /\ faults < MaxFaults
    /\ faults' = faults + 1
    /\ populated' = FALSE /\ mAvailable' = {} /\ mCompletedPieces' = {}
    /\ mPieceData' = [i \in Pieces |-> <<>>] /\ active' = TRUE
    /\ connections' = {} /\ leaving' = {} /\ isComplete' = FALSE
    /\ mPeerChoking' = [p \in Peers |-> TRUE]
    /\ mAmInterested' = [p \in Peers |-> FALSE]
    /\ availablePieces' = [p \in Peers |-> {}]
    /\ requested' = [p \in Peers |-> {}]
    /\ toDisk' = <<>> /\ fromDisk' = <<>>
    /\ toPersist' = <<LoadRequest>> /\ fromPersist' = <<>>
    /\ UNCHANGED <<fileVars, stored>>

------------------------------------------------------------------------------
PeerStep(p) == \/ Chokes(p) \/ UnChokes(p) \/ SendsBitfield(p) \/ PieceArrives(p)
               \/ Connects(p) \/ Disconnected(p)
               \/ \E i \in Pieces : SendsHave(p, i)

ServiceStep == \/ DiskWrites \/ DiskFails \/ WriteSucceeded
               \/ StoresPiece \/ LoadsPieces \/ PiecesLoaded

Next == (\E p \in Peers : PeerStep(p)) \/ ServiceStep \/ StopTorrent \/ ResumeTorrent \/ Restart

Spec == Init /\ [][Next]_vars

(* Loyal peers connect, say what they have, unchoke and answer; nobody     *)
(* answers twice for ever; the services run.                               *)
FairSpec == /\ Spec
            /\ WF_vars(DiskWrites) /\ WF_vars(WriteSucceeded) /\ WF_vars(StoresPiece)
            /\ WF_vars(LoadsPieces) /\ WF_vars(PiecesLoaded)
            /\ \A p \in Loyal : /\ WF_vars(Connects(p)) /\ WF_vars(SendsBitfield(p))
                                /\ WF_vars(UnChokes(p)) /\ WF_vars(PieceArrives(p))

------------------------------------------------------------------------------
(* Properties. *)

(* Types; a peer that was asked to go is still connected. *)
TypeOK == /\ populated \in BOOLEAN /\ active \in BOOLEAN /\ isComplete \in BOOLEAN
          /\ mAvailable \subseteq Pieces /\ mCompletedPieces \subseteq Pieces
          /\ mPieceData \in [Pieces -> Seq({"good", "bad"})]
          /\ connections \subseteq Peers /\ leaving \subseteq connections
          /\ mPeerChoking \in [Peers -> BOOLEAN] /\ mAmInterested \in [Peers -> BOOLEAN]
          /\ availablePieces \in [Peers -> SUBSET Pieces]
          /\ requested \in [Peers -> SUBSET Requests]
          /\ toDisk \in Seq([piece : Pieces, data : Seq({"good", "bad"})])
          /\ fromDisk \in Seq(Pieces)
          /\ toPersist \in Seq([type : {"LoadPieces"}]
                                 \cup [type : {"PieceComplete"}, piece : Pieces])
          /\ fromPersist \in Seq(SUBSET Pieces)
          /\ onDisk \subseteq Pieces /\ unwritten \subseteq Pieces /\ stored \subseteq Pieces
          /\ faults \in 0 .. MaxFaults

(* A piece's buffer never holds as much as the whole piece between two     *)
(* events, although several peers append to it, late and twice: getRemaining*)
(* Size() never goes below zero and a request never asks for nothing.      *)
BufferBelowPiece == \A i \in Pieces : Len(mPieceData[i]) < NumBlocks[i]

(* What goes to the disk is the whole piece and nothing but good data,     *)
(* even when good and bad peers have filled the same buffer.               *)
WritesAreVerified ==
    \A k \in 1 .. Len(toDisk) :
        toDisk[k].data = [n \in 1 .. NumBlocks[toDisk[k].piece] |-> "good"]

(* The database never has a piece that the files lack, whenever the        *)
(* process dies, unless a write of that piece has failed, which the disk   *)
(* service reports as a success.                                           *)
StoredIsOnDisk == stored \subseteq onDisk \cup unwritten

(* The pieces that have passed their hash check and are on their way. *)
Underway == {toDisk[k].piece : k \in 1 .. Len(toDisk)}
            \cup {fromDisk[k] : k \in 1 .. Len(fromDisk)}
            \cup {toPersist[k].piece :
                    k \in {j \in 1 .. Len(toPersist) : toPersist[j].type = "PieceComplete"}}

(* Nothing is lost between a hash check and the database: a piece that is  *)
(* neither wanted any more nor stored is on its way through the services.  *)
NothingForgotten == populated => Pieces \subseteq mAvailable \cup Underway \cup stored

(* The app is told that the torrent is complete only when every piece has  *)
(* passed its hash check.                                                  *)
CompleteIsComplete == isComplete => Pieces \subseteq Underway \cup stored

(* Once a loyal peer has every piece, the torrent gets to be complete and  *)
(* all of it gets to be stored.                                            *)
DownloadCompletes == <>[](isComplete /\ stored = Pieces)
==============================================================================
