-------------------------- MODULE TorrentLifecycle --------------------------
(***************************************************************************)
(* The life of a torrent through the services: a command of the user goes  *)
(* from TorrentDisplay and TorrentController to BitTorrentManager, from    *)
(* there to DiskIOService and PersistService, and comes back as answers    *)
(* that change what the display shows; the process may end, die and be     *)
(* started again at any moment.                                            *)
(*                                                                         *)
(* The services are threads that take their queues' events one at a time;  *)
(* a service with several queues may take from any that is not empty,      *)
(* since an event may arrive just after its queue was found empty.  The    *)
(* download itself is TorrentDownload's subject, and so are writes that    *)
(* fail: here a piece is finished at once and written when its turn comes. *)
(* A torrent file is named by the info hash it leads to.                   *)
(***************************************************************************)
EXTENDS Naturals, Sequences, SequencesExt, FiniteSets

CONSTANTS Torrents, Pieces,
          NoHash,        \* the info hash of a default TorrentDisplayEntry
          MaxTurns       \* bound on the user's commands and on restarts

ASSUME LifecycleAssumption == /\ Pieces # {} /\ NoHash \notin Torrents
                              /\ MaxTurns \in Nat

Hashes == Torrents \cup {NoHash}
Services == {"app", "btm", "disk", "persist"}
Channels == {"appToBtm", "btmToApp", "btmToPersist", "persistToBtm",
             "btmToDisk", "diskToBtm", "appToPersist", "persistToApp"}

VARIABLES
    q,           \* the queues between the services
    active,      \* the services whose thread runs
    \* TorrentController
    idTorrentMap, hashToIdMap, idCounter,
    \* BitTorrentManager
    torrents,    \* torrents[ih].isComplete
    pieceMan,    \* active, and mAvailable
    announced,   \* torrents whose trackers were asked, which brings peers
    \* DiskIOService
    known,       \* its torrents
    onDisk,      \* the pieces that are in the files of each torrent
    \* PersistService
    db,          \* the torrents in the database, with their complete pieces
    torrentIds,
    \* history: what has happened to a torrent that the code does not expect
    history, turns

appVars == <<idTorrentMap, hashToIdMap, idCounter>>
btmVars == <<torrents, pieceMan, announced>>
persistVars == <<db, torrentIds>>
vars == <<q, active, appVars, btmVars, known, onDisk, persistVars, history, turns>>

Empty == [k \in {} |-> {}]
With(f, k, v) == [x \in DOMAIN f \cup {k} |-> IF x = k THEN v ELSE f[x]]
Without(f, k) == [x \in DOMAIN f \ {k} |-> f[x]]
Note(what, h) == history' = history \cup {<<what, h>>}

(* TorrentController::run loads the known torrents first. *)
Started == [[c \in Channels |-> <<>>] EXCEPT !["appToPersist"] = << <<"LoadTorrents">> >>]

Init == /\ q = Started /\ active = Services
        /\ idTorrentMap = Empty /\ hashToIdMap = Empty /\ idCounter = 0
        /\ torrents = Empty /\ pieceMan = Empty /\ announced = {}
        /\ known = {} /\ onDisk = [h \in Torrents |-> {}]
        /\ db = Empty /\ torrentIds = {}
        /\ history = {} /\ turns = 0

(* The events that sent has for some of the queues, pushed in order. *)
Deliver(queues, sent) ==
    [c \in Channels |-> IF c \in DOMAIN sent THEN queues[c] \o sent[c] ELSE queues[c]]

Nothing == [c \in {} |-> <<>>]

Pushes(sent) == q' = Deliver(q, sent)

(* Service s takes an event of the type from a queue, and answers it. *)
Event(c) == Head(q[c])
Takes(s, c, type) == s \in active /\ q[c] # <<>> /\ Event(c)[1] = type
Answers(c, sent) == q' = Deliver([q EXCEPT ![c] = Tail(@)], sent)

------------------------------------------------------------------------------
(* The user: TorrentDisplay::parseCommand and TorrentController.  What     *)
(* parseCommand refuses (an unknown command, an identifier that is no      *)
(* number) changes nothing.                                                *)
Command == "app" \in active /\ turns < MaxTurns /\ turns' = turns + 1

addTorrent(h) ==
    /\ Command /\ Pushes([appToBtm |-> << <<"Add", h>> >>])
    /\ UNCHANGED <<active, appVars, btmVars, known, onDisk, persistVars, history>>

stopTorrent(id) ==
    /\ Command /\ id \in DOMAIN idTorrentMap
    /\ Pushes([appToBtm |-> << <<"Stop", idTorrentMap[id].hash>> >>])
    /\ UNCHANGED <<active, appVars, btmVars, known, onDisk, persistVars, history>>

resumeTorrent(id) ==
    /\ Command /\ id \in DOMAIN idTorrentMap
    /\ Pushes([appToBtm |-> << <<"Resume", idTorrentMap[id].hash>> >>])
    /\ UNCHANGED <<active, appVars, btmVars, known, onDisk, persistVars, history>>

(* Mutant: the entry stays until the torrent has been removed. *)
RemovesLater(id) ==
    /\ Command /\ id \in DOMAIN idTorrentMap
    /\ Pushes([appToBtm |-> << <<"Remove", idTorrentMap[id].hash>> >>])
    /\ UNCHANGED <<active, appVars, btmVars, known, onDisk, persistVars, history>>

(* The info hash that is sent is read from the entry after it was erased:  *)
(* what was there, or another value.                                       *)
removeTorrent(id) ==
    /\ Command /\ id \in DOMAIN idTorrentMap
    /\ hashToIdMap' = Without(hashToIdMap, idTorrentMap[id].hash)
    /\ idTorrentMap' = Without(idTorrentMap, id)
    /\ \E read \in {idTorrentMap[id].hash, NoHash} :
          /\ Pushes([appToBtm |-> << <<"Remove", read>> >>])
          /\ IF read = idTorrentMap[id].hash THEN UNCHANGED history
             ELSE Note("misread", idTorrentMap[id].hash)
    /\ UNCHANGED <<active, idCounter, btmVars, known, onDisk, persistVars>>

(* exit, by command or by the escape key, also ends the display's loop. *)
exit ==
    /\ Command /\ active' = active \ {"app"}
    /\ Pushes([appToBtm |-> << <<"Shutdown">> >>])
    /\ UNCHANGED <<appVars, btmVars, known, onDisk, persistVars, history>>

------------------------------------------------------------------------------
(* TorrentController::readResponses. *)

(* A new entry for each of the info hashes, which is started; emplace does *)
(* not replace the id that an info hash has.  A new entry has downloaded   *)
(* nothing, so it is never found to be complete.                           *)
NewEntries(c, hashes) ==
    LET ids == [i \in 1 .. Len(hashes) |-> idCounter + i]
        id(h) == CHOOSE n \in Range(ids) : hashes[n - idCounter] = h
    IN  /\ idCounter' = idCounter + Len(hashes)
        /\ idTorrentMap' = [n \in DOMAIN idTorrentMap \cup Range(ids) |->
                               IF n \in Range(ids)
                               THEN [hash |-> hashes[n - idCounter], state |-> "Running"]
                               ELSE idTorrentMap[n]]
        /\ hashToIdMap' = [h \in DOMAIN hashToIdMap \cup Range(hashes) |->
                              IF h \in DOMAIN hashToIdMap THEN hashToIdMap[h] ELSE id(h)]
        /\ Answers(c, [appToBtm |-> [i \in 1 .. Len(hashes) |-> <<"Start", hashes[i]>>]])
        /\ UNCHANGED <<active, btmVars, known, onDisk, persistVars, history, turns>>

AddedTorrent == /\ Takes("app", "btmToApp", "Added")
                /\ NewEntries("btmToApp", <<Event("btmToApp")[2]>>)

AllTorrents == /\ Takes("app", "persistToApp", "AllTorrents")
               /\ NewEntries("persistToApp", SetToSeq(Event("persistToApp")[2]))

StateShown(type) == CASE type = "Stopped" -> "Stopped"
                      [] type = "Completed" -> "Completed"
                      [] type = "Resumed" -> "Running"

(* StoppedTorrent, CompletedTorrent, ResumedTorrent: hashToIdMap[] and     *)
(* idTorrentMap[] make an entry, with id 0, for a torrent that is gone.    *)
StateChanges ==
    \E type \in {"Stopped", "Completed", "Resumed"} :
        /\ Takes("app", "btmToApp", type)
        /\ LET h == Event("btmToApp")[2]
               id == IF h \in DOMAIN hashToIdMap THEN hashToIdMap[h] ELSE 0
               hash == IF id \in DOMAIN idTorrentMap THEN idTorrentMap[id].hash ELSE NoHash
           IN  /\ hashToIdMap' = With(hashToIdMap, h, id)
               /\ idTorrentMap' = With(idTorrentMap, id,
                                       [hash |-> hash, state |-> StateShown(type)])
               /\ IF id = 0 THEN Note("ghost", h) ELSE UNCHANGED history
        /\ Answers("btmToApp", Nothing)
        /\ UNCHANGED <<active, idCounter, btmVars, known, onDisk, persistVars, turns>>

(* AddTorrentError and RemovedTorrent are only shown or logged. *)
OnlyShown ==
    /\ \E type \in {"AddError", "Removed"} : Takes("app", "btmToApp", type)
    /\ Answers("btmToApp", Nothing)
    /\ UNCHANGED <<active, appVars, btmVars, known, onDisk, persistVars, history, turns>>

------------------------------------------------------------------------------
(* BitTorrentManager. *)
IsComplete(h) == h \in DOMAIN torrents /\ torrents[h]
MissingPieces(h) == IF h \in DOMAIN pieceMan THEN pieceMan[h].mAvailable ELSE {}

(* updateTorrentCompleted tells the app once. *)
UpdateTorrentCompleted(h) == torrents' = With(torrents, h, TRUE)
NeverTold(h) == <<>>      \* mutant
CompletedOnce(h) == IF IsComplete(h) THEN <<>> ELSE << <<"Completed", h>> >>

(* Events that only go on to another service. *)
Forwards(c, type, to, as) ==
    /\ Takes("btm", c, type)
    /\ Answers(c, [t \in {to} |-> << [Event(c) EXCEPT ![1] = as] >>])
    /\ UNCHANGED <<active, appVars, btmVars, known, onDisk, persistVars, history, turns>>

ProcessAdd == Forwards("appToBtm", "Add", "btmToDisk", "Read")
ProcessReadSuccess == Forwards("diskToBtm", "ReadSuccess", "btmToPersist", "AddTorrent")
ProcessAdded == Forwards("persistToBtm", "Added", "btmToApp", "Added")
ProcessExists == Forwards("persistToBtm", "Exists", "btmToApp", "AddError")
ProcessInitialized == Forwards("diskToBtm", "Initialized", "btmToPersist", "LoadPieces")
ProcessWriteSuccess == Forwards("diskToBtm", "WriteSuccess", "btmToPersist", "PieceComplete")

ProcessStart ==
    /\ Takes("btm", "appToBtm", "Start")
    /\ LET h == Event("appToBtm")[2] IN
       \/ /\ IsComplete(h)
          /\ Answers("appToBtm", [btmToApp |-> << <<"Completed", h>> >>])
          /\ UNCHANGED <<torrents, pieceMan>>
       \/ /\ ~IsComplete(h)
          /\ torrents' = With(torrents, h, FALSE)
          /\ pieceMan' = With(pieceMan, h, [active |-> TRUE, mAvailable |-> MissingPieces(h)])
          /\ Answers("appToBtm", [btmToApp |-> << <<"Resumed", h>> >>,
                                  btmToDisk |-> << <<"Init", h>> >>])
    /\ UNCHANGED <<active, appVars, announced, known, onDisk, persistVars, history, turns>>

(* pieceMan[] makes an entry for an unknown torrent. *)
ProcessStop ==
    /\ Takes("btm", "appToBtm", "Stop")
    /\ LET h == Event("appToBtm")[2] IN
       /\ pieceMan' = With(pieceMan, h, [active |-> FALSE, mAvailable |-> MissingPieces(h)])
       /\ Answers("appToBtm", [btmToApp |-> << <<"Stopped", h>> >>])
    /\ UNCHANGED <<active, appVars, torrents, announced, known, onDisk, persistVars, history,
                   turns>>

(* An unknown torrent is reported, and read nevertheless: either answer.   *)
ProcessResume ==
    /\ Takes("btm", "appToBtm", "Resume")
    /\ LET h == Event("appToBtm")[2] IN
       \E isComplete \in IF h \in DOMAIN torrents THEN {torrents[h]} ELSE BOOLEAN :
          \/ /\ isComplete
             /\ Answers("appToBtm", [btmToApp |-> << <<"Completed", h>> >>])
             /\ UNCHANGED pieceMan
          \/ /\ ~isComplete
             /\ pieceMan' = IF h \in DOMAIN pieceMan
                            THEN [pieceMan EXCEPT ![h].active = TRUE] ELSE pieceMan
             /\ Answers("appToBtm", [btmToApp |-> << <<"Resumed", h>> >>,
                                     btmToPersist |-> << <<"LoadPieces", h>> >>])
    /\ UNCHANGED <<active, appVars, torrents, announced, known, onDisk, persistVars, history,
                   turns>>

(* What the disk service is still doing for a torrent. *)
Initializing(h) == <<"Init", h>> \in Range(q["btmToDisk"])
                   \/ <<"Initialized", h>> \in Range(q["diskToBtm"])

(* An announce that is on its way may still bring peers afterwards. *)
ProcessRemove ==
    /\ Takes("btm", "appToBtm", "Remove")
    /\ LET h == Event("appToBtm")[2] IN
       /\ torrents' = Without(torrents, h) /\ pieceMan' = Without(pieceMan, h)
       /\ announced' \in {announced, announced \ {h}}
       /\ IF Initializing(h) \/ h \in announced' THEN Note("late", h) ELSE UNCHANGED history
       /\ Answers("appToBtm", [btmToPersist |-> << <<"Remove", h>> >>,
                               btmToApp |-> << <<"Removed", h>> >>])
    /\ UNCHANGED <<active, appVars, known, onDisk, persistVars, turns>>

(* Mutant: the disk service is not told. *)
ForgetsDisk ==
    /\ Takes("btm", "appToBtm", "Shutdown")
    /\ active' = active \ {"btm"}
    /\ Answers("appToBtm", [btmToPersist |-> << <<"Shutdown">> >>])
    /\ UNCHANGED <<appVars, btmVars, known, onDisk, persistVars, history, turns>>

ProcessShutdown ==
    /\ Takes("btm", "appToBtm", "Shutdown")
    /\ active' = active \ {"btm"}
    /\ Answers("appToBtm", [btmToPersist |-> << <<"Shutdown">> >>,
                            btmToDisk |-> << <<"Shutdown">> >>])
    /\ UNCHANGED <<appVars, btmVars, known, onDisk, persistVars, history, turns>>

(* Pieces: populate adds what is missing and takes nothing away; with      *)
(* nothing missing the torrent is complete.                                *)
ProcessPieces ==
    /\ Takes("btm", "persistToBtm", "Pieces")
    /\ LET h == Event("persistToBtm")[2]
           missing == MissingPieces(h) \cup Event("persistToBtm")[3]
       IN  /\ pieceMan' = With(pieceMan, h, [active |-> h \in DOMAIN pieceMan /\ pieceMan[h].active,
                                             mAvailable |-> missing])
           /\ \/ /\ missing # {} /\ UNCHANGED torrents
                 /\ Answers("persistToBtm", [btmToPersist |-> << <<"LoadTrackers", h>> >>])
              \/ /\ missing = {} /\ UpdateTorrentCompleted(h)
                 /\ Answers("persistToBtm", [btmToApp |-> CompletedOnce(h)])
    /\ UNCHANGED <<active, appVars, announced, known, onDisk, persistVars, history, turns>>

ProcessTrackers ==
    /\ Takes("btm", "persistToBtm", "Trackers")
    /\ announced' = announced \cup ({Event("persistToBtm")[2]} \cap DOMAIN torrents)
    /\ Answers("persistToBtm", Nothing)
    /\ UNCHANGED <<active, appVars, torrents, pieceMan, known, onDisk, persistVars, history,
                   turns>>

(* The peers' events.  A peer has brought the rest of a missing piece; the *)
(* last one completes a torrent that is not stopped.                       *)
HasPeers(h) == "btm" \in active /\ h \in announced \cap DOMAIN pieceMan \cap DOMAIN torrents

PieceFinished(h, p) ==
    /\ HasPeers(h) /\ p \in pieceMan[h].mAvailable
    /\ LET missing == pieceMan[h].mAvailable \ {p}
           write == << <<"Write", h, p>> >>
       IN  /\ pieceMan' = [pieceMan EXCEPT ![h].mAvailable = missing]
           /\ IF missing = {} /\ pieceMan[h].active
              THEN /\ UpdateTorrentCompleted(h)
                   /\ Pushes([btmToDisk |-> write, btmToApp |-> CompletedOnce(h)])
              ELSE Pushes([btmToDisk |-> write]) /\ UNCHANGED torrents
    /\ UNCHANGED <<active, appVars, announced, known, onDisk, persistVars, history, turns>>

(* A peer that is asked for the next piece when none is missing. *)
NothingMissing(h) ==
    /\ HasPeers(h) /\ pieceMan[h].mAvailable = {} /\ pieceMan[h].active /\ ~IsComplete(h)
    /\ UpdateTorrentCompleted(h) /\ Pushes([btmToApp |-> CompletedOnce(h)])
    /\ UNCHANGED <<active, appVars, pieceMan, announced, known, onDisk, persistVars, history,
                   turns>>

------------------------------------------------------------------------------
(* DiskIOService. *)

(* A file that cannot be opened, parsed or converted is logged only. *)
DiskRead ==
    /\ Takes("disk", "btmToDisk", "Read")
    /\ \E sent \in {Nothing, [diskToBtm |-> << <<"ReadSuccess", Event("btmToDisk")[2]>> >>]} :
          Answers("btmToDisk", sent)
    /\ UNCHANGED <<active, appVars, btmVars, known, onDisk, persistVars, history, turns>>

(* Mutant: the files of a torrent are made anew. *)
Truncates(h) == onDisk' = [onDisk EXCEPT ![h] = {}]

CreateFile(h) == UNCHANGED onDisk      \* a file that exists is left alone

(* A torrent that was known, or whose files cannot be made, gets no answer. *)
DiskInit ==
    /\ Takes("disk", "btmToDisk", "Init")
    /\ LET h == Event("btmToDisk")[2] IN
       /\ known' = known \cup {h}
       /\ \/ /\ h \notin known
             /\ Answers("btmToDisk", [diskToBtm |-> << <<"Initialized", h>> >>])
             /\ CreateFile(h)
             /\ UNCHANGED history
          \/ /\ h \in known \/ onDisk[h] = {}
             /\ Answers("btmToDisk", Nothing) /\ Note("silent", h)
             /\ UNCHANGED onDisk
    /\ UNCHANGED <<active, appVars, btmVars, persistVars, turns>>

DiskWrite ==
    /\ Takes("disk", "btmToDisk", "Write")
    /\ LET h == Event("btmToDisk")[2]
           p == Event("btmToDisk")[3]
       IN  \/ /\ h \in known
              /\ onDisk' = [onDisk EXCEPT ![h] = @ \cup {p}]
              /\ Answers("btmToDisk", [diskToBtm |-> << <<"WriteSuccess", h, p>> >>])
           \/ /\ h \notin known
              /\ Answers("btmToDisk", Nothing)
              /\ UNCHANGED onDisk
    /\ UNCHANGED <<active, appVars, btmVars, known, persistVars, history, turns>>

DiskShutdown ==
    /\ Takes("disk", "btmToDisk", "Shutdown")
    /\ active' = active \ {"disk"} /\ Answers("btmToDisk", Nothing)
    /\ UNCHANGED <<appVars, btmVars, known, onDisk, persistVars, history, turns>>

------------------------------------------------------------------------------
(* PersistService and PersistClient. *)

PersistAdd ==
    /\ Takes("persist", "btmToPersist", "AddTorrent")
    /\ LET h == Event("btmToPersist")[2] IN
       \/ /\ h \in torrentIds
          /\ Answers("btmToPersist", [persistToBtm |-> << <<"Exists", h>> >>])
          /\ UNCHANGED <<db, torrentIds, history>>
       \/ /\ h \notin torrentIds /\ h \notin DOMAIN db
          /\ db' = With(db, h, {}) /\ torrentIds' = torrentIds \cup {h}
          /\ Answers("btmToPersist", [persistToBtm |-> << <<"Added", h>> >>])
          /\ IF q["appToPersist"] # <<>> THEN Note("early", h) ELSE UNCHANGED history
    /\ UNCHANGED <<active, appVars, btmVars, known, onDisk, turns>>

(* deleteTorrent: the pieces and the torrent. *)
PersistRemove ==
    /\ Takes("persist", "btmToPersist", "Remove")
    /\ LET h == Event("btmToPersist")[2] IN
       /\ db' = IF h \in torrentIds THEN Without(db, h) ELSE db
       /\ torrentIds' = torrentIds \ {h}
    /\ Answers("btmToPersist", Nothing)
    /\ UNCHANGED <<active, appVars, btmVars, known, onDisk, history, turns>>

(* addPiece: nothing for a torrent that is gone. *)
PersistPiece ==
    /\ Takes("persist", "btmToPersist", "PieceComplete")
    /\ LET h == Event("btmToPersist")[2] IN
       db' = IF h \in torrentIds
             THEN [db EXCEPT ![h] = @ \cup {Event("btmToPersist")[3]}] ELSE db
    /\ Answers("btmToPersist", Nothing)
    /\ UNCHANGED <<active, appVars, btmVars, known, onDisk, torrentIds, history, turns>>

(* loadPieces: the pieces that are not complete; a torrent that is gone    *)
(* has no pieces.                                                          *)
PersistLoadPieces ==
    /\ Takes("persist", "btmToPersist", "LoadPieces")
    /\ LET h == Event("btmToPersist")[2]
           missing == IF h \in torrentIds THEN Pieces \ db[h] ELSE {}
       IN  Answers("btmToPersist", [persistToBtm |-> << <<"Pieces", h, missing>> >>])
    /\ UNCHANGED <<active, appVars, btmVars, known, onDisk, persistVars, history, turns>>

PersistLoadTrackers ==
    /\ Takes("persist", "btmToPersist", "LoadTrackers")
    /\ Answers("btmToPersist", [persistToBtm |-> << <<"Trackers", Event("btmToPersist")[2]>> >>])
    /\ UNCHANGED <<active, appVars, btmVars, known, onDisk, persistVars, history, turns>>

PersistLoadTorrents ==
    /\ Takes("persist", "appToPersist", "LoadTorrents")
    /\ torrentIds' = torrentIds \cup DOMAIN db
    /\ Answers("appToPersist", [persistToApp |-> << <<"AllTorrents", DOMAIN db>> >>])
    /\ UNCHANGED <<active, appVars, btmVars, known, onDisk, db, history, turns>>

PersistShutdown ==
    /\ Takes("persist", "btmToPersist", "Shutdown")
    /\ active' = active \ {"persist"} /\ Answers("btmToPersist", Nothing)
    /\ UNCHANGED <<appVars, btmVars, known, onDisk, persistVars, history, turns>>

------------------------------------------------------------------------------
(* The end of the process: files and database stay. *)
MemoryLost ==
    /\ idTorrentMap' = Empty /\ hashToIdMap' = Empty /\ idCounter' = 0
    /\ torrents' = Empty /\ pieceMan' = Empty /\ announced' = {}
    /\ known' = {} /\ torrentIds' = {} /\ history' = {}

(* addTorrent of a torrent that is stored but has not been loaded violates *)
(* the unique column of the table, and nobody catches the exception.       *)
PersistThrows ==
    /\ Takes("persist", "btmToPersist", "AddTorrent")
    /\ Event("btmToPersist")[2] \in DOMAIN db \ torrentIds
    /\ active' = {} /\ q' = [c \in Channels |-> <<>>]
    /\ MemoryLost
    /\ UNCHANGED <<onDisk, db, turns>>

(* A start after an exit, an exception, or a crash at any moment. *)
Restart ==
    /\ turns < MaxTurns /\ turns' = turns + 1
    /\ active' = Services /\ q' = Started
    /\ MemoryLost
    /\ UNCHANGED <<onDisk, db>>

User == \/ \E h \in Torrents : addTorrent(h)
        \/ \E id \in DOMAIN idTorrentMap : stopTorrent(id) \/ resumeTorrent(id) \/ removeTorrent(id)
        \/ exit

App == AddedTorrent \/ AllTorrents \/ StateChanges \/ OnlyShown

BtmApp == \/ ProcessAdd \/ ProcessStart \/ ProcessStop \/ ProcessResume \/ ProcessRemove
          \/ ProcessShutdown
BtmDisk == ProcessReadSuccess \/ ProcessInitialized \/ ProcessWriteSuccess
BtmPersist == ProcessAdded \/ ProcessExists \/ ProcessPieces \/ ProcessTrackers
Peers == \E h \in Torrents : NothingMissing(h) \/ \E p \in Pieces : PieceFinished(h, p)

Disk == DiskRead \/ DiskInit \/ DiskWrite \/ DiskShutdown

PersistBtm == \/ PersistAdd \/ PersistRemove \/ PersistPiece \/ PersistLoadPieces
              \/ PersistLoadTrackers \/ PersistShutdown

Next == \/ User \/ App \/ BtmApp \/ BtmDisk \/ BtmPersist \/ Peers \/ Disk
        \/ PersistBtm \/ PersistLoadTorrents \/ PersistThrows \/ Restart

Spec == Init /\ [][Next]_vars

------------------------------------------------------------------------------
(* Properties. *)

(* What the code does not expect has happened to the torrent since the     *)
(* process was started:                                                    *)
(*   late     it was removed while the disk service prepared its files or  *)
(*            while a tracker was being asked                              *)
(*   early    it was added before the known torrents were loaded           *)
(*   misread  removeTorrent read another info hash from the erased entry   *)
(*   ghost    an answer came for it when its entry was gone                *)
(*   silent   the disk service did not answer its InitTorrent              *)
Unexpected(kinds, h) == \E k \in kinds : <<k, h>> \in history

(* Entries of the display, and pieces that are about to be written. *)
Shown(h) == {id \in DOMAIN idTorrentMap : idTorrentMap[id].hash = h}
Writing(h) == {p \in Pieces : <<"Write", h, p>> \in Range(q["btmToDisk"])}

(* A torrent that the display shows as completed has every piece in its    *)
(* files or in the queue to the disk service, through stops, resumes,      *)
(* removals, additions and restarts: isComplete and the database are never *)
(* ahead of the data.  Not so for one that is removed while it is prepared *)
(* ("late": loadPieces finds no piece, which counts as all of them, and    *)
(* updateTorrentCompleted makes the torrent again, as complete) or that is *)
(* listed twice ("early").                                                 *)
ShownCompleteIsStored ==
    \A h \in Torrents : \A id \in Shown(h) :
        idTorrentMap[id].state = "Completed" /\ ~Unexpected({"late", "early"}, h)
            => Pieces \subseteq onDisk[h] \cup Writing(h)

(* When every event has been handled, the controller, BitTorrentManager    *)
(* and the database agree, although each was changed by events of its own: *)
(* a torrent has one entry if it is stored and none if it is not; one that *)
(* runs is active, incomplete and has got as far as its trackers, unless   *)
(* the disk service was silent; one that is stopped or completed is so for *)
(* BitTorrentManager too.                                                  *)
Quiet == active = Services /\ \A c \in Channels : q[c] = <<>>

QuietAgrees ==
    Quiet => \A h \in Torrents : ~Unexpected({"late", "early", "misread", "ghost"}, h) =>
        /\ Cardinality(Shown(h)) = IF h \in DOMAIN db THEN 1 ELSE 0
        /\ \A id \in Shown(h) :
              /\ h \in DOMAIN torrents \cap DOMAIN pieceMan
              /\ CASE idTorrentMap[id].state = "Running" ->
                         /\ pieceMan[h].active /\ ~torrents[h]
                         /\ h \in announced \/ Unexpected({"silent"}, h)
                   [] idTorrentMap[id].state = "Stopped" -> ~pieceMan[h].active
                   [] idTorrentMap[id].state = "Completed" -> torrents[h]

(* ResumeTorrent, which goes on with an iterator past the end for an       *)
(* unknown torrent, only gets torrents that BitTorrentManager knows,       *)
(* whatever removals are on their way: its sender's entry was started      *)
(* before and is erased before a removal is sent.  The exceptions are the  *)
(* nameless entry of a ghost and a torrent that is listed twice.           *)
ResumeKnown ==
    Takes("btm", "appToBtm", "Resume") =>
        LET h == Event("appToBtm")[2] IN
        h \in DOMAIN torrents \/ h = NoHash \/ Unexpected({"early"}, h)

(* Exit ends everybody, after the work that was verified: when             *)
(* BitTorrentManager has ended, a service that still runs has an event to  *)
(* wake it, and the disk service ends only when all has been written.      *)
ExitFinishesWrites ==
    /\ "btm" \notin active => /\ "disk" \in active => q["btmToDisk"] # <<>>
                              /\ "persist" \in active => q["btmToPersist"] # <<>>
    /\ "disk" \notin active => \A h \in Torrents : Writing(h) = {}
=============================================================================
