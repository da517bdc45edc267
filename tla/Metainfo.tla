----------------------------- MODULE Metainfo -----------------------------
(* From the dictionary of a torrent file to MetaInfo and TorrentMeta, and  *)
(* back to the info dictionary whose hash names the torrent everywhere:    *)
(* Bencode.cpp, MetaInfo.h and TorrentMeta.cpp.                            *)
EXTENDS Bencoded, SequencesExt, FiniteSetsExt

(* The keys of an info dictionary the program reads. *)
InfoKeys == {"name", "length", "md5sum", "files", "piece length", "pieces", "private"}

-----------------------------------------------------------------------------
(* fromBdict, for each structure.                                          *)

FromBdictSingleFile(d) ==
    LET length == As("int", Find(d, "length"))
    IN  IF WrongType("str", Find(d, "md5sum")) THEN Throws
        ELSE IF length = None THEN Left
        ELSE Right([name |-> FromMaybe(As("str", Find(d, "name")), ""), length |-> length[1],
                    md5sum |-> FromMaybe(As("str", Find(d, "md5sum")), "")])

(* All the elements of a path have to be strings. *)
PathOf(d) ==
    LET path == As("list", Find(d, "path"))
    IN  IF path # None /\ \A i \in DOMAIN path[1] : path[1][i][1] = "str"
        THEN Some([i \in DOMAIN path[1] |-> path[1][i][2]]) ELSE None

FromBdictFileInfo(d) ==
    IF \/ WrongType("int", Find(d, "length"))
       \/ WrongType("str", Find(d, "md5sum"))
       \/ WrongType("list", Find(d, "path"))
    THEN Throws
    ELSE IF PathOf(d) = None \/ "length" \notin DOMAIN d THEN Left
    ELSE Right([length |-> d["length"][2], md5sum |-> FromMaybe(As("str", Find(d, "md5sum")), ""),
                path |-> PathOf(d)[1]])

FromBdataFileInfo(bd) == IF bd[1] = "dict" THEN FromBdictFileInfo(bd[2]) ELSE Left

FromBdictMultiFile(d) ==
    LET list == d["files"][2]
        files == IF "files" \in DOMAIN d THEN MmapVector([i \in DOMAIN list |-> FromBdataFileInfo(list[i])]) ELSE Left
    IN  IF WrongType("str", Find(d, "name")) \/ WrongType("list", Find(d, "files")) THEN Throws
        ELSE IF ~IsRight(files) THEN files
        ELSE Right([name |-> FromMaybe(As("str", Find(d, "name")), ""), files |-> files[2]])

(* Both file modes are tried whatever the first one gives; a single file   *)
(* wins.                                                                    *)
FromBdictInfoDict(d) ==
    LET single == FromBdictSingleFile(d)
        multi == FromBdictMultiFile(d)
        fileMode == EitherOf(single, multi)
    IN  IF As("int", Find(d, "piece length")) = None \/ As("str", Find(d, "pieces")) = None THEN Left
        ELSE IF Throws \in {single, multi} THEN Throws
        ELSE IF ~IsRight(fileMode) THEN Left
        ELSE Right([pieceLength |-> d["piece length"][2], pieces |-> d["pieces"][2],
                    publish |-> As("int", Find(d, "private")),
                    single |-> IsRight(single), fileMode |-> fileMode[2]])

(* The lists of the announce list, one after the other; what is not a      *)
(* string in them is left out.                                              *)
MakeAnnounceList(bl) ==
    FlattenSeq([i \in DOMAIN bl |->
        LET urls == SelectSeq(bl[i][2], LAMBDA bd : bd[1] = "str")
        IN  [j \in DOMAIN urls |-> urls[j][2]]])

FromBdataMetaInfo(bd) ==
    LET m == bd[2]
        announce == As("str", Find(m, "announce"))
        annL == FromMaybe(As("list", Find(m, "announce-list")), <<>>)
        info == IF "info" \in DOMAIN m /\ m["info"][1] = "dict" THEN FromBdictInfoDict(m["info"][2]) ELSE Left
    IN  IF bd[1] # "dict" THEN Left
        ELSE IF \E i \in DOMAIN annL : annL[i][1] # "list" THEN Throws
        ELSE IF ~IsRight(info) THEN info
        ELSE IF announce = None THEN Left
        ELSE Right([announce |-> announce[1], announceList |-> MakeAnnounceList(annL), info |-> info[2]])

-----------------------------------------------------------------------------
(* toBdict, for each structure.  An empty md5sum is left out, and so is    *)
(* "private" if it is not set.                                              *)

Entry(key, value) == [k \in {key} |-> value]
EntryIf(present, key, value) == IF present THEN Entry(key, value) ELSE [k \in {} |-> value]
Insert(d, e) == [k \in DOMAIN d \cup DOMAIN e |-> IF k \in DOMAIN d THEN d[k] ELSE e[k]]

FileInfoToBdict(fi) ==
    Insert(Insert(Entry("length", Bint(fi.length)), EntryIf(fi.md5sum # "", "md5sum", Bstring(fi.md5sum))),
           Entry("path", Blist([i \in DOMAIN fi.path |-> Bstring(fi.path[i])])))

SingleFileToBdict(sf) ==
    Insert(Insert(Entry("length", Bint(sf.length)), EntryIf(sf.md5sum # "", "md5sum", Bstring(sf.md5sum))),
           Entry("name", Bstring(sf.name)))

MultiFileToBdict(mf) ==
    Insert(Entry("name", Bstring(mf.name)),
           Entry("files", Blist([i \in DOMAIN mf.files |-> Bdict(FileInfoToBdict(mf.files[i]))])))

(* Mutant: "private" is never written back. *)
PrivateIsLost(id) ==
    Insert(Insert(IF id.single THEN SingleFileToBdict(id.fileMode) ELSE MultiFileToBdict(id.fileMode),
                  Entry("piece length", Bint(id.pieceLength))),
           Entry("pieces", Bstring(id.pieces)))

InfoDictToBdict(id) ==
    Insert(Insert(Insert(IF id.single THEN SingleFileToBdict(id.fileMode) ELSE MultiFileToBdict(id.fileMode),
                         Entry("piece length", Bint(id.pieceLength))),
                  Entry("pieces", Bstring(id.pieces))),
           IF id.publish = None THEN EntryIf(FALSE, "private", 0) ELSE Entry("private", Bint(id.publish[1])))

-----------------------------------------------------------------------------
(* TorrentMeta: one list of files whatever the mode.  Without a name the   *)
(* single file has the name of the torrent file and the directory its stem *)
(* ("" here: the name of the torrent file is not part of the input).        *)
TorrentMeta(mi) ==
    [files |-> IF mi.info.single
               THEN <<[length |-> mi.info.fileMode.length, md5sum |-> mi.info.fileMode.md5sum,
                       path |-> <<mi.info.fileMode.name>>]>>
               ELSE mi.info.fileMode.files,
     infoHash |-> InfoDictToBdict(mi.info)]

(* getSize. *)
GetSize(tm) == FoldLeft(LAMBDA sum, f : sum + f.length, 0, tm.files)
=============================================================================
