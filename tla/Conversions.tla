---------------------------- MODULE Conversions ----------------------------
(* The conversions between what the program works with and what it reads   *)
(* and writes outside: messages, bit fields, torrent files, tracker         *)
(* answers and the files of a torrent.  A behaviour converts one input;     *)
(* the properties compare the result with what it should mean.              *)
EXTENDS Metainfo, TrackerMessages, TorrentFiles

CONSTANT Inputs       \* pairs of an operation and what it is given

VARIABLES input, done, result

vars == <<input, done, result>>

op == input[1]
given == input[2]

Init == input \in Inputs /\ done = FALSE /\ result = None

Converts(name, value) ==
    /\ ~done /\ op = name
    /\ done' = TRUE
    /\ result' = value
    /\ UNCHANGED input

(* PeerService::write encodes a message for a peer. *)
SendMessage == Converts("message", Encode(given))

(* PeerService::read decodes what BufferedQueueManager cut out. *)
ReceiveBuffer == Converts("buffer", Decode(given))
ReceiveHandShake == Converts("handshake", DecodeHandShake(given))

(* The pieces of a torrent as a bit field. *)
PackBits == Converts("bits", BitfieldToBytes(given))

(* DiskIOService reads a torrent file. *)
ReadTorrent == Converts("torrent file", FromBdataMetaInfo(given))

(* TrackerClient::poll reads the answer of a tracker. *)
ReadAnswer == Converts("answer", PollResult(given))

(* DiskIOService writes all pieces of a torrent. *)
WriteTorrent == Converts("torrent", Written(given))

Next ==
    \/ SendMessage \/ ReceiveBuffer \/ ReceiveHandShake \/ PackBits
    \/ ReadTorrent \/ ReadAnswer \/ WriteTorrent

Spec == Init /\ [][Next]_vars

Converted(name) == done /\ op = name

-----------------------------------------------------------------------------
(* An encoded message is one frame for BufferedQueueManager, begins with    *)
(* its prefix and is decoded to the same message again (BitTorrentEncoder). *)
MessagesSurvive ==
    Converted("message") =>
        /\ IsPrefix(GetPrefix(given), result)
        /\ IF given.kind = "HandShake"
           THEN IsHandShakeFrame(result) /\ DecodeHandShake(result) = given
           ELSE IsFrame(result) /\ Decode(result) = given

(* Whatever bytes a peer sends: a frame that BufferedQueueManager cuts out  *)
(* is either refused or the very encoding of the message it is taken for;   *)
(* in particular a handshake whose length byte is negative as a char is     *)
(* refused (BitTorrentEncoder::decode, decodeHandShake).                    *)
OnlyCanonical ==
    \/ ~done
    \/ op = "buffer" /\ ~IsFrame(given)
    \/ op = "handshake" /\ ~IsHandShakeFrame(given)
    \/ op \notin {"buffer", "handshake"}
    \/ result.kind = "SerializeError"
    \/ result.kind # "Undefined" /\ Encode(result) = given

(* The pieces a bit field announces are the ones it was made from, with     *)
(* zeros behind them to the end of the byte, and its bytes survive being    *)
(* written as hexadecimal digits (common/utils).                            *)
BitsSurvive ==
    Converted("bits") =>
        /\ LET bits == BytesToBitfield(result)
           IN  /\ SubSeq(bits, 1, Len(given)) = given
               /\ \A n \in Len(given) + 1 .. Len(bits) : ~bits[n]
        /\ Len(result) * Bits < Len(given) + Bits
        /\ HexToBytes(BytesToHex(result)) = result

(* The pieces of a torrent, written one by one, put every byte in the place *)
(* of the file it belongs to, and the requests for a piece ask for each of  *)
(* its bytes once (addTorrent, populate, requestNextPiece, WriteData).      *)
TilesFiles ==
    Converted("torrent") =>
        /\ result = UNION {{<<f, k, SumOf(given.files, f - 1) + k>> : k \in 0 .. given.files[f] - 1} :
                              f \in 1 .. Len(given.files)}
        /\ \A size \in {PieceSizes(given)[i] : i \in 1 .. NumberOfPieces(given)} :
              LET reqs == Requests(size)
              IN  /\ \A k \in DOMAIN reqs : reqs[k].length \in 1 .. StandardPacketSize
                  /\ UNION {reqs[k].begin .. reqs[k].begin + reqs[k].length - 1 : k \in DOMAIN reqs} = 0 .. size - 1
                  /\ FoldLeft(LAMBDA sum, r : sum + r.length, 0, reqs) = size

(* An info dictionary of the form toBdict() writes. *)
Canonical(d) ==
    /\ DOMAIN d \subseteq InfoKeys
    /\ As("str", Find(d, "name")) # None
    /\ Find(d, "md5sum") # Some(Bstring(""))
    /\ ~WrongType("int", Find(d, "private"))
    /\ {"length", "files"} \cap DOMAIN d \in {{"length"}, {"files"}}
    /\ "files" \in DOMAIN d =>
          /\ "md5sum" \notin DOMAIN d
          /\ \A i \in DOMAIN d["files"][2] :
                LET f == d["files"][2][i][2]
                IN  DOMAIN f \subseteq {"length", "path", "md5sum"} /\ Find(f, "md5sum") # Some(Bstring(""))

(* The hash that names a torrent to trackers and peers is that of the info  *)
(* dictionary in its file, although it is taken of one that is written anew *)
(* (TorrentMeta, toBdict): for dictionaries without keys, or empty values,  *)
(* that the program drops.                                                  *)
HashKept ==
    (Converted("torrent file") /\ IsRight(result) /\ Canonical(given[2]["info"][2])) =>
        TorrentMeta(result[2]).infoHash = given[2]["info"][2]

(* A well-formed answer of a tracker. *)
WellFormedPeers(bd) ==
    \/ bd[1] = "str" /\ Len(bd[2]) % GroupLen = 0
    \/ /\ bd[1] = "list"
       /\ \A i \in DOMAIN bd[2] :
             /\ bd[2][i][1] = "dict"
             /\ \A k \in {"peer id", "ip"} : As("str", Find(bd[2][i][2], k)) # None
             /\ As("int", Find(bd[2][i][2], "port")) # None

WellFormed(d) ==
    /\ {"peers", "interval", "complete", "incomplete"} \subseteq DOMAIN d
    /\ "failure reason" \notin DOMAIN d
    /\ \A k \in {"interval", "complete", "incomplete"} : d[k][1] = "int"
    /\ WellFormedPeers(d["peers"])

(* A tracker's answer is understood exactly when it is well-formed, and the *)
(* announce made from it has its interval and its peers, in order and with  *)
(* their ports (TrackerResponse::decode, toAnnounce).                       *)
AnnounceFaithful ==
    Converted("answer") =>
        /\ IsRight(result) <=> (given[1] = "dict" /\ WellFormed(given[2]))
        /\ IsRight(result) =>
              LET ann == ToAnnounce(result[2])
                  peers == given[2]["peers"]
              IN  /\ ann.interval = given[2]["interval"][2]
                  /\ peers[1] = "str" =>
                        FlattenSeq([i \in DOMAIN ann.peers |->
                                       ann.peers[i].ip \o IntToBytes(ann.peers[i].port, Short)]) = peers[2]
                  /\ peers[1] = "list" =>
                        /\ Len(ann.peers) = Len(peers[2])
                        /\ \A i \in DOMAIN peers[2] :
                              ann.peers[i] = [ip |-> peers[2][i][2]["ip"][2], port |-> peers[2][i][2]["port"][2]]
=============================================================================
