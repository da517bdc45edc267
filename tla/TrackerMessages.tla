-------------------------- MODULE TrackerMessages --------------------------
(* What a tracker is asked and how its answer is understood:               *)
(* network/http/Request.cpp, and the part of TrackerClient::poll that       *)
(* decodes the answer.  IpLen is 4 and the port has 2 bytes in the program. *)
EXTENDS Bencoded, WireMessages

CONSTANT IpLen

ASSUME IpAssumption == IpLen \in Nat \ {0}

GroupLen == IpLen + Short

(* parsePeersDict: every entry needs an id, an address and a port. *)
ParsePeer(bd) ==
    LET find(type, key) == As(type, Find(bd[2], key))
    IN  IF bd[1] # "dict" THEN Left
        ELSE IF None \in {find("str", "peer id"), find("str", "ip"), find("int", "port")} THEN Left
        ELSE Right([ip |-> bd[2]["ip"][2], port |-> bd[2]["port"][2]])

ParsePeersDict(seq) == MmapVector([i \in DOMAIN seq |-> ParsePeer(seq[i])])

(* Mutant: the bytes of the port are swapped. *)
LittleEndianPort(bytes) == BytesToInt(Reverse(bytes), Short)

(* The port of a group, the most significant byte first. *)
PortOf(bytes) == BytesToInt(bytes, Short)

(* parsePeersBin: groups of an address and a port. *)
ParsePeersBin(bytes) ==
    IF Len(bytes) % GroupLen # 0 THEN Left
    ELSE Right([i \in 1 .. Len(bytes) \div GroupLen |->
                   [ip |-> SubSeq(bytes, (i - 1) * GroupLen + 1, (i - 1) * GroupLen + IpLen),
                    port |-> PortOf(SubSeq(bytes, (i - 1) * GroupLen + IpLen + 1, i * GroupLen))]])

(* The list of peers comes in either form. *)
ParsePeers(d) ==
    IF As("list", Find(d, "peers")) # None THEN ParsePeersDict(d["peers"][2])
    ELSE IF As("str", Find(d, "peers")) # None THEN ParsePeersBin(d["peers"][2])
    ELSE Left

(* TrackerResponse::decode.  (int)minInterval converts the Maybe, so the   *)
(* field says whether there was one.  A failure reason that is no string    *)
(* reads the value of an empty Maybe.                                       *)
DecodeResponse(d) ==
    LET peers == ParsePeers(d)
        ints == {"interval", "complete", "incomplete"}
    IN  IF "failure reason" \in DOMAIN d
        THEN IF WrongType("str", Find(d, "failure reason")) THEN <<"undefined">> ELSE Left
        ELSE IF ~IsRight(peers) \/ \E k \in ints : As("int", Find(d, k)) = None THEN Left
        ELSE Right([interval |-> d["interval"][2],
                    minInterval |-> IF As("int", Find(d, "min interval")) = None THEN 0 ELSE 1,
                    complete |-> d["complete"][2], incomplete |-> d["incomplete"][2],
                    peers |-> peers[2]])

(* toAnnounce. *)
ToAnnounce(response) ==
    [interval |-> response.interval, minInterval |-> response.minInterval, peers |-> response.peers]

(* TrackerClient::poll, for an answer that has arrived: bencoded or not. *)
PollResult(answer) == IF answer[1] # "dict" THEN Left ELSE DecodeResponse(answer[2])
=============================================================================
