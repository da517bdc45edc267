--------------------------- MODULE WireMessages ---------------------------
(* The messages of the peer protocol as bytes: BitTorrentMsg, the          *)
(* BitTorrentEncoder and the conversions of bytes in common/utils.  The    *)
(* widths are parameters, so that TLC can go through buffers of all shapes:*)
(* in the program a byte has 8 bits, a uint32_t 4 bytes, a uint16_t 2,     *)
(* and a handshake has 8 reserved bytes and two ids of 20.                 *)
EXTENDS Integers, Sequences, SequencesExt

CONSTANTS Bits, Word, Short, ReservedLen, IdLen

ASSUME WidthAssumption ==
    /\ {Bits, Word, Short, ReservedLen, IdLen} \subseteq Nat \ {0}
    /\ 2 ^ (Bits - 1) > 9                \* the message types are positive chars
    /\ Short <= Word

Base == 2 ^ Bits
Byte == 0 .. Base - 1

(* intToBytes: the bytes of a value, the most significant first. *)
IntToBytes(n, size) == [i \in 1 .. size |-> (n \div Base ^ (size - i)) % Base]

(* bytesToInt: at most size bytes from the front, fewer if there are fewer. *)
BytesToInt(bytes, size) ==
    FoldLeft(LAMBDA n, b : n * Base + b, 0, SubSeq(bytes, 1, IF Len(bytes) > size THEN size ELSE Len(bytes)))

(* A char is signed: a byte of the upper half becomes a huge uint32_t. *)
CharToUint(c) == IF c < Base \div 2 THEN c ELSE Base ^ Word - Base + c

-----------------------------------------------------------------------------
(* Bit fields and hexadecimal digits.                                      *)

(* bitfieldToBytes: the first piece is the highest bit; the rest of the     *)
(* last byte is zero.                                                       *)
BitfieldToBytes(bits) ==
    [i \in 1 .. (Len(bits) + Bits - 1) \div Bits |->
        FoldLeft(LAMBDA c, j : 2 * c + (IF (i - 1) * Bits + j <= Len(bits) /\ bits[(i - 1) * Bits + j] THEN 1 ELSE 0),
                 0, [j \in 1 .. Bits |-> j])]

(* Mutant: without the mask, as the overload for std::deque does it. *)
ShiftedByte(c, j) == c \div 2 ^ (Bits - 1 - j) # 0

(* The bit the mask picks from a byte, j = 0 being the highest. *)
PickedBit(c, j) == (c \div 2 ^ (Bits - 1 - j)) % 2 = 1

BytesToBitfield(bytes) ==
    [n \in 1 .. Bits * Len(bytes) |-> PickedBit(bytes[(n - 1) \div Bits + 1], (n - 1) % Bits)]

(* Two digits for each byte, and back; an odd last digit is dropped. *)
BytesToHex(bytes) == FlattenSeq([i \in 1 .. Len(bytes) |-> <<bytes[i] \div 16, bytes[i] % 16>>])

HexToBytes(s) == [i \in 1 .. Len(s) \div 2 |-> 16 * s[2 * i - 1] + s[2 * i]]

-----------------------------------------------------------------------------
(* The messages: a kind, the integers and the bytes it carries.            *)

MSG_TYPE == [Choke |-> 0, UnChoke |-> 1, Interested |-> 2, NotInterested |-> 3, Have |-> 4,
             Bitfield |-> 5, Request |-> 6, Piece |-> 7, Cancel |-> 8, Port |-> 9]

(* The sizes of the integers of a message. *)
Fields == [Choke |-> <<>>, UnChoke |-> <<>>, Interested |-> <<>>, NotInterested |-> <<>>,
           Have |-> <<Word>>, Bitfield |-> <<>>, Request |-> <<Word, Word, Word>>,
           Piece |-> <<Word, Word>>, Cancel |-> <<Word, Word, Word>>, Port |-> <<Short>>]

WithBytes == {"Bitfield", "Piece"}

Message(kind, ints, bytes) == [kind |-> kind, ints |-> ints, bytes |-> bytes]

KeepAlive == Message("KeepAlive", <<>>, <<>>)
Plain(kind) == Message(kind, <<>>, <<>>)
Have(index) == Message("Have", <<index>>, <<>>)
Bitfield(bytes) == Message("Bitfield", <<>>, bytes)
Request(index, begin, length) == Message("Request", <<index, begin, length>>, <<>>)
Piece(index, begin, block) == Message("Piece", <<index, begin>>, block)
Cancel(index, begin, length) == Message("Cancel", <<index, begin, length>>, <<>>)
Port(port) == Message("Port", <<port>>, <<>>)
HandShake(pstr, reserved, infoHash, peerId) ==
    [kind |-> "HandShake", pstr |-> pstr, reserved |-> reserved, infoHash |-> infoHash, peerId |-> peerId]
SerializeError == Message("SerializeError", <<>>, <<>>)

(* The bytes before field j of a kind, and the length without bytes. *)
Before(kind, j) == FoldLeft(LAMBDA n, size : n + size, 0, SubSeq(Fields[kind], 1, j - 1))
MSG_LEN(kind) == 1 + Before(kind, Len(Fields[kind]) + 1)
HandShakeLen == 1 + ReservedLen + 2 * IdLen

GetLen(m) ==
    CASE m.kind = "HandShake" -> HandShakeLen + Len(m.pstr)
      [] m.kind = "KeepAlive" -> 0
      [] OTHER -> MSG_LEN(m.kind) + Len(m.bytes)

(* getPrefix: what identifies a message and its length. *)
GetPrefix(m) ==
    CASE m.kind = "HandShake" -> <<Len(m.pstr) % Base>>
      [] m.kind = "KeepAlive" -> IntToBytes(0, Word)
      [] OTHER -> Append(IntToBytes(GetLen(m), Word), MSG_TYPE[m.kind])

-----------------------------------------------------------------------------
(* The encoder.                                                            *)

EncodePayload(m) ==
    FlattenSeq([j \in 1 .. Len(m.ints) |-> IntToBytes(m.ints[j], Fields[m.kind][j])]) \o m.bytes

EncodeHandShake(m) == <<Len(m.pstr) % Base>> \o m.pstr \o m.reserved \o m.infoHash \o m.peerId

(* A SerializeError cannot be encoded: encodePayload throws. *)
Encode(m) ==
    CASE m.kind = "HandShake" -> EncodeHandShake(m)
      [] m.kind = "KeepAlive" -> IntToBytes(GetLen(m), Word)
      [] OTHER -> IntToBytes(GetLen(m), Word) \o <<MSG_TYPE[m.kind]>> \o EncodePayload(m)

(* decodePayloadImpl: view is what follows the type. *)
DecodeInt(kind, view, j) ==
    BytesToInt(SubSeq(view, Before(kind, j) + 1, Len(view)), Fields[kind][j])

(* Mutants: a message that may carry bytes must carry some; and the payload *)
(* may have any length.                                                     *)
EmptyRefused(kind, len) == IF kind \in WithBytes THEN len > MSG_LEN(kind) ELSE len = MSG_LEN(kind)
AnyLengthFits(kind, len) == TRUE

(* The minimum for a bit field is one less than its MSG_MIN_LEN. *)
LengthFits(kind, len) ==
    CASE kind = "Bitfield" -> len >= MSG_LEN(kind) - 1
      [] kind = "Piece" -> len >= MSG_LEN(kind)
      [] OTHER -> len = MSG_LEN(kind)

DecodePayload(kind, view, len) ==
    IF LengthFits(kind, len)
    THEN Message(kind, [j \in 1 .. Len(Fields[kind]) |-> DecodeInt(kind, view, j)],
                 IF kind \in WithBytes THEN SubSeq(view, Before(kind, Len(Fields[kind]) + 1) + 1, Len(view)) ELSE <<>>)
    ELSE SerializeError

Decode(buf) ==
    LET len == BytesToInt(buf, Word)
        view == SubSeq(buf, Word + 1, Len(buf))
        kinds == {k \in DOMAIN MSG_TYPE : MSG_TYPE[k] = CharToUint(view[1])}
    IN  IF len # Len(view) THEN SerializeError
        ELSE IF len = 0 THEN KeepAlive
        ELSE IF kinds = {} THEN SerializeError
        ELSE DecodePayload(CHOOSE k \in kinds : TRUE, Tail(view), len)

(* The buffer must be as long as its first byte says.  A length that is    *)
(* not in the buffer is undefined.                                          *)
DecodeHandShake(buf) ==
    LET pstrLen == CharToUint(buf[1])
        part(from, n) == SubSeq(buf, pstrLen + from, pstrLen + from + n - 1)
    IN  IF buf = <<>> \/ Len(buf) # (pstrLen + HandShakeLen) % Base ^ Word THEN SerializeError
        ELSE IF pstrLen > Len(buf) THEN Message("Undefined", <<>>, <<>>)
        ELSE HandShake(SubSeq(buf, 2, pstrLen + 1), part(2, ReservedLen),
                       part(2 + ReservedLen, IdLen), part(2 + ReservedLen + IdLen, IdLen))

(* How BufferedQueueManager cuts the stream: the first message by its first *)
(* byte, the others by their first Word bytes.                              *)
IsHandShakeFrame(buf) == buf # <<>> /\ Len(buf) = HandShakeLen + buf[1]
IsFrame(buf) == Len(buf) >= Word /\ Len(buf) = Word + BytesToInt(buf, Word)
=============================================================================
