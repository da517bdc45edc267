---------------------------- MODULE MessageBuffers ----------------------------
(***************************************************************************)
(* The bytes of one peer in the epoll thread: BufferedQueueManager, with   *)
(* the parts of EpollService that read a chunk, cut it into messages and   *)
(* hand them to BitTorrentManager, and that write messages in the other    *)
(* direction.                                                              *)
(*                                                                         *)
(* What the peer sends is a handshake and then messages, each a header of  *)
(* HeaderLen bytes with the length of its payload, and the payload.  A byte*)
(* is its position in what was sent on the connection, a message in the    *)
(* client is the position and the number of its bytes: bytes are always    *)
(* appended in the order they were sent.  Lengths are below 2^31.  A read  *)
(* or write that fails is left out.                                        *)
(***************************************************************************)
EXTENDS Integers, Sequences, FiniteSets

CONSTANTS HandshakeLen,    \* bytes of a handshake, which its first byte tells
          PayloadLens,     \* lengths of payloads
          GarbageLens,     \* what bytes that are no header read as
          WriteLen,        \* bytes of a message that is written
          MaxMessages,     \* bound on messages the peer sends, one less on each connection
          MaxChunk,        \* bytes of a read, at most
          MaxWrites,       \* bound on messages to the peer
          MaxConnects      \* bound on connections

ASSUME LengthsAssumption == /\ HandshakeLen \in Nat \ {0} /\ WriteLen \in Nat \ {0}
                            /\ PayloadLens \subseteq Nat /\ GarbageLens \subseteq Nat
ASSUME BoundsAssumption == /\ MaxMessages \in Nat /\ MaxChunk \in Nat
                           /\ MaxWrites \in Nat /\ MaxConnects \in Nat

VARIABLES
    \* the connection, what the peer has sent on it, and how much of it is read
    connected, frames, pos,
    \* the chunk: bytes not parsed yet, and whether one is being parsed
    view, parsing,
    \* mReadBuffers: whether the peer has an entry, and the entry
    known, msgs,
    \* the ReadEvents of the connection
    delivered,
    \* mWriteBuffers: messages in it (none or one); whether EpollOut is asked for
    wbuf, writable,
    \* messages asked to be written, and the bytes of each on the connection
    asked, wire,
    \* history: a header of a short message was split between two chunks; a
    \* message was written in parts; the number of connections
    shortSplit, partial, connects

readVars == <<pos, view, parsing, known, msgs, delivered, shortSplit>>
writeVars == <<wbuf, writable, asked, wire, partial>>
vars == <<connected, frames, connects, readVars, writeVars>>

HeaderLen == 4
Stale == -1      \* the position of a message that began on an earlier connection
Handshake == [from |-> 0, to |-> HandshakeLen]
Sent == frames[Len(frames)].to
Least(a, b) == IF a < b THEN a ELSE b

(* The n-th number of a set, and what a sequence has at its numbers. *)
Nth(K, n) == CHOOSE k \in K : Cardinality({j \in K : j <= k}) = n
Filtered(s, K) == [n \in 1 .. Cardinality(K) |-> s[Nth(K, n)]]

Init == /\ connected = TRUE /\ frames = <<Handshake>> /\ pos = 0
        /\ view = 0 /\ parsing = FALSE
        /\ known = FALSE /\ msgs = <<>> /\ delivered = <<>>
        /\ wbuf = <<>> /\ writable = TRUE
        /\ asked = 0 /\ wire = <<>>
        /\ shortSplit = FALSE /\ partial = FALSE /\ connects = 1

------------------------------------------------------------------------------
(* The peer, and the connection.  The buffers survive it: they belong to   *)
(* the peer.                                                               *)

PeerSends(len) ==
    /\ connected /\ Len(frames) + connects <= MaxMessages
    /\ frames' = Append(frames, [from |-> Sent, to |-> Sent + HeaderLen + len])
    /\ UNCHANGED <<connected, connects, readVars, writeVars>>

Close ==
    /\ connected /\ ~parsing
    /\ connected' = FALSE
    /\ UNCHANGED <<frames, connects, readVars, writeVars>>

Connect ==
    /\ ~connected /\ connects < MaxConnects
    /\ connected' = TRUE /\ connects' = connects + 1
    /\ frames' = <<Handshake>> /\ pos' = 0 /\ delivered' = <<>> /\ wire' = <<>>
    /\ msgs' = [k \in DOMAIN msgs |-> [msgs[k] EXCEPT !.from = Stale]]
    /\ writable' = TRUE
    /\ UNCHANGED <<view, parsing, known, wbuf, asked, shortSplit, partial>>

------------------------------------------------------------------------------
(* Reading: a chunk is parsed piece by piece, each time a part of one      *)
(* message, and then all messages that are complete are handed on.         *)

ReadChunk(n) ==
    /\ connected /\ ~parsing /\ pos + n <= Sent
    /\ view' = n /\ parsing' = TRUE
    /\ UNCHANGED <<connected, frames, connects, pos, known, msgs, delivered, shortSplit, writeVars>>

(* ReadMsgState: a message whose length is not known has mLength -1, which *)
(* compares as a very large unsigned number.                               *)
IsInitialized(m) == m.mLength >= 0
IsComplete(m) == IsInitialized(m) /\ m.mLength <= m.size

(* appending the next bytes, and removing them from the view *)
Taken(bytes) == /\ pos' = pos + bytes /\ view' = view - bytes
                /\ UNCHANGED <<connected, frames, connects, parsing, delivered, shortSplit,
                               writeVars>>

(* parseMessage, for a peer that is not known *)
ParseHandshake ==
    LET bytes == Least(HandshakeLen, view) IN
    /\ view > 0 /\ ~known
    /\ known' = TRUE
    /\ msgs' = <<[from |-> pos, size |-> bytes, mLength |-> HandshakeLen]>>
    /\ Taken(bytes)

(* ... for the rest of a message *)
InBody == msgs # <<>> /\ LET m == msgs[Len(msgs)] IN IsInitialized(m) /\ ~IsComplete(m)
BodyBytes(m) == Least(m.mLength - m.size, view)
ParseBody ==
    LET bytes == BodyBytes(msgs[Len(msgs)]) IN
    /\ view > 0 /\ known /\ InBody
    /\ msgs' = [msgs EXCEPT ![Len(msgs)].size = @ + bytes]
    /\ known' = known
    /\ Taken(bytes)

(* ... and for a new message, or one whose length is not known yet.  The   *)
(* bytes of the header that are there already are not taken into account.  *)
Fresh == msgs = <<>> \/ IsComplete(msgs[Len(msgs)])
Headers == IF Fresh THEN Append(msgs, [from |-> pos, size |-> 0, mLength |-> -1]) ELSE msgs
Decoded(from) == IF \E k \in 2 .. Len(frames) : frames[k].from = from
                 THEN {frames[k].to - frames[k].from - HeaderLen :
                          k \in {j \in 2 .. Len(frames) : frames[j].from = from}}
                 ELSE GarbageLens
ParseHeader ==
    LET bytes == Least(HeaderLen, view)
        last == Len(Headers)
        size == Headers[last].size + bytes
    IN /\ view > 0 /\ known /\ ~InBody
       /\ \/ /\ size < HeaderLen
             /\ msgs' = [Headers EXCEPT ![last].size = size]
          \/ /\ size >= HeaderLen
             /\ \E len \in Decoded(Headers[last].from) :
                   msgs' = [Headers EXCEPT ![last].size = size, ![last].mLength = len + HeaderLen]
       /\ known' = known
       /\ Taken(bytes)

(* writeToBuffer, after the chunk is parsed *)
ShortSplit == \E k \in 2 .. Len(frames) : /\ frames[k].to - frames[k].from < 2 * HeaderLen - 1
                                          /\ pos > frames[k].from
                                          /\ pos < frames[k].from + HeaderLen
Reported(m) == [from |-> m.from, to |-> m.from + m.size]
DeliverLast == IF IsComplete(msgs[Len(msgs)]) THEN <<msgs[Len(msgs)]>> ELSE <<>>      \* mutant
CompleteMsgs == Filtered(msgs, {k \in DOMAIN msgs : IsComplete(msgs[k])})
EndChunk ==
    /\ parsing /\ view = 0
    /\ parsing' = FALSE
    /\ delivered' = delivered \o [k \in DOMAIN CompleteMsgs |-> Reported(CompleteMsgs[k])]
    /\ msgs' = Filtered(msgs, {k \in DOMAIN msgs : ~IsComplete(msgs[k])})
    /\ shortSplit' = (shortSplit \/ ShortSplit)
    /\ UNCHANGED <<connected, frames, connects, pos, view, known, writeVars>>

------------------------------------------------------------------------------
(* Writing. *)

(* addToWriteBuffer: a message is dropped while another is not written.    *)
WriteOver(m) == <<[msg |-> m, left |-> WriteLen]>>        \* mutant: the last one counts
WriteBuffer(m) == IF wbuf = <<>> THEN <<[msg |-> m, left |-> WriteLen]>> ELSE wbuf

(* WriteEvent.  EpollOut can only be asked for on a socket that is there.  *)
WriteUnasked ==                  \* mutant: enableWrite is left out
    /\ ~parsing /\ asked < MaxWrites
    /\ asked' = asked + 1
    /\ wbuf' = WriteBuffer(asked')
    /\ UNCHANGED <<connected, frames, connects, readVars, writable, wire, partial>>
WriteEvent ==
    /\ ~parsing /\ asked < MaxWrites
    /\ asked' = asked + 1
    /\ wbuf' = WriteBuffer(asked')
    /\ writable' = connected
    /\ UNCHANGED <<connected, frames, connects, readVars, wire, partial>>

(* EpollOut, without anything to write, and with: writeData, after which   *)
(* the event is not asked for any more, be the message written or not.     *)
NothingToWrite ==
    /\ connected /\ ~parsing /\ writable /\ wbuf = <<>>
    /\ writable' = FALSE
    /\ UNCHANGED <<connected, frames, connects, readVars, wbuf, asked, wire, partial>>

OnWire(m, n) == IF wire # <<>> /\ wire[Len(wire)].msg = m
                THEN [wire EXCEPT ![Len(wire)].bytes = @ + n]
                ELSE Append(wire, [msg |-> m, bytes |-> n])

BufferAfter(n) == IF n = wbuf[1].left THEN <<>> ELSE [wbuf EXCEPT ![1].left = @ - n]

WriteData(n) ==
    /\ connected /\ ~parsing /\ writable /\ wbuf # <<>>
    /\ n <= wbuf[1].left
    /\ wire' = OnWire(wbuf[1].msg, n)
    /\ wbuf' = BufferAfter(n)
    /\ partial' = (partial \/ n < wbuf[1].left)
    /\ writable' = FALSE
    /\ UNCHANGED <<connected, frames, connects, readVars, asked>>

------------------------------------------------------------------------------
EpollOut == NothingToWrite \/ \E n \in 1 .. WriteLen : WriteData(n)
Parse == ParseHandshake \/ ParseBody \/ ParseHeader \/ EndChunk

Next == \/ \E len \in PayloadLens : PeerSends(len)
        \/ Close \/ Connect
        \/ \E n \in 1 .. MaxChunk : ReadChunk(n)
        \/ Parse
        \/ WriteEvent \/ EpollOut

Spec == Init /\ [][Next]_vars

(* The epoll thread goes on, and the socket can be written. *)
FairSpec == Spec /\ WF_vars(Parse) /\ WF_vars(EpollOut)

------------------------------------------------------------------------------
(* Properties. *)

(* Types; only the last message of the deque is incomplete, and between    *)
(* chunks no other is there.                                               *)
TypeOK == /\ connected \in BOOLEAN /\ parsing \in BOOLEAN /\ known \in BOOLEAN
          /\ frames \in Seq([from : Nat, to : Nat]) /\ frames # <<>>
          /\ pos \in 0 .. Sent /\ view \in Nat /\ pos + view <= Sent
          /\ msgs \in Seq([from : Nat \cup {Stale}, size : Nat, mLength : Nat \cup {-1}])
          /\ \A k \in DOMAIN msgs : k < Len(msgs) => IsComplete(msgs[k])
          /\ ~parsing => view = 0 /\ \A k \in DOMAIN msgs : ~IsComplete(msgs[k])
          /\ delivered \in Seq([from : Int, to : Nat])
          /\ wbuf \in Seq([msg : Nat, left : 1 .. WriteLen]) /\ Len(wbuf) <= 1
          /\ writable \in BOOLEAN /\ asked \in Nat
          /\ wire \in Seq([msg : Nat, bytes : Nat])
          /\ shortSplit \in BOOLEAN /\ partial \in BOOLEAN /\ connects \in Nat

(* The messages handed on are the first ones sent, and all that are read.  *)
Exact == /\ Len(delivered) <= Len(frames)
         /\ \A k \in DOMAIN delivered : delivered[k] = frames[k]
         /\ \A k \in DOMAIN frames : frames[k].to <= pos <=> k <= Len(delivered)

(* However the bytes are cut into chunks, BitTorrentManager gets exactly   *)
(* the messages that have arrived as a whole, in order, none cut or joined:*)
(* on the first connection to the peer, and until the header of a message  *)
(* with a payload of less than three bytes is split between two chunks.    *)
FramesIntact == connects = 1 /\ ~shortSplit /\ ~parsing => Exact

(* On the first connection the peer gets whole messages, one after the     *)
(* other, in the order they were asked for; only the one in the write      *)
(* buffer can be incomplete.                                               *)
WholeMessages ==
    connects = 1 =>
        \A k \in DOMAIN wire :
            /\ k > 1 => wire[k - 1].msg < wire[k].msg
            /\ wire[k].bytes = WriteLen
               \/ /\ k = Len(wire) /\ wbuf # <<>>
                  /\ wbuf[1] = [msg |-> wire[k].msg, left |-> WriteLen - wire[k].bytes]

(* What is in the write buffer gets written, unless the connection ends or *)
(* the socket once took only a part of a message.                          *)
WriteCompletes == wbuf # <<>> ~> (wbuf = <<>> \/ ~connected \/ partial)
==============================================================================
