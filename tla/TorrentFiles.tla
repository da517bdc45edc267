--------------------------- MODULE TorrentFiles ---------------------------
(* How the bytes of a torrent are cut: into pieces when it is added to the *)
(* database, into blocks when it is asked for, and into files when a piece *)
(* is written.  PersistClient::addTorrent, PieceStateManager::populate,    *)
(* Protocol::requestNextPiece, DiskIOService::process(WriteData).          *)
(* A torrent is the lengths of its files, its piece length and the number  *)
(* of bytes of its piece hashes.                                            *)
EXTENDS Integers, Sequences, SequencesExt

CONSTANTS HashLength,          \* 20
          StandardPacketSize   \* 2^14

ASSUME SizeAssumption == {HashLength, StandardPacketSize} \subseteq Nat \ {0}

LOCAL Min2(a, b) == IF a <= b THEN a ELSE b

(* The sum of the first n numbers of a sequence. *)
SumOf(seq, n) == FoldLeft(LAMBDA sum, x : sum + x, 0, SubSeq(seq, 1, n))

Size(t) == SumOf(t.files, Len(t.files))
NumberOfPieces(t) == t.pieces \div HashLength

(* The rows addTorrent inserts: the last piece has what is left. *)
PieceSizes(t) ==
    [i \in 1 .. NumberOfPieces(t) |->
        IF i < NumberOfPieces(t) THEN t.pieceLength
        ELSE Size(t) - t.pieceLength * (NumberOfPieces(t) - 1)]

(* populate: a piece begins where the pieces before it end. *)
Offset(t, i) == SumOf(PieceSizes(t), i - 1)

(* requestNextPiece: the next block follows what has been received. *)
NextRequest(received, size) ==
    [begin |-> received, length |-> Min2(StandardPacketSize, size - received)]

(* The requests for a piece that is received without a mistake. *)
Requests(size) ==
    FoldLeft(LAMBDA reqs, k :
                LET received == FoldLeft(LAMBDA sum, r : sum + r.length, 0, reqs)
                IN  IF received = size THEN reqs ELSE Append(reqs, NextRequest(received, size)),
             <<>>, [k \in 1 .. size |-> k])

(* writeToFile: the first numBytes of the view, from an offset of a file. *)
WriteToFile(file, offset, view, numBytes) ==
    {<<file, offset + k - 1, view[k]>> : k \in 1 .. numBytes}

(* Mutant: the first byte of a file is taken for one before it. *)
InFileLate(offset, index, length) == offset > index /\ offset < index + length

(* Whether the current file holds the byte at the offset. *)
InFile(offset, index, length) == offset >= index /\ offset < index + length

(* process(WriteData): the files in their order; index is where one begins *)
(* in the torrent, view what is left of the data.                          *)
WriteData(t, offset, data) ==
    FoldLeft(LAMBDA s, f :
                LET length == t.files[f]
                    n == Min2(Len(s.view), s.index + length - s.offset)
                IN  IF InFile(s.offset, s.index, length)
                    THEN [index |-> s.index + length, offset |-> s.offset + n,
                          view |-> SubSeq(s.view, n + 1, Len(s.view)),
                          cells |-> s.cells \cup WriteToFile(f, s.offset - s.index, s.view, n)]
                    ELSE [s EXCEPT !.index = @ + length],
             [index |-> 0, offset |-> offset, view |-> data, cells |-> {}],
             [f \in 1 .. Len(t.files) |-> f]).cells

(* The bytes of piece i, each named by its position in the torrent. *)
PieceData(t, i) == [k \in 1 .. PieceSizes(t)[i] |-> Offset(t, i) + k - 1]

(* What is in the files, as file, position and byte, after every piece was *)
(* written.                                                                 *)
Written(t) == UNION {WriteData(t, Offset(t, i), PieceData(t, i)) : i \in 1 .. NumberOfPieces(t)}
=============================================================================
