------------------------- MODULE MessageBuffersProofs -------------------------
(***************************************************************************)
(* The messages of a peer survive the way through chunks and buffers on    *)
(* the first connection to it, in both directions, for all lengths of      *)
(* messages and chunks and any number of them.                             *)
(*                                                                         *)
(* What has been handed on and what is in the deque are the first frames   *)
(* that were sent, one after the other, and the last message in the deque  *)
(* ends where reading has got to: that is the inductive invariant, InStep. *)
(***************************************************************************)
EXTENDS MessageBuffers, FiniteSetTheorems, SequenceTheorems, TLAPS

Frame == [from : Nat, to : Nat]
ReadMsg == [from : Nat, size : Nat, mLength : Nat \cup {-1}]
WriteMsg == [msg : Nat, left : 1 .. WriteLen]
OnTheWire == [msg : Nat, bytes : Nat]
Length(f) == f.to - f.from

(* Frames follow each other without a gap. *)
Contiguous ==
    /\ frames \in Seq(Frame) /\ Len(frames) >= 1 /\ frames[1] = Handshake
    /\ \A k \in 1 .. Len(frames) : frames[k].from < frames[k].to
    /\ \A k \in 2 .. Len(frames) : /\ Length(frames[k]) >= HeaderLen
                                   /\ frames[k].from = frames[k - 1].to
    /\ \A i, j \in 1 .. Len(frames) : i < j => frames[i].to <= frames[j].from

(* Only the last message of the deque is incomplete, and no other is there *)
(* between chunks.                                                         *)
ReadTyped ==
    /\ pos \in Nat /\ view \in Nat /\ pos + view <= Sent
    /\ msgs \in Seq(ReadMsg) /\ delivered \in Seq(Frame)
    /\ \A k \in 1 .. Len(msgs) : k < Len(msgs) => IsComplete(msgs[k])
    /\ ~parsing => view = 0 /\ \A k \in 1 .. Len(msgs) : ~IsComplete(msgs[k])

(* A message of the deque and its frame.  A header that is not complete    *)
(* belongs to a frame that is long enough for four more bytes, once the    *)
(* chunk it is in has ended.                                               *)
Between == view > 0 \/ ~parsing
MsgOf(m, f, k, between) ==
    /\ m.from = f.from /\ m.size \in 1 .. Length(f) /\ m.mLength \in {-1, Length(f)}
    /\ m.mLength = -1 => /\ k >= 2 /\ m.size < HeaderLen
                         /\ between => Length(f) >= 2 * HeaderLen - 1

InStep ==
    /\ Len(delivered) + Len(msgs) <= Len(frames)
    /\ \A k \in 1 .. Len(delivered) : delivered[k] = frames[k]
    /\ \A k \in 1 .. Len(msgs) :
          MsgOf(msgs[k], frames[Len(delivered) + k], Len(delivered) + k, Between)
    /\ msgs # <<>> => pos = msgs[Len(msgs)].from + msgs[Len(msgs)].size
    /\ msgs = <<>> => pos = IF Len(delivered) = 0 THEN 0 ELSE frames[Len(delivered)].to
    /\ known <=> Len(delivered) + Len(msgs) > 0

(* What is on the wire was asked for before the message in the buffer, or  *)
(* is the part of it that was written.                                     *)
WriteTyped ==
    /\ asked \in Nat /\ wbuf \in Seq(WriteMsg) /\ Len(wbuf) <= 1 /\ wire \in Seq(OnTheWire)
    /\ \A k \in 1 .. Len(wire) : wire[k].msg <= asked
    /\ wbuf # <<>> =>
          /\ wbuf[1].msg <= asked
          /\ \A k \in 1 .. Len(wire) : k < Len(wire) => wire[k].msg < wbuf[1].msg
          /\ wire = <<>> => wbuf[1].left = WriteLen
          /\ wire # <<>> => \/ /\ wire[Len(wire)].msg < wbuf[1].msg /\ wbuf[1].left = WriteLen
                            \/ /\ wire[Len(wire)].msg = wbuf[1].msg
                               /\ wire[Len(wire)].bytes = WriteLen - wbuf[1].left

FirstConnection ==
    /\ connects \in Nat \ {0}
    /\ connects = 1 => /\ Contiguous /\ ReadTyped /\ (~shortSplit => InStep)
                       /\ WriteTyped /\ WholeMessages

------------------------------------------------------------------------------
(* Operators on sequences. *)

(* A function on 1 .. n is a sequence of that length. *)
LEMMA FunctionIsSeq ==
  ASSUME NEW S, NEW n \in Nat, NEW f \in [1 .. n -> S]
  PROVE  f \in Seq(S) /\ Len(f) = n
<1>1. f \in Seq(S)
  BY SeqDef
<1>2. DOMAIN f = 1 .. n /\ DOMAIN f = 1 .. Len(f) /\ Len(f) \in Nat
  BY <1>1, LenProperties
<1>3. QED
  BY <1>1, <1>2

(* A sequence that is not empty and not longer than one. *)
LEMMA OneElement ==
  ASSUME NEW S, NEW s \in Seq(S), s # <<>>, Len(s) <= 1
  PROVE  Len(s) = 1 /\ s[1] \in S
OBVIOUS

(* How many numbers of 1 .. n there are up to k. *)
LEMMA UpTo ==
  ASSUME NEW n \in Nat, NEW k \in 1 .. n
  PROVE  Cardinality({j \in 1 .. n : j <= k}) = k
<1>1. {j \in 1 .. n : j <= k} = 1 .. k
  OBVIOUS
<1>2. Cardinality(1 .. k) = k
  BY FS_Interval
<1>3. QED
  BY <1>1, <1>2

(* Filtering keeps the first n, if those are the ones that pass. *)
LEMMA FilteredFirst ==
  ASSUME NEW S, NEW s \in Seq(S), NEW n \in 0 .. Len(s)
  PROVE  /\ Filtered(s, 1 .. n) \in Seq(S) /\ Len(Filtered(s, 1 .. n)) = n
         /\ \A k \in 1 .. n : Filtered(s, 1 .. n)[k] = s[k]
<1>1. n \in Nat /\ Cardinality(1 .. n) = n
  BY FS_Interval
<1>2. ASSUME NEW k \in 1 .. n PROVE Nth(1 .. n, k) = k
  <2>1. \A i \in 1 .. n : Cardinality({j \in 1 .. n : j <= i}) = i
    BY <1>1, UpTo
  <2>2. QED
    BY <2>1 DEF Nth
<1>3. Filtered(s, 1 .. n) = [k \in 1 .. n |-> s[Nth(1 .. n, k)]]
  BY <1>1 DEF Filtered
<1>4. \A k \in 1 .. n : Filtered(s, 1 .. n)[k] = s[k] /\ s[k] \in S
  BY <1>1, <1>2, <1>3
<1>5. Filtered(s, 1 .. n) \in [1 .. n -> S]
  BY <1>3, <1>4
<1>6. QED
  BY <1>1, <1>4, <1>5, FunctionIsSeq

(* Filtering keeps just the last, if it is the only one that passes. *)
LEMMA FilteredLast ==
  ASSUME NEW S, NEW s \in Seq(S), s # <<>>
  PROVE  /\ Filtered(s, {Len(s)}) \in Seq(S) /\ Len(Filtered(s, {Len(s)})) = 1
         /\ Filtered(s, {Len(s)})[1] = s[Len(s)]
<1>1. Len(s) \in 1 .. Len(s) /\ s[Len(s)] \in S
  OBVIOUS
<1>2. Cardinality({Len(s)}) = 1
  BY FS_Singleton
<1>3. Nth({Len(s)}, 1) = Len(s)
  <2>1. {j \in {Len(s)} : j <= Len(s)} = {Len(s)}
    BY <1>1
  <2>2. QED
    BY <1>2, <2>1 DEF Nth
<1>4. Filtered(s, {Len(s)}) = [k \in 1 .. 1 |-> s[Nth({Len(s)}, k)]]
  BY <1>2 DEF Filtered
<1>5. 1 .. 1 = {1}
  OBVIOUS
<1>6. Filtered(s, {Len(s)}) \in [1 .. 1 -> S] /\ Filtered(s, {Len(s)})[1] = s[Len(s)]
  BY <1>1, <1>3, <1>4, <1>5
<1>7. QED
  BY <1>6, FunctionIsSeq

(* Filtering keeps nothing, if none passes. *)
LEMMA FilteredNone == ASSUME NEW s PROVE Filtered(s, {}) = <<>>
<1>1. Cardinality({}) = 0
  BY FS_EmptySet
<1>2. Filtered(s, {}) = [n \in 1 .. 0 |-> s[Nth({}, n)]]
  BY <1>1 DEF Filtered
<1>3. 1 .. 0 = {}
  OBVIOUS
<1>4. QED
  BY <1>2, <1>3

------------------------------------------------------------------------------
(* The messages to the peer. *)

Writes == WriteTyped /\ WholeMessages

(* WriteEvent and an EpollOut without anything to write. *)
LEMMA WriteEventKeeps ==
  ASSUME Writes, connects = 1, WriteEvent
  PROVE  Writes'
<1>1. wire' = wire /\ connects' = 1 /\ asked' = asked + 1 /\ wbuf' = WriteBuffer(asked + 1)
  BY DEF WriteEvent
<1>2. WriteLen \in Nat \ {0}
  BY LengthsAssumption
<1>3. CASE wbuf # <<>>
  <2>1. wbuf' = wbuf
    BY <1>1, <1>3 DEF WriteBuffer
  <2>2. /\ \A k \in 1 .. Len(wire) : wire[k].msg \in Nat
        /\ wbuf[1].msg \in Nat /\ asked \in Nat
    <3>1. \A k \in 1 .. Len(wire) : wire[k] \in OnTheWire
      BY DEF Writes, WriteTyped
    <3>2. 1 \in 1 .. Len(wbuf)
      BY <1>3 DEF Writes, WriteTyped
    <3>3. wbuf[1] \in WriteMsg /\ asked \in Nat
      BY <3>2 DEF Writes, WriteTyped
    <3>4. QED
      BY <3>1, <3>3 DEF OnTheWire, WriteMsg
  <2>3. WriteTyped'
    BY <1>1, <2>1, <2>2 DEF Writes, WriteTyped
  <2>4. WholeMessages'
    BY <1>1, <2>1 DEF Writes, WholeMessages
  <2>5. QED
    BY <2>3, <2>4 DEF Writes
<1>4. CASE wbuf = <<>>
  <2>1. wbuf' = <<[msg |-> asked + 1, left |-> WriteLen]>>
    BY <1>1, <1>4 DEF WriteBuffer
  <2>2. [msg |-> asked + 1, left |-> WriteLen] \in WriteMsg
    BY <1>2 DEF Writes, WriteTyped, WriteMsg
  <2>3. wbuf' \in Seq(WriteMsg) /\ Len(wbuf') = 1 /\ wbuf'[1] = [msg |-> asked + 1, left |-> WriteLen]
    BY <2>1, <2>2
  <2>4. \A k \in 1 .. Len(wire) : wire[k] \in OnTheWire
    BY DEF Writes, WriteTyped
  <2>5. \A k \in 1 .. Len(wire) : wire[k].msg \in Nat /\ wire[k].msg < asked + 1
    BY <2>4 DEF Writes, WriteTyped, OnTheWire
  <2>8. wbuf'[1].msg = asked + 1 /\ wbuf'[1].left = WriteLen
    BY <2>3
  <2>9. wire \in Seq(OnTheWire) /\ asked \in Nat /\ (wire # <<>> => Len(wire) \in 1 .. Len(wire))
    BY DEF Writes, WriteTyped
  <2>11. /\ asked' \in Nat /\ wire' \in Seq(OnTheWire) /\ wbuf'[1].msg <= asked'
         /\ \A k \in 1 .. Len(wire') : wire'[k].msg <= asked'
         /\ \A k \in 1 .. Len(wire') : k < Len(wire') => wire'[k].msg < wbuf'[1].msg
    BY <1>1, <2>5, <2>8, <2>9
  <2>12. wire' # <<>> => wire'[Len(wire')].msg < wbuf'[1].msg /\ wbuf'[1].left = WriteLen
    BY <1>1, <2>5, <2>8, <2>9
  <2>10. WriteTyped'
    BY <2>3, <2>8, <2>11, <2>12 DEF WriteTyped
  <2>6. WholeMessages'
    BY <1>1, <1>4 DEF Writes, WholeMessages
  <2>7. QED
    BY <2>6, <2>10 DEF Writes
<1>5. QED
  BY <1>3, <1>4

(* writeData puts the next bytes of the message in the buffer on the wire. *)
LEMMA WriteDataKeeps ==
  ASSUME Writes, connects = 1, NEW n \in 1 .. WriteLen, WriteData(n)
  PROVE  Writes'
<1> DEFINE m == wbuf[1].msg
           left == wbuf[1].left
<1>1. /\ connects' = 1 /\ asked' = asked /\ wbuf # <<>> /\ n <= left
      /\ wire' = OnWire(m, n) /\ wbuf' = BufferAfter(n)
  BY DEF WriteData
<1>2. WriteLen \in Nat \ {0} /\ wbuf[1] \in WriteMsg /\ Len(wbuf) = 1 /\ wbuf \in Seq(WriteMsg)
  <2>1. wbuf \in Seq(WriteMsg) /\ Len(wbuf) <= 1
    BY DEF Writes, WriteTyped
  <2>2. wbuf # <<>>
    BY <1>1
  <2>3. QED
    BY <2>1, <2>2, OneElement, LengthsAssumption
<1>3. m \in Nat /\ left \in 1 .. WriteLen /\ m <= asked /\ asked \in Nat
  BY <1>1, <1>2 DEF WriteMsg, Writes, WriteTyped
<1>4. wire \in Seq(OnTheWire) /\ \A k \in 1 .. Len(wire) : wire[k] \in OnTheWire
  BY DEF Writes, WriteTyped
<1>5. /\ wbuf' \in Seq(WriteMsg) /\ Len(wbuf') <= 1
      /\ n = left => wbuf' = <<>>
      /\ n # left => wbuf' # <<>> /\ wbuf'[1] = [msg |-> m, left |-> left - n]
  <2>1. CASE n = left
    BY <1>1, <2>1 DEF BufferAfter
  <2>2. CASE n # left
    <3>1. wbuf' = [wbuf EXCEPT ![1] = [wbuf[1] EXCEPT !.left = left - n]]
      BY <1>1, <2>2 DEF BufferAfter
    <3>2. [wbuf[1] EXCEPT !.left = left - n] = [msg |-> m, left |-> left - n]
      BY <1>2 DEF WriteMsg
    <3>3. left - n \in 1 .. WriteLen
      BY <1>1, <1>2, <1>3, <2>2
    <3>4. [msg |-> m, left |-> left - n] \in WriteMsg
      BY <1>3, <3>3 DEF WriteMsg
    <3>5. wbuf' = [wbuf EXCEPT ![1] = [msg |-> m, left |-> left - n]]
      BY <3>1, <3>2
    <3>6. wbuf' \in Seq(WriteMsg) /\ Len(wbuf') = 1 /\ wbuf'[1] = [msg |-> m, left |-> left - n]
      <4> DEFINE e == [msg |-> m, left |-> left - n]
      <4>1. 1 \in 1 .. Len(wbuf) /\ wbuf \in Seq(WriteMsg) /\ Len(wbuf) = 1 /\ 1 \in DOMAIN wbuf
        BY <1>2, LenProperties
      <4>2. e \in WriteMsg /\ wbuf' = [wbuf EXCEPT ![1] = e]
        BY <3>4, <3>5
      <4> HIDE DEF e
      <4>3. wbuf' \in Seq(WriteMsg) /\ Len(wbuf') = 1 /\ wbuf'[1] = e
        BY <4>1, <4>2, ExceptSeq
      <4>4. QED
        BY <4>3 DEF e
    <3>7. wbuf' # <<>>
      BY <3>6, EmptySeq
    <3>8. QED
      BY <2>2, <3>6, <3>7
  <2>3. QED
    BY <2>1, <2>2
<1> HIDE DEF m, left
<1>6. CASE wire # <<>> /\ wire[Len(wire)].msg = m
  <2> DEFINE l == Len(wire)
  <2>1. l \in 1 .. Len(wire) /\ wire[l].bytes = WriteLen - left
    BY <1>1, <1>3, <1>4, <1>6 DEF Writes, WriteTyped, m, left
  <2>2. wire' = [wire EXCEPT ![l] = [wire[l] EXCEPT !.bytes = @ + n]]
    BY <1>1, <1>6 DEF OnWire
  <2>3. [wire[l] EXCEPT !.bytes = @ + n] = [msg |-> m, bytes |-> WriteLen - left + n]
    BY <1>4, <1>6, <2>1 DEF OnTheWire
  <2>4. WriteLen - left + n \in Nat
    BY <1>1, <1>2, <1>3
  <2>5. [msg |-> m, bytes |-> WriteLen - left + n] \in OnTheWire
    BY <1>3, <2>4 DEF OnTheWire
  <2>6. /\ wire' \in Seq(OnTheWire) /\ Len(wire') = l
        /\ wire'[l] = [msg |-> m, bytes |-> WriteLen - left + n]
        /\ \A k \in 1 .. l : k # l => wire'[k] = wire[k]
    BY <1>4, <2>1, <2>2, <2>3, <2>5
  <2>7. /\ \A k \in 1 .. l : wire'[k].msg = wire[k].msg
        /\ \A k \in 1 .. l : k # l => wire'[k].bytes = wire[k].bytes
    BY <1>6, <2>6
  <2>8. /\ \A k \in 1 .. l : wire[k].msg <= asked
        /\ \A k \in 1 .. l : k < l => wire[k].msg < m
    BY <1>1 DEF Writes, WriteTyped, m
  <2>9. \A k \in 1 .. l : /\ k > 1 => wire[k - 1].msg < wire[k].msg
                          /\ k # l => wire[k].bytes = WriteLen
    BY <1>4, LenProperties DEF Writes, WholeMessages
  <2>10. WriteTyped'
    <3>1. wire' # <<>>
      BY <2>1, <2>6, EmptySeq
    <3>2. asked' = asked /\ \A k \in 1 .. Len(wire') : wire'[k].msg <= asked
      BY <1>1, <2>6, <2>7, <2>8
    <3>3. wire'[Len(wire')].msg = m /\ wire'[Len(wire')].bytes = WriteLen - left + n
      BY <2>6
    <3>4. \A k \in 1 .. Len(wire') : k < Len(wire') => wire'[k].msg < m
      BY <2>6, <2>7, <2>8
    <3>5. QED
      BY <1>1, <1>2, <1>3, <1>5, <2>6, <3>1, <3>2, <3>3, <3>4 DEF WriteTyped
  <2>11. WholeMessages'
    <3>1. DOMAIN wire' = 1 .. l
      BY <2>6
    <3>2. \A k \in 1 .. l : k > 1 => k - 1 \in 1 .. l
      BY <2>1
    <3>3. \A k \in 1 .. l : k > 1 => wire'[k - 1].msg < wire'[k].msg
      BY <2>7, <2>9, <3>2
    <3>4. n = left => wire'[l].bytes = WriteLen
      BY <1>1, <1>2, <1>3, <2>6
    <3>5. n # left => left - n = WriteLen - wire'[l].bytes /\ wire'[l].msg = m
      BY <1>1, <1>2, <1>3, <2>6
    <3>6. QED
      BY <1>5, <2>6, <2>7, <2>9, <3>1, <3>3, <3>4, <3>5 DEF WholeMessages
  <2>12. QED
    BY <2>10, <2>11 DEF Writes
<1>7. CASE ~(wire # <<>> /\ wire[Len(wire)].msg = m)
  <2> DEFINE l == Len(wire) + 1
  <2>1. wire' = Append(wire, [msg |-> m, bytes |-> n]) /\ n \in Nat
    BY <1>1, <1>2, <1>7 DEF OnWire
  <2>2. left = WriteLen /\ (\A k \in 1 .. Len(wire) : wire[k].msg < m)
    <3>1. \A k \in 1 .. Len(wire) : k < Len(wire) => wire[k].msg < m
      BY <1>1 DEF Writes, WriteTyped, m
    <3>2. /\ wire = <<>> => left = WriteLen
          /\ wire # <<>> => wire[Len(wire)].msg < m /\ left = WriteLen
      BY <1>1, <1>7 DEF Writes, WriteTyped, m, left
    <3>3. \A k \in 1 .. Len(wire) : wire # <<>> /\ (k < Len(wire) \/ k = Len(wire))
      BY <1>4
    <3>4. QED
      BY <3>1, <3>2, <3>3
  <2>3. [msg |-> m, bytes |-> n] \in OnTheWire
    BY <1>3, <2>1 DEF OnTheWire
  <2>4. /\ wire' \in Seq(OnTheWire) /\ Len(wire') = l /\ l \in Nat \ {0}
        /\ wire'[l] = [msg |-> m, bytes |-> n]
        /\ \A k \in 1 .. Len(wire) : wire'[k] = wire[k]
    BY <1>4, <2>1, <2>3
  <2>5. \A k \in 1 .. l : k # l => k \in 1 .. Len(wire)
    BY <1>4
  <2>6. \A k \in 1 .. Len(wire) : wire[k].msg <= asked
    BY DEF Writes, WriteTyped
  <2>7. \A k \in 1 .. Len(wire) : /\ k > 1 => wire[k - 1].msg < wire[k].msg
                                  /\ wire[k].bytes = WriteLen
    <3>1. \A k \in 1 .. Len(wire) : wire[k].bytes = WriteLen \/ (k = Len(wire) /\ m = wire[k].msg)
      <4>1. DOMAIN wire = 1 .. Len(wire)
        BY <1>4
      <4>2. ASSUME NEW k \in 1 .. Len(wire)
            PROVE  wire[k].bytes = WriteLen \/ (k = Len(wire)
                       /\ wbuf[1] = [msg |-> wire[k].msg, left |-> WriteLen - wire[k].bytes])
        BY <4>1 DEF Writes, WholeMessages
      <4>3. ASSUME NEW k \in 1 .. Len(wire), wire[k].bytes # WriteLen
            PROVE  k = Len(wire) /\ m = wire[k].msg
        <5>1. k = Len(wire)
              /\ wbuf[1] = [msg |-> wire[k].msg, left |-> WriteLen - wire[k].bytes]
          BY <4>2, <4>3
        <5>2. QED
          BY <5>1 DEF m
      <4>4. QED
        BY <4>3
    <3>2. \A k \in 1 .. Len(wire) : wire[k].msg # m
      BY <1>3, <1>4, <2>2 DEF OnTheWire
    <3>3. \A k \in 1 .. Len(wire) : k > 1 => wire[k - 1].msg < wire[k].msg
      BY <1>4, LenProperties DEF Writes, WholeMessages
    <3>4. QED
      BY <3>1, <3>2, <3>3
  <2>8. wire' # <<>>
    BY <2>4
  <2>9. WriteTyped'
    <3>1. wire'[l].msg = m /\ wire'[l].bytes = n
      BY <2>4
    <3>2. \A k \in 1 .. l : wire'[k].msg <= asked /\ (k < l => wire'[k].msg < m)
      BY <1>3, <2>2, <2>4, <2>5, <2>6, <3>1
    <3>3. n # left => wbuf'[1].msg = m /\ wbuf'[1].left = WriteLen - n
      BY <1>5, <2>2
    <3>4. n = WriteLen - (WriteLen - n)
      BY <1>2, <2>1
    <3>5. QED
      BY <1>1, <1>3, <1>5, <2>4, <2>8, <3>1, <3>2, <3>3, <3>4 DEF WriteTyped
  <2>10. WholeMessages'
    <3>1. DOMAIN wire' = 1 .. l
      BY <2>4
    <3>2. \A k \in 1 .. l : k > 1 => k - 1 \in 1 .. Len(wire)
      BY <1>4
    <3>3. \A k \in 1 .. l : k > 1 => wire'[k - 1].msg < wire'[k].msg
      BY <2>2, <2>4, <2>5, <2>7, <3>2
    <3>4. QED
      BY <1>5, <2>2, <2>4, <2>5, <2>7, <3>1, <3>3 DEF WholeMessages
  <2>11. QED
    BY <2>9, <2>10 DEF Writes
<1>8. QED
  BY <1>6, <1>7

------------------------------------------------------------------------------
(* The messages from the peer. *)

Reads == Contiguous /\ ReadTyped /\ (~shortSplit => InStep)

(* Facts about frames and the deque that every step uses. *)
LEMMA FrameFacts ==
  ASSUME Contiguous, NEW k \in 1 .. Len(frames)
  PROVE  /\ frames[k].from \in Nat /\ frames[k].to \in Nat /\ frames[k].from < frames[k].to
         /\ frames[k] = [from |-> frames[k].from, to |-> frames[k].to]
         /\ Len(frames) \in Nat \ {0} /\ Sent \in Nat /\ frames[k].to <= Sent
<1>1. frames \in Seq(Frame) /\ Len(frames) \in Nat \ {0} /\ Len(frames) \in 1 .. Len(frames)
  BY DEF Contiguous
<1>2. \A i \in 1 .. Len(frames) : frames[i] \in Frame
  BY <1>1
<1>3. \A i \in 1 .. Len(frames) : frames[i].from \in Nat /\ frames[i].to \in Nat
  BY <1>2 DEF Frame
<1>4. frames[k].from < frames[k].to /\ frames[Len(frames)].from < frames[Len(frames)].to
  BY <1>1 DEF Contiguous
<1>5. frames[k] = [from |-> frames[k].from, to |-> frames[k].to]
  BY <1>2 DEF Frame
<1>6. k # Len(frames) => frames[k].to <= frames[Len(frames)].from
  BY <1>1 DEF Contiguous
<1>7. QED
  BY <1>1, <1>3, <1>4, <1>5, <1>6 DEF Sent

(* A message of the read buffer has numbers for its fields.                *)
LEMMA MsgFacts ==
  ASSUME ReadTyped, NEW k \in 1 .. Len(msgs)
  PROVE  /\ msgs[k] \in ReadMsg /\ msgs[k].from \in Nat /\ msgs[k].size \in Nat
         /\ msgs[k].mLength \in Nat \cup {-1}
         /\ Len(msgs) \in Nat \ {0} /\ Len(msgs) \in 1 .. Len(msgs) /\ msgs # <<>>
<1>1. msgs \in Seq(ReadMsg)
  BY DEF ReadTyped
<1>2. Len(msgs) \in Nat \ {0} /\ Len(msgs) \in 1 .. Len(msgs) /\ msgs # <<>> /\ msgs[k] \in ReadMsg
  BY <1>1
<1>3. QED
  BY <1>2 DEF ReadMsg

(* The peer sends another message. *)
LEMMA PeerSendsKeeps ==
  ASSUME Reads, NEW len \in PayloadLens, PeerSends(len)
  PROVE  Reads'
<1> DEFINE L == Len(frames)
           f == [from |-> Sent, to |-> Sent + HeaderLen + len]
<1>1. Contiguous /\ ReadTyped /\ len \in Nat
  BY LengthsAssumption DEF Reads
<1>2. frames' = Append(frames, f) /\ UNCHANGED <<pos, view, parsing, known, msgs, delivered, shortSplit>>
  BY DEF PeerSends, readVars
<1>3. frames \in Seq(Frame) /\ L \in Nat \ {0} /\ L \in 1 .. L
  BY <1>1 DEF Contiguous
<1>4. Sent \in Nat
  BY <1>1, <1>3, FrameFacts
<1>5. f \in Frame /\ Sent + HeaderLen + len \in Nat
  BY <1>1, <1>4 DEF Frame, HeaderLen
<1>6. frames' \in Seq(Frame) /\ Len(frames') = L + 1 /\ frames'[L + 1] = f
      /\ \A k \in 1 .. L : frames'[k] = frames[k]
  <2> HIDE DEF f
  <2>1. QED
    BY <1>2, <1>3, <1>5
<1>7. /\ frames'[L + 1].from = Sent /\ frames'[L + 1].to = Sent + HeaderLen + len
      /\ Sent' = Sent + HeaderLen + len
  BY <1>3, <1>6 DEF Sent
<1>8. \A k \in 1 .. L : frames[k].to <= Sent /\ frames[k].to \in Nat /\ frames[k].from \in Nat
                        /\ frames[k].from < frames[k].to
  BY <1>1, FrameFacts
<1>9. \A k \in 1 .. L + 1 : k # L + 1 => k \in 1 .. L
  BY <1>3
<1>10. Contiguous'
  <2>1. frames'[1] = Handshake'
    BY <1>1, <1>3, <1>6 DEF Contiguous, Handshake
  <2>2. \A k \in 1 .. L + 1 : frames'[k].from < frames'[k].to
    BY <1>1, <1>4, <1>6, <1>7, <1>8, <1>9 DEF HeaderLen
  <2>3. ASSUME NEW k \in 2 .. L + 1
        PROVE  Length(frames'[k]) >= HeaderLen /\ frames'[k].from = frames'[k - 1].to
    <3>1. CASE k = L + 1
      <4>1. k - 1 = L
        BY <1>3, <3>1
      <4>2. frames'[k - 1].to = Sent
        BY <1>3, <1>6, <4>1 DEF Sent
      <4>3. Length(frames'[k]) >= HeaderLen
        BY <1>1, <1>4, <1>7, <3>1 DEF Length, HeaderLen
      <4>4. QED
        BY <1>7, <3>1, <4>2, <4>3
    <3>2. CASE k # L + 1
      <4>1. k \in 2 .. L /\ k \in 1 .. L /\ k - 1 \in 1 .. L
        BY <1>3, <3>2
      <4>2. Length(frames[k]) >= HeaderLen /\ frames[k].from = frames[k - 1].to
        BY <1>1, <4>1 DEF Contiguous
      <4>3. QED
        BY <1>6, <4>1, <4>2
    <3>3. QED
      BY <3>1, <3>2
  <2>4. ASSUME NEW i \in 1 .. L + 1, NEW j \in 1 .. L + 1, i < j
        PROVE  frames'[i].to <= frames'[j].from
    <3>1. i \in 1 .. L
      BY <1>3, <2>4
    <3>2. CASE j = L + 1
      BY <1>6, <1>7, <1>8, <3>1, <3>2
    <3>3. CASE j # L + 1
      <4>1. j \in 1 .. L
        BY <1>9, <3>3
      <4>2. frames[i].to <= frames[j].from
        BY <1>1, <2>4, <3>1, <4>1 DEF Contiguous
      <4>3. QED
        BY <1>6, <3>1, <4>1, <4>2
    <3>4. QED
      BY <3>2, <3>3
  <2>5. Len(frames') >= 1
    BY <1>3, <1>6
  <2>6. QED
    BY <1>6, <2>1, <2>2, <2>3, <2>4, <2>5 DEF Contiguous, HeaderLen
<1>11. ReadTyped'
  <2>1. pos + view <= Sent'
    BY <1>1, <1>4, <1>7 DEF ReadTyped, HeaderLen
  <2>2. QED
    BY <1>1, <1>2, <2>1 DEF ReadTyped, IsComplete, IsInitialized
<1>12. ASSUME ~shortSplit' PROVE InStep'
  <2>1. InStep /\ delivered \in Seq(Frame) /\ msgs \in Seq(ReadMsg)
    BY <1>2, <1>12 DEF Reads, ReadTyped
  <2>2. \A k \in 1 .. Len(delivered) : k \in 1 .. L
    BY <1>3, <2>1 DEF InStep
  <2>3. \A k \in 1 .. Len(msgs) : Len(delivered) + k \in 1 .. L
    BY <1>3, <2>1 DEF InStep
  <2>4. \A k \in 1 .. Len(msgs) :
           MsgOf(msgs[k], frames[Len(delivered) + k], Len(delivered) + k, Between)'
    BY <1>2, <1>6, <2>1, <2>3 DEF InStep, Between
  <2>5. Len(delivered) # 0 => Len(delivered) \in 1 .. L
    BY <2>1, <2>2
  <2>6. msgs' = <<>> => pos' = IF Len(delivered') = 0 THEN 0 ELSE frames'[Len(delivered')].to
    BY <1>2, <1>6, <2>1, <2>5 DEF InStep
  <2>7. Len(delivered) + Len(msgs) <= Len(frames')
    BY <1>3, <1>6, <2>1 DEF InStep
  <2>8. \A k \in 1 .. Len(delivered) : delivered[k] = frames'[k]
    BY <1>6, <2>1, <2>2 DEF InStep
  <2>9. QED
    BY <1>2, <2>1, <2>4, <2>6, <2>7, <2>8 DEF InStep
<1>13. QED
  BY <1>10, <1>11, <1>12 DEF Reads

(* A chunk is read: what it continues was long enough before. *)
LEMMA ReadChunkKeeps ==
  ASSUME Reads, NEW n \in 1 .. MaxChunk, ReadChunk(n)
  PROVE  Reads'
<1>1. /\ ~parsing /\ parsing' /\ view' = n /\ pos + n <= Sent /\ n \in Nat
      /\ UNCHANGED <<frames, pos, known, msgs, delivered, shortSplit>>
  BY BoundsAssumption DEF ReadChunk
<1>2. Contiguous'
  BY <1>1 DEF Reads, Contiguous, Handshake, Length, HeaderLen
<1>3. ReadTyped'
  BY <1>1 DEF Reads, ReadTyped, Sent, IsComplete, IsInitialized
<1>4. ASSUME ~shortSplit' PROVE InStep'
  <2>1. InStep
    BY <1>1, <1>4 DEF Reads
  <2>2. \A k \in 1 .. Len(msgs) :
           MsgOf(msgs[k], frames[Len(delivered) + k], Len(delivered) + k, Between)'
    BY <1>1, <2>1 DEF InStep, Between, MsgOf
  <2>3. QED
    BY <1>1, <2>1, <2>2 DEF InStep
<1>5. QED
  BY <1>2, <1>3, <1>4 DEF Reads

(* The handshake is the first message. *)
LEMMA ParseHandshakeKeeps ==
  ASSUME Reads, ParseHandshake
  PROVE  Reads'
<1> DEFINE bytes == Least(HandshakeLen, view)
           m == [from |-> pos, size |-> bytes, mLength |-> HandshakeLen]
<1>1. /\ view > 0 /\ ~known /\ known' /\ msgs' = <<m>>
      /\ pos' = pos + bytes /\ view' = view - bytes
      /\ UNCHANGED <<frames, parsing, delivered, shortSplit>>
  BY DEF ParseHandshake, Taken
<1>2. Contiguous /\ ReadTyped /\ pos \in Nat /\ view \in Nat /\ HandshakeLen \in Nat \ {0}
  BY LengthsAssumption DEF Reads, ReadTyped
<1>3. bytes \in Nat \ {0} /\ bytes <= view /\ bytes <= HandshakeLen
  BY <1>1, <1>2 DEF Least
<1>4. parsing
  BY <1>1, <1>2 DEF ReadTyped
<1> HIDE DEF bytes
<1>5. m \in ReadMsg
  BY <1>2, <1>3 DEF ReadMsg
<1>6. msgs' \in Seq(ReadMsg) /\ Len(msgs') = 1 /\ msgs'[1] = m /\ msgs' # <<>>
  <2> HIDE DEF m
  <2>1. QED
    BY <1>1, <1>5
<1>7. Contiguous'
  BY <1>1, <1>2 DEF Contiguous, Handshake, Length, HeaderLen
<1>8. ReadTyped'
  <2>1. Sent \in Nat /\ pos + view <= Sent
    <3>1. 1 \in 1 .. Len(frames)
      BY <1>2 DEF Contiguous
    <3>2. QED
      BY <1>2, <3>1, FrameFacts DEF ReadTyped
  <2>2. Sent' = Sent
    BY <1>1 DEF Sent
  <2>3. pos' \in Nat /\ view' \in Nat /\ pos' + view' <= Sent'
    BY <1>1, <1>2, <1>3, <2>1, <2>2
  <2>4. \A k \in 1 .. Len(msgs') : ~(k < Len(msgs'))
    BY <1>6
  <2>5. delivered' \in Seq(Frame)
    BY <1>1, <1>2 DEF ReadTyped
  <2>6. QED
    BY <1>1, <1>4, <1>6, <2>3, <2>4, <2>5 DEF ReadTyped
<1>9. ASSUME ~shortSplit' PROVE InStep'
  <2>1. InStep
    BY <1>1, <1>9 DEF Reads
  <2>2. Len(delivered) \in Nat /\ Len(msgs) \in Nat /\ msgs \in Seq(ReadMsg)
    BY <1>2 DEF ReadTyped
  <2>3. Len(delivered) = 0 /\ Len(msgs) = 0
    BY <1>1, <2>1, <2>2 DEF InStep
  <2>4. msgs = <<>>
    BY <2>2, <2>3
  <2>5. pos = 0
    BY <2>1, <2>3, <2>4 DEF InStep
  <2>6. frames[1].from = 0 /\ frames[1].to = HandshakeLen /\ Len(frames) \in Nat \ {0}
    BY <1>2 DEF Contiguous, Handshake
  <2>7. m.from = 0 /\ m.size = bytes /\ m.mLength = HandshakeLen
    BY <2>5
  <2>8. Length(frames[1]) = HandshakeLen
    BY <1>2, <2>6 DEF Length
  <2>9. \A k \in 1 .. Len(msgs') :
           MsgOf(msgs[k], frames[Len(delivered) + k], Len(delivered) + k, Between)'
    <3>1. MsgOf(m, frames[1], 1, Between')
      BY <1>2, <1>3, <2>6, <2>7, <2>8 DEF MsgOf
    <3>2. ASSUME NEW k \in 1 .. Len(msgs')
          PROVE  k = 1 /\ Len(delivered') + k = 1
      BY <1>1, <1>6, <2>3
    <3>3. QED
      BY <1>1, <1>6, <3>1, <3>2
  <2>10. pos' = msgs'[Len(msgs')].from + msgs'[Len(msgs')].size
    BY <1>1, <1>3, <1>6, <2>5, <2>7
  <2>11. Len(delivered') + Len(msgs') = 1
    BY <1>1, <1>6, <2>3
  <2>12. QED
    BY <1>1, <1>6, <2>3, <2>6, <2>9, <2>10, <2>11 DEF InStep
<1>10. QED
  BY <1>7, <1>8, <1>9 DEF Reads

(* More bytes of the last message. *)
LEMMA ParseBodyKeeps ==
  ASSUME Reads, ParseBody
  PROVE  Reads'
<1> DEFINE l == Len(msgs)
           m == msgs[l]
           bytes == Least(m.mLength - m.size, view)
           e == [m EXCEPT !.size = m.size + bytes]
<1>1. /\ view > 0 /\ known /\ InBody /\ known' = known
      /\ msgs' = [msgs EXCEPT ![l].size = @ + bytes]
      /\ pos' = pos + bytes /\ view' = view - bytes
      /\ UNCHANGED <<frames, parsing, delivered, shortSplit>>
  BY DEF ParseBody, Taken, BodyBytes
<1>2. Contiguous /\ ReadTyped /\ pos \in Nat /\ view \in Nat /\ msgs \in Seq(ReadMsg)
  BY DEF Reads, ReadTyped
<1>3. l \in 1 .. Len(msgs) /\ l \in Nat \ {0} /\ msgs # <<>>
  BY <1>1, <1>2 DEF InBody
<1>4. m.from \in Nat /\ m.size \in Nat /\ m.mLength \in Nat \cup {-1} /\ m \in ReadMsg
  BY <1>2, <1>3, MsgFacts
<1>5. m.mLength \in Nat /\ m.size < m.mLength
  <2>1. IsInitialized(m) /\ ~IsComplete(m)
    BY <1>1 DEF InBody
  <2>2. QED
    BY <1>4, <2>1 DEF IsInitialized, IsComplete
<1>6. parsing
  BY <1>1, <1>2 DEF ReadTyped
<1>7. bytes \in Nat \ {0} /\ bytes <= view /\ m.size + bytes <= m.mLength
  <2> HIDE DEF m
  <2>1. QED
    BY <1>1, <1>2, <1>4, <1>5 DEF Least
<1>8. msgs' = [msgs EXCEPT ![l] = e]
  BY <1>1
<1> HIDE DEF bytes
<1>9. e \in ReadMsg /\ e.from = m.from /\ e.size = m.size + bytes /\ e.mLength = m.mLength
  <2>1. m.size + bytes \in Nat
    BY <1>4, <1>7
  <2>2. QED
    BY <1>4, <2>1 DEF ReadMsg
<1> HIDE DEF e
<1>10. /\ msgs' \in Seq(ReadMsg) /\ Len(msgs') = l /\ msgs'[l] = e
       /\ \A k \in 1 .. l : k # l => msgs'[k] = msgs[k]
  BY <1>2, <1>3, <1>8, <1>9, ExceptSeq
<1>11. msgs' # <<>>
  BY <1>3, <1>10
<1>12. Contiguous'
  BY <1>1, <1>2 DEF Contiguous, Handshake, Length, HeaderLen
<1>13. ReadTyped'
  <2>1. Sent \in Nat /\ pos + view <= Sent
    <3>1. 1 \in 1 .. Len(frames)
      BY <1>2 DEF Contiguous
    <3>2. QED
      BY <1>2, <3>1, FrameFacts DEF ReadTyped
  <2>2. Sent' = Sent
    BY <1>1 DEF Sent
  <2>3. pos' \in Nat /\ view' \in Nat /\ pos' + view' <= Sent'
    BY <1>1, <1>2, <1>7, <2>1, <2>2
  <2>4. \A k \in 1 .. l : k < l => IsComplete(msgs'[k])
    <3>1. \A k \in 1 .. l : k < l => k # l
      BY <1>3
    <3>2. QED
      BY <1>2, <1>10, <3>1 DEF ReadTyped
  <2>5. delivered' \in Seq(Frame)
    BY <1>1, <1>2 DEF ReadTyped
  <2>6. QED
    BY <1>1, <1>6, <1>10, <2>3, <2>4, <2>5 DEF ReadTyped, IsComplete, IsInitialized
<1>14. ASSUME ~shortSplit' PROVE InStep'
  <2>1. InStep
    BY <1>1, <1>14 DEF Reads
  <2>2. ASSUME NEW k \in 1 .. l
        PROVE  MsgOf(msgs'[k], frames[Len(delivered) + k], Len(delivered) + k, Between')
    <3> DEFINE f == frames[Len(delivered) + k]
    <3>1. MsgOf(msgs[k], f, Len(delivered) + k, Between)
      BY <2>1 DEF InStep
    <3>2. CASE k = l
      <4>1. m.from = f.from /\ m.size \in 1 .. Length(f) /\ m.mLength = Length(f)
        BY <1>5, <3>1, <3>2 DEF MsgOf
      <4> HIDE DEF m
      <4>2. e.from = f.from /\ e.size \in 1 .. Length(f) /\ e.mLength = Length(f) /\ e.mLength # -1
        BY <1>4, <1>5, <1>7, <1>9, <4>1
      <4>3. QED
        BY <1>10, <3>2, <4>2 DEF MsgOf
    <3>3. CASE k # l
      <4>1. IsComplete(msgs[k])
        BY <1>2, <1>3, <3>3 DEF ReadTyped
      <4>2. msgs[k].mLength # -1
        BY <4>1 DEF IsComplete, IsInitialized
      <4>3. QED
        BY <1>10, <3>1, <3>3, <4>2 DEF MsgOf
    <3>4. QED
      BY <3>2, <3>3
  <2>3. pos = m.from + m.size
    BY <1>3, <2>1 DEF InStep
  <2>4. pos' = msgs'[Len(msgs')].from + msgs'[Len(msgs')].size
    <3>1. msgs'[Len(msgs')] = e /\ pos' = pos + bytes
      BY <1>1, <1>10
    <3> HIDE DEF m
    <3>2. (m.from + m.size) + bytes = m.from + (m.size + bytes)
      BY <1>4, <1>7
    <3>3. QED
      BY <1>9, <2>3, <3>1, <3>2
  <2>5. \A k \in 1 .. Len(msgs') :
           MsgOf(msgs[k], frames[Len(delivered) + k], Len(delivered) + k, Between)'
    BY <1>1, <1>10, <2>2
  <2>6. QED
    BY <1>1, <1>10, <1>11, <2>1, <2>4, <2>5 DEF InStep
<1>15. QED
  BY <1>12, <1>13, <1>14 DEF Reads

(* parseMessage's header: the message that gets it, a new one or the last. *)
LEMMA HeaderTyped ==
  ASSUME Reads, known, ~InBody
  PROVE  LET h == Headers
             l == Len(h)
         IN /\ h \in Seq(ReadMsg) /\ l \in Nat \ {0} /\ h[l] \in ReadMsg /\ h[l].mLength = -1
            /\ \A k \in 1 .. l : k < l => IsComplete(h[k])
<1>1. ReadTyped /\ msgs \in Seq(ReadMsg) /\ pos \in Nat
  BY DEF Reads, ReadTyped
<1>2. CASE Fresh
  <2> DEFINE e == [from |-> pos, size |-> 0, mLength |-> -1]
  <2>1. Headers = Append(msgs, e) /\ e \in ReadMsg /\ e.mLength = -1
    BY <1>1, <1>2 DEF Headers, ReadMsg
  <2> HIDE DEF e
  <2>2. /\ Headers \in Seq(ReadMsg) /\ Len(Headers) = Len(msgs) + 1 /\ Headers[Len(msgs) + 1] = e
        /\ \A k \in 1 .. Len(msgs) : Headers[k] = msgs[k]
    BY <1>1, <2>1
  <2>3. \A k \in 1 .. Len(msgs) : IsComplete(msgs[k])
    <3>1. ASSUME NEW k \in 1 .. Len(msgs) PROVE IsComplete(msgs[k])
      <4>1. k < Len(msgs) \/ k = Len(msgs)
        BY <1>1
      <4>2. msgs # <<>>
        BY <1>1
      <4>3. IsComplete(msgs[Len(msgs)])
        BY <1>2, <4>2 DEF Fresh
      <4>4. k < Len(msgs) => IsComplete(msgs[k])
        BY <1>1 DEF ReadTyped
      <4>5. QED
        BY <4>1, <4>3, <4>4
    <3>2. QED
      BY <3>1
  <2>4. \A k \in 1 .. Len(msgs) + 1 : k < Len(msgs) + 1 => k \in 1 .. Len(msgs)
    BY <1>1
  <2>5. Len(msgs) + 1 \in Nat \ {0}
    BY <1>1
  <2>6. QED
    BY <2>1, <2>2, <2>3, <2>4, <2>5
<1>3. CASE ~Fresh
  <2>1. Headers = msgs /\ msgs # <<>> /\ ~IsComplete(msgs[Len(msgs)])
    BY <1>3 DEF Headers, Fresh
  <2>2. Len(msgs) \in Nat \ {0} /\ Len(msgs) \in 1 .. Len(msgs)
    BY <1>1, <2>1
  <2>3. msgs[Len(msgs)] \in ReadMsg /\ msgs[Len(msgs)].mLength \in Nat \cup {-1}
    BY <1>1, <2>2, MsgFacts
  <2>4. ~IsInitialized(msgs[Len(msgs)])
    BY <2>1 DEF InBody
  <2>5. msgs[Len(msgs)].mLength = -1
    BY <2>3, <2>4 DEF IsInitialized
  <2>6. QED
    BY <1>1, <2>1, <2>2, <2>3, <2>5 DEF ReadTyped
<1>4. QED
  BY <1>2, <1>3

(* It belongs to a frame that has room for the bytes of a header. *)
LEMMA HeaderInStep ==
  ASSUME Reads, InStep, known, ~InBody, view > 0
  PROVE  LET h == Headers
             l == Len(h)
             d == Len(delivered) + l
         IN /\ d \in 2 .. Len(frames)
            /\ \A k \in 1 .. l : k # l =>
                  MsgOf(h[k], frames[Len(delivered) + k], Len(delivered) + k, Between)
            /\ h[l].from = frames[d].from /\ pos = h[l].from + h[l].size
            /\ \/ h[l].size = 0 /\ Length(frames[d]) >= HeaderLen
               \/ h[l].size \in 1 .. 3 /\ Length(frames[d]) >= 2 * HeaderLen - 1
<1> DEFINE n == Len(msgs)
           d == Len(delivered) + n
<1>1. /\ Contiguous /\ ReadTyped /\ msgs \in Seq(ReadMsg) /\ pos \in Nat /\ view \in Nat
      /\ delivered \in Seq(Frame) /\ frames \in Seq(Frame) /\ pos + view <= Sent
  BY DEF Reads, ReadTyped, Contiguous
<1>2. n \in Nat /\ Len(delivered) \in Nat /\ d \in 1 .. Len(frames) /\ Len(frames) \in Nat
  BY <1>1 DEF InStep
<1>3. CASE Fresh
  <2> DEFINE e == [from |-> pos, size |-> 0, mLength |-> -1]
  <2>1. Headers = Append(msgs, e) /\ e.from = pos /\ e.size = 0 /\ e \in ReadMsg
    BY <1>1, <1>3 DEF Headers, ReadMsg
  <2> HIDE DEF e
  <2>2. /\ Len(Headers) = n + 1 /\ Headers[n + 1] = e
        /\ \A k \in 1 .. n : Headers[k] = msgs[k]
    BY <1>1, <2>1
  <2>3. pos = frames[d].to
    <3>1. CASE msgs = <<>>
      <4>1. n = 0 /\ d = Len(delivered)
        BY <1>2, <3>1
      <4>2. Len(delivered) # 0
        BY <1>2, <4>1
      <4>3. QED
        BY <3>1, <4>1, <4>2 DEF InStep
    <3>2. CASE msgs # <<>>
      <4>1. n \in 1 .. n
        BY <1>1, <3>2
      <4>2. MsgOf(msgs[n], frames[d], d, Between) /\ pos = msgs[n].from + msgs[n].size
        BY <3>2, <4>1 DEF InStep
      <4>3. msgs[n].from \in Nat /\ msgs[n].size \in Nat /\ msgs[n].mLength \in Nat \cup {-1}
        BY <1>1, <4>1, MsgFacts
      <4>4. frames[d].from \in Nat /\ frames[d].to \in Nat
        BY <1>1, <1>2, FrameFacts
      <4>5. msgs[n].mLength >= 0 /\ msgs[n].mLength <= msgs[n].size
        BY <1>3, <3>2 DEF Fresh, IsComplete, IsInitialized
      <4>6. msgs[n].from = frames[d].from /\ msgs[n].size <= Length(frames[d])
            /\ msgs[n].mLength = Length(frames[d])
        BY <4>2, <4>5 DEF MsgOf
      <4>7. QED
        BY <4>2, <4>3, <4>4, <4>5, <4>6 DEF Length
    <3>3. QED
      BY <3>1, <3>2
  <2>4. d # Len(frames)
    <3>1. Sent \in Nat
      BY <1>1, <1>2, FrameFacts
    <3>2. pos # Sent
      BY <1>1, <3>1
    <3>3. QED
      BY <2>3, <3>2 DEF Sent
  <2>5. d + 1 \in 2 .. Len(frames) /\ (d + 1) - 1 = d /\ Len(delivered) + (n + 1) = d + 1
    BY <1>2, <2>4
  <2>6. frames[d + 1].from = pos /\ Length(frames[d + 1]) >= HeaderLen
    BY <1>1, <2>3, <2>5 DEF Contiguous
  <2>7. \A k \in 1 .. n + 1 : k # n + 1 => k \in 1 .. n
    BY <1>2
  <2>8. \A k \in 1 .. n : MsgOf(msgs[k], frames[Len(delivered) + k], Len(delivered) + k, Between)
    BY DEF InStep
  <2>9. pos = pos + 0
    BY <1>1
  <2>10. QED
    BY <2>1, <2>2, <2>5, <2>6, <2>7, <2>8, <2>9
<1>4. CASE ~Fresh
  <2>1. Headers = msgs /\ msgs # <<>> /\ n \in 1 .. n
    BY <1>1, <1>4 DEF Headers, Fresh
  <2>2. Headers[Len(Headers)].mLength = -1
    BY HeaderTyped
  <2>3. MsgOf(msgs[n], frames[d], d, Between) /\ pos = msgs[n].from + msgs[n].size
    BY <2>1 DEF InStep
  <2>4. Between /\ msgs[n].mLength = -1
    BY <2>1, <2>2 DEF Between
  <2>5. d >= 2 /\ msgs[n].from = frames[d].from /\ msgs[n].size < HeaderLen
        /\ msgs[n].size \in 1 .. Length(frames[d]) /\ Length(frames[d]) >= 2 * HeaderLen - 1
    BY <2>3, <2>4 DEF MsgOf
  <2>6. msgs[n].size \in Nat
    BY <1>1, <2>1, MsgFacts
  <2>7. msgs[n].size \in 1 .. 3
    BY <2>5, <2>6 DEF HeaderLen
  <2>8. d \in 2 .. Len(frames)
    BY <1>2, <2>5
  <2>9. QED
    BY <2>1, <2>3, <2>5, <2>7, <2>8 DEF InStep
<1>5. QED
  BY <1>3, <1>4

(* What the four bytes of a header decode to, where a frame begins and     *)
(* elsewhere.                                                              *)
LEMMA DecodedFacts ==
  ASSUME Contiguous
  PROVE  /\ \A from \in Nat : \A len \in Decoded(from) : len \in Nat
         /\ \A d \in 2 .. Len(frames) : \A len \in Decoded(frames[d].from) :
               len = Length(frames[d]) - HeaderLen
<1>1. \A k \in 2 .. Len(frames) :
         /\ k \in 1 .. Len(frames) /\ Length(frames[k]) >= HeaderLen
         /\ frames[k].from \in Nat /\ frames[k].to \in Nat /\ frames[k].from < frames[k].to
  <2>1. \A k \in 2 .. Len(frames) : k \in 1 .. Len(frames) /\ Length(frames[k]) >= HeaderLen
    BY DEF Contiguous
  <2>2. QED
    BY <2>1, FrameFacts
<1>2. ASSUME NEW from \in Nat, NEW len \in Decoded(from) PROVE len \in Nat
  <2>1. CASE \E k \in 2 .. Len(frames) : frames[k].from = from
    <3>1. PICK k \in 2 .. Len(frames) : len = frames[k].to - frames[k].from - HeaderLen
      BY <2>1 DEF Decoded
    <3>2. QED
      BY <1>1, <3>1 DEF Length, HeaderLen
  <2>2. CASE ~ \E k \in 2 .. Len(frames) : frames[k].from = from
    BY <2>2, LengthsAssumption DEF Decoded
  <2>3. QED
    BY <2>1, <2>2
<1>3. ASSUME NEW d \in 2 .. Len(frames), NEW len \in Decoded(frames[d].from)
      PROVE  len = Length(frames[d]) - HeaderLen
  <2>1. PICK k \in 2 .. Len(frames) : /\ frames[k].from = frames[d].from
                                      /\ len = frames[k].to - frames[k].from - HeaderLen
    BY DEF Decoded
  <2>2. k = d
    <3>1. \A i, j \in 1 .. Len(frames) : i < j => frames[i].to <= frames[j].from
      BY DEF Contiguous
    <3>a. k \in 1 .. Len(frames) /\ d \in 1 .. Len(frames) /\ k \in Int /\ d \in Int
      BY <1>1
    <3>b. k < d => frames[k].to <= frames[d].from
      BY <3>1, <3>a
    <3>c. d < k => frames[d].to <= frames[k].from
      BY <3>1, <3>a
    <3>2. ~(k < d) /\ ~(d < k)
      BY <1>1, <2>1, <3>a, <3>b, <3>c
    <3>3. QED
      BY <3>2
  <2>3. QED
    BY <2>1, <2>2 DEF Length
<1>4. QED
  BY <1>2, <1>3

(* The bytes of a header, all of them or not. *)
LEMMA ParseHeaderKeeps ==
  ASSUME Reads, ParseHeader
  PROVE  Reads'
<1> DEFINE h == Headers
           l == Len(h)
           bytes == Least(HeaderLen, view)
           size == h[l].size + bytes
<1>1. /\ view > 0 /\ known /\ ~InBody /\ known' = known
      /\ pos' = pos + bytes /\ view' = view - bytes
      /\ UNCHANGED <<frames, parsing, delivered, shortSplit>>
  BY DEF ParseHeader, Taken
<1>2. \/ size < HeaderLen /\ msgs' = [h EXCEPT ![l].size = size]
      \/ /\ size >= HeaderLen
         /\ \E len \in Decoded(h[l].from) :
               msgs' = [h EXCEPT ![l].size = size, ![l].mLength = len + HeaderLen]
  BY DEF ParseHeader
<1>3. Contiguous /\ ReadTyped /\ pos \in Nat /\ view \in Nat
  BY DEF Reads, ReadTyped
<1>4. /\ h \in Seq(ReadMsg) /\ l \in Nat \ {0} /\ h[l] \in ReadMsg /\ h[l].mLength = -1
      /\ \A k \in 1 .. l : k < l => IsComplete(h[k])
  BY <1>1, HeaderTyped
<1>5. h[l].from \in Nat /\ h[l].size \in Nat /\ l \in 1 .. Len(h) /\ DOMAIN h = 1 .. Len(h)
  BY <1>4 DEF ReadMsg
<1>6. bytes \in 1 .. 4 /\ bytes <= view /\ (bytes # 4 => bytes = view)
  BY <1>1, <1>3 DEF Least, HeaderLen
<1>7. parsing
  BY <1>1, <1>3 DEF ReadTyped
<1>8. ASSUME ~shortSplit'
      PROVE  LET d == Len(delivered) + l
             IN /\ d \in 2 .. Len(frames)
                /\ \A k \in 1 .. l : k # l =>
                      MsgOf(h[k], frames[Len(delivered) + k], Len(delivered) + k, Between)
                /\ h[l].from = frames[d].from /\ pos = h[l].from + h[l].size
                /\ \/ h[l].size = 0 /\ Length(frames[d]) >= HeaderLen
                   \/ h[l].size \in 1 .. 3 /\ Length(frames[d]) >= 2 * HeaderLen - 1
  <2>1. InStep
    BY <1>1, <1>8 DEF Reads
  <2>2. QED
    BY <1>1, <2>1, HeaderInStep
<1> HIDE DEF h, bytes
<1>9. size \in Nat
  BY <1>5, <1>6
<1>10. PICK e \in ReadMsg :
          /\ msgs' = [h EXCEPT ![l] = e] /\ e.from = h[l].from /\ e.size = size
          /\ \/ size < HeaderLen /\ e.mLength = -1
             \/ size >= HeaderLen /\ \E len \in Decoded(h[l].from) : e.mLength = len + HeaderLen
  <2>1. CASE size < HeaderLen /\ msgs' = [h EXCEPT ![l].size = size]
    <3> DEFINE e == [h[l] EXCEPT !.size = size]
    <3>1. e \in ReadMsg /\ e.from = h[l].from /\ e.size = size /\ e.mLength = -1
      BY <1>4, <1>9 DEF ReadMsg
    <3>2. msgs' = [h EXCEPT ![l] = e]
      BY <2>1
    <3> HIDE DEF e
    <3>3. QED
      BY <2>1, <3>1, <3>2
  <2>2. ASSUME NEW len \in Decoded(h[l].from), size >= HeaderLen,
               msgs' = [h EXCEPT ![l].size = size, ![l].mLength = len + HeaderLen]
        PROVE  \E e \in ReadMsg :
                  /\ msgs' = [h EXCEPT ![l] = e] /\ e.from = h[l].from /\ e.size = size
                  /\ e.mLength = len + HeaderLen
    <3> DEFINE e == [h[l] EXCEPT !.size = size, !.mLength = len + HeaderLen]
    <3>1. len \in Nat
      BY <1>3, <1>5, DecodedFacts
    <3>2. len + HeaderLen \in Nat
      BY <3>1 DEF HeaderLen
    <3>3. e \in ReadMsg /\ e.from = h[l].from /\ e.size = size /\ e.mLength = len + HeaderLen
      BY <1>4, <1>9, <3>2 DEF ReadMsg
    <3>4. msgs' = [h EXCEPT ![l] = e]
      BY <1>4, <1>5, <2>2
    <3> HIDE DEF e
    <3>5. QED
      BY <3>3, <3>4
  <2>3. QED
    BY <1>2, <2>1, <2>2
<1>11. /\ msgs' \in Seq(ReadMsg) /\ Len(msgs') = l /\ msgs'[l] = e /\ msgs' # <<>>
       /\ \A k \in 1 .. l : k # l => msgs'[k] = h[k]
  <2>1. /\ msgs' \in Seq(ReadMsg) /\ Len(msgs') = l /\ msgs'[l] = e
        /\ \A k \in 1 .. l : k # l => msgs'[k] = h[k]
    BY <1>4, <1>5, <1>10, ExceptSeq
  <2>2. QED
    BY <1>4, <2>1
<1>12. Contiguous'
  BY <1>1, <1>3 DEF Contiguous, Handshake, Length, HeaderLen
<1>13. ReadTyped'
  <2>1. Sent \in Nat /\ pos + view <= Sent
    <3>1. 1 \in 1 .. Len(frames)
      BY <1>3 DEF Contiguous
    <3>2. QED
      BY <1>3, <3>1, FrameFacts DEF ReadTyped
  <2>2. Sent' = Sent
    BY <1>1 DEF Sent
  <2>3. pos' \in Nat /\ view' \in Nat /\ pos' + view' <= Sent'
    BY <1>1, <1>3, <1>6, <2>1, <2>2
  <2>4. \A k \in 1 .. l : k < l => IsComplete(msgs'[k])
    <3>1. \A k \in 1 .. l : k < l => k # l
      BY <1>4
    <3>2. QED
      BY <1>4, <1>11, <3>1
  <2>5. delivered' \in Seq(Frame)
    BY <1>1, <1>3 DEF ReadTyped
  <2>6. QED
    BY <1>1, <1>7, <1>11, <2>3, <2>4, <2>5 DEF ReadTyped, IsComplete, IsInitialized
<1>14. ASSUME ~shortSplit' PROVE InStep'
  <2> DEFINE d == Len(delivered) + l
             f == frames[d]
  <2>1. InStep /\ Len(delivered) \in Nat
    BY <1>1, <1>3, <1>14 DEF Reads, ReadTyped
  <2>2. /\ d \in 2 .. Len(frames)
        /\ \A k \in 1 .. l : k # l =>
              MsgOf(h[k], frames[Len(delivered) + k], Len(delivered) + k, Between)
        /\ h[l].from = f.from /\ pos = h[l].from + h[l].size
        /\ \/ h[l].size = 0 /\ Length(f) >= HeaderLen
           \/ h[l].size \in 1 .. 3 /\ Length(f) >= 2 * HeaderLen - 1
    BY <1>8, <1>14
  <2>3. Length(f) \in Nat
    <3>1. d \in 1 .. Len(frames)
      BY <2>2
    <3>2. f.from \in Nat /\ f.to \in Nat /\ f.from < f.to
      <4> HIDE DEF d
      <4>1. QED
        BY <1>3, <3>1, FrameFacts
    <3> HIDE DEF f
    <3>3. QED
      BY <3>2 DEF Length
  <2>4. size \in 1 .. Length(f)
    <3> DEFINE z == h[l].size
    <3>1. \/ z = 0 /\ Length(f) >= HeaderLen
          \/ z \in 1 .. 3 /\ Length(f) >= 2 * HeaderLen - 1
      BY <2>2
    <3>2. size = z + bytes
      OBVIOUS
    <3> HIDE DEF f, z, size
    <3>3. QED
      BY <1>6, <2>3, <3>1, <3>2 DEF HeaderLen
  <2>5. e.mLength \in {-1, Length(f)}
    <3>1. \A len \in Decoded(h[l].from) : len = Length(f) - HeaderLen
      BY <1>3, <2>2, DecodedFacts
    <3> HIDE DEF f, d
    <3>2. \A len \in Decoded(h[l].from) : len + HeaderLen = Length(f)
      BY <2>3, <3>1 DEF HeaderLen
    <3>3. QED
      BY <1>10, <3>2
  <2>6. e.mLength = -1 => size < HeaderLen /\ ~Between'
    <3>1. size >= HeaderLen => e.mLength # -1
      <4>1. \A len \in Decoded(h[l].from) : len \in Nat
        BY <1>3, <1>5, DecodedFacts
      <4>2. QED
        BY <1>9, <1>10, <4>1 DEF HeaderLen
    <3>2. size < HeaderLen => view' = 0
      <4>1. size < HeaderLen => bytes # 4
        BY <1>5, <1>6 DEF HeaderLen
      <4>2. QED
        BY <1>1, <1>3, <1>6, <4>1
    <3>3. parsing'
      BY <1>1, <1>7
    <3>4. view' = 0 => ~Between'
      BY <3>3 DEF Between
    <3>5. size < HeaderLen \/ size >= HeaderLen
      BY <1>9 DEF HeaderLen
    <3>6. QED
      BY <3>1, <3>2, <3>4, <3>5
  <2>7. MsgOf(e, f, d, Between')
    BY <1>10, <2>2, <2>4, <2>5, <2>6 DEF MsgOf
  <2>8. ASSUME NEW k \in 1 .. l
        PROVE  MsgOf(msgs'[k], frames[Len(delivered) + k], Len(delivered) + k, Between')
    <3>1. CASE k = l
      BY <1>11, <2>7, <3>1
    <3>2. CASE k # l
      <4>1. MsgOf(h[k], frames[Len(delivered) + k], Len(delivered) + k, Between)
        BY <2>2, <3>2
      <4>2. h[k].mLength # -1
        <5>1. k < l
          BY <1>4, <3>2
        <5>2. IsComplete(h[k])
          BY <1>4, <5>1
        <5>3. QED
          BY <5>2 DEF IsComplete, IsInitialized
      <4>3. MsgOf(h[k], frames[Len(delivered) + k], Len(delivered) + k, Between')
        BY <4>1, <4>2 DEF MsgOf
      <4>4. QED
        BY <1>11, <3>2, <4>3
    <3>3. QED
      BY <3>1, <3>2
  <2>9. pos' = msgs'[Len(msgs')].from + msgs'[Len(msgs')].size
    <3>0. pos' = pos + bytes
      BY <1>1
    <3>1. msgs'[Len(msgs')] = e
      BY <1>11
    <3>2. (h[l].from + h[l].size) + bytes = h[l].from + (h[l].size + bytes)
      BY <1>5, <1>6
    <3>3. e.from = h[l].from /\ e.size = h[l].size + bytes
      BY <1>10
    <3>4. pos = h[l].from + h[l].size
      BY <2>2
    <3>5. QED
      BY <3>0, <3>1, <3>2, <3>3, <3>4
  <2>10. \A k \in 1 .. Len(msgs') :
           MsgOf(msgs[k], frames[Len(delivered) + k], Len(delivered) + k, Between)'
    BY <1>1, <1>11, <2>8
  <2>11. Len(delivered') + Len(msgs') <= Len(frames') /\ Len(delivered') + Len(msgs') > 0
    BY <1>1, <1>11, <2>2
  <2>12. QED
    BY <1>1, <1>11, <2>1, <2>9, <2>10, <2>11 DEF InStep
<1>15. QED
  BY <1>12, <1>13, <1>14 DEF Reads

(* writeToBuffer hands on the first n messages of the deque, and leaves    *)
(* the others, of which there is at most one.                              *)
LEMMA EndChunkSplits ==
  ASSUME ReadTyped, EndChunk
  PROVE  \E n \in {Len(msgs), Len(msgs) - 1} :
            /\ n \in 0 .. Len(msgs) /\ Len(CompleteMsgs) = n /\ DOMAIN CompleteMsgs = 1 .. n
            /\ \A k \in 1 .. n : CompleteMsgs[k] = msgs[k] /\ IsComplete(msgs[k])
            /\ msgs' \in Seq(ReadMsg) /\ Len(msgs') = Len(msgs) - n
            /\ n = Len(msgs) => msgs' = <<>>
            /\ n # Len(msgs) => /\ msgs' # <<>> /\ msgs'[1] = msgs[Len(msgs)]
                                /\ ~IsComplete(msgs[Len(msgs)])
<1> DEFINE l == Len(msgs)
           C == {k \in DOMAIN msgs : IsComplete(msgs[k])}
           D == {k \in DOMAIN msgs : ~IsComplete(msgs[k])}
<1>1. msgs \in Seq(ReadMsg) /\ DOMAIN msgs = 1 .. l /\ l \in Nat
  BY DEF ReadTyped
<1>2. \A k \in 1 .. l : k < l => IsComplete(msgs[k])
  BY DEF ReadTyped
<1>3. CompleteMsgs = Filtered(msgs, C) /\ msgs' = Filtered(msgs, D)
  BY DEF CompleteMsgs, EndChunk
<1>4. CASE \A k \in 1 .. l : IsComplete(msgs[k])
  <2>1. C = 1 .. l /\ D = {}
    BY <1>1, <1>4
  <2>2. CompleteMsgs = Filtered(msgs, 1 .. l) /\ msgs' = Filtered(msgs, {})
    BY <1>3, <2>1
  <2>3. msgs' = <<>>
    BY <2>2, FilteredNone
  <2>4. l \in 0 .. Len(msgs)
    BY <1>1
  <2>5. /\ Filtered(msgs, 1 .. l) \in Seq(ReadMsg) /\ Len(Filtered(msgs, 1 .. l)) = l
        /\ \A k \in 1 .. l : Filtered(msgs, 1 .. l)[k] = msgs[k]
    BY <1>1, <2>4, FilteredFirst
  <2>6. /\ CompleteMsgs \in Seq(ReadMsg) /\ Len(CompleteMsgs) = l
        /\ \A k \in 1 .. l : CompleteMsgs[k] = msgs[k]
    BY <2>2, <2>5
  <2>7. DOMAIN CompleteMsgs = 1 .. l
    BY <2>6, LenProperties
  <2>8. msgs' \in Seq(ReadMsg) /\ Len(msgs') = l - l
    BY <1>1, <2>3
  <2>9. QED
    BY <1>4, <2>3, <2>4, <2>6, <2>7, <2>8
<1>5. CASE ~ \A k \in 1 .. l : IsComplete(msgs[k])
  <2>1. l \in 1 .. l /\ msgs # <<>> /\ ~IsComplete(msgs[l])
    BY <1>1, <1>2, <1>5
  <2>2. C = 1 .. l - 1 /\ D = {l}
    BY <1>1, <1>2, <2>1
  <2>3. CompleteMsgs = Filtered(msgs, 1 .. l - 1) /\ msgs' = Filtered(msgs, {l})
    BY <1>3, <2>2
  <2>4. l - 1 \in 0 .. Len(msgs) /\ l - 1 # l /\ 1 = l - (l - 1)
    <3>1. l \in Nat \ {0}
      BY <1>1, <2>1
    <3> HIDE DEF l
    <3>2. l - 1 \in 0 .. l /\ l - 1 # l /\ 1 = l - (l - 1)
      BY <3>1
    <3>3. QED
      BY <3>2 DEF l
  <2>5. /\ Filtered(msgs, 1 .. l - 1) \in Seq(ReadMsg) /\ Len(Filtered(msgs, 1 .. l - 1)) = l - 1
        /\ \A k \in 1 .. l - 1 : Filtered(msgs, 1 .. l - 1)[k] = msgs[k]
    <3> DEFINE n == l - 1
    <3>1. n \in 0 .. Len(msgs)
      BY <2>4
    <3> HIDE DEF n
    <3>2. /\ Filtered(msgs, 1 .. n) \in Seq(ReadMsg) /\ Len(Filtered(msgs, 1 .. n)) = n
          /\ \A k \in 1 .. n : Filtered(msgs, 1 .. n)[k] = msgs[k]
      BY <1>1, <3>1, FilteredFirst
    <3>3. QED
      BY <3>2 DEF n
  <2>6. /\ CompleteMsgs \in Seq(ReadMsg) /\ Len(CompleteMsgs) = l - 1
        /\ \A k \in 1 .. l - 1 : CompleteMsgs[k] = msgs[k] /\ IsComplete(msgs[k])
    <3>1. \A k \in 1 .. l - 1 : k \in 1 .. l /\ k < l
      BY <1>1
    <3>2. QED
      BY <1>2, <2>3, <2>5, <3>1
  <2>7. DOMAIN CompleteMsgs = 1 .. l - 1
    BY <2>6, LenProperties
  <2>8. msgs' \in Seq(ReadMsg) /\ Len(msgs') = 1 /\ msgs'[1] = msgs[l]
    BY <1>1, <2>1, <2>3, FilteredLast
  <2>9. msgs' # <<>>
    BY <2>8, EmptySeq
  <2> DEFINE n == l - 1
  <2>10. n \in {l, l - 1} /\ n \in 0 .. l /\ n # l /\ Len(msgs') = l - n
    BY <2>4, <2>8
  <2>11. /\ Len(CompleteMsgs) = n /\ DOMAIN CompleteMsgs = 1 .. n
         /\ \A k \in 1 .. n : CompleteMsgs[k] = msgs[k] /\ IsComplete(msgs[k])
    BY <2>6, <2>7
  <2> HIDE DEF n
  <2>12. QED
    BY <2>1, <2>8, <2>9, <2>10, <2>11
<1>6. QED
  BY <1>4, <1>5

(* The messages handed on are frames, and a message that stays is in a     *)
(* frame long enough for what it lacks, unless shortSplit notes it.        *)
LEMMA EndChunkKeeps ==
  ASSUME Reads, EndChunk
  PROVE  Reads'
<1> DEFINE l == Len(msgs)
           p == Len(delivered)
           r == [k \in DOMAIN CompleteMsgs |-> Reported(CompleteMsgs[k])]
<1>1. /\ parsing /\ view = 0 /\ ~parsing' /\ delivered' = delivered \o r
      /\ shortSplit' = (shortSplit \/ ShortSplit)
      /\ UNCHANGED <<frames, pos, view, known>>
  BY DEF EndChunk
<1>2. /\ Contiguous /\ ReadTyped /\ msgs \in Seq(ReadMsg) /\ delivered \in Seq(Frame)
      /\ pos \in Nat /\ l \in Nat /\ p \in Nat
  BY DEF Reads, ReadTyped
<1>3. PICK n \in {Len(msgs), Len(msgs) - 1} :
            /\ n \in 0 .. Len(msgs) /\ Len(CompleteMsgs) = n /\ DOMAIN CompleteMsgs = 1 .. n
            /\ \A k \in 1 .. n : CompleteMsgs[k] = msgs[k] /\ IsComplete(msgs[k])
            /\ msgs' \in Seq(ReadMsg) /\ Len(msgs') = Len(msgs) - n
            /\ n = Len(msgs) => msgs' = <<>>
            /\ n # Len(msgs) => /\ msgs' # <<>> /\ msgs'[1] = msgs[Len(msgs)]
                                /\ ~IsComplete(msgs[Len(msgs)])
  BY <1>2, EndChunkSplits
<1>4. n \in Nat /\ n <= l /\ (\A k \in 1 .. n : k \in 1 .. l) /\ (n # l => n = l - 1 /\ l \in 1 .. l)
  BY <1>2, <1>3
<1>5. \A k \in 1 .. n : r[k] = Reported(msgs[k]) /\ r[k] \in Frame
  <2>1. \A k \in 1 .. n : r[k] = Reported(msgs[k])
    BY <1>3
  <2>2. ASSUME NEW k \in 1 .. n PROVE Reported(msgs[k]) \in Frame
    <3>1. msgs[k].from \in Nat /\ msgs[k].size \in Nat
      BY <1>2, <1>4, MsgFacts
    <3>2. msgs[k].from + msgs[k].size \in Nat
      BY <3>1
    <3>3. QED
      BY <3>1, <3>2 DEF Reported, Frame
  <2>3. QED
    BY <2>1, <2>2
<1>6. r \in Seq(Frame) /\ Len(r) = n
  <2>1. r \in [1 .. n -> Frame]
    BY <1>3, <1>5
  <2> HIDE DEF r
  <2>2. QED
    BY <1>4, <2>1, FunctionIsSeq
<1> HIDE DEF r
<1>7. /\ delivered' \in Seq(Frame) /\ Len(delivered') = p + n
      /\ \A k \in 1 .. p : delivered'[k] = delivered[k]
      /\ \A k \in 1 .. n : delivered'[p + k] = Reported(msgs[k])
  <2>1. delivered \o r \in Seq(Frame) /\ Len(delivered \o r) = p + n
    BY <1>2, <1>6, ConcatProperties
  <2>2. \A k \in 1 .. p + n : (delivered \o r)[k] = IF k <= p THEN delivered[k] ELSE r[k - p]
    BY <1>2, <1>6, ConcatProperties
  <2>3. \A k \in 1 .. p : k \in 1 .. p + n /\ k <= p
    BY <1>2, <1>4
  <2>4. \A k \in 1 .. n : p + k \in 1 .. p + n /\ ~(p + k <= p) /\ (p + k) - p = k
    BY <1>2, <1>4
  <2>5. QED
    BY <1>1, <1>5, <2>1, <2>2, <2>3, <2>4
<1>8. Contiguous'
  BY <1>1, <1>2 DEF Contiguous, Handshake, Length, HeaderLen
<1>9. Len(msgs') = l - n /\ (n # l => l - n = 1)
  BY <1>2, <1>3, <1>4
<1>10. ReadTyped'
  <2>1. \A k \in 1 .. Len(msgs') : n # l /\ k = 1 /\ Len(msgs') = 1
    BY <1>4, <1>9
  <2>2. \A k \in 1 .. Len(msgs') : ~(k < Len(msgs')) /\ ~IsComplete(msgs'[k])
    BY <1>3, <2>1
  <2>3. pos' \in Nat /\ view' \in Nat /\ pos' + view' <= Sent' /\ view' = 0
    BY <1>1, <1>2 DEF ReadTyped, Sent
  <2>4. QED
    BY <1>3, <1>7, <2>2, <2>3 DEF ReadTyped, IsComplete, IsInitialized
<1>11. ASSUME ~shortSplit' PROVE InStep'
  <2>1. InStep /\ ~ShortSplit
    BY <1>1, <1>11 DEF Reads
  <2>2. \A k \in 1 .. l : /\ MsgOf(msgs[k], frames[p + k], p + k, Between)
                          /\ p + k \in 1 .. Len(frames)
    <3>1. Len(frames) \in Nat /\ p + l <= Len(frames)
      BY <1>2, <2>1 DEF InStep, Contiguous
    <3>2. \A k \in 1 .. l : p + k \in 1 .. Len(frames)
      BY <1>2, <3>1
    <3>3. QED
      BY <2>1, <3>2 DEF InStep
  <2>3. ASSUME NEW k \in 1 .. n PROVE Reported(msgs[k]) = frames[p + k]
    <3> DEFINE f == frames[p + k]
               m == msgs[k]
    <3>1. MsgOf(m, f, p + k, Between) /\ IsComplete(m) /\ p + k \in 1 .. Len(frames)
      BY <1>3, <1>4, <2>2
    <3>2. f.from \in Nat /\ f.to \in Nat /\ f = [from |-> f.from, to |-> f.to]
      BY <1>2, <3>1, FrameFacts
    <3>3. m.from \in Nat /\ m.size \in Nat /\ m.mLength \in Nat \cup {-1}
      BY <1>2, <1>4, MsgFacts
    <3> HIDE DEF f, m
    <3>4. m.from = f.from /\ m.size <= Length(f) /\ m.mLength = Length(f) /\ m.mLength <= m.size
      BY <3>1 DEF MsgOf, IsComplete, IsInitialized
    <3>5. m.from + m.size = f.to
      BY <3>2, <3>3, <3>4 DEF Length
    <3>6. Reported(m) = f
      BY <3>2, <3>4, <3>5 DEF Reported
    <3>7. QED
      BY <3>6 DEF f, m
  <2>4. \A k \in 1 .. Len(delivered') : delivered'[k] = frames'[k]
    <3>1. ASSUME NEW k \in 1 .. p + n PROVE delivered'[k] = frames[k]
      <4>1. CASE k <= p
        <5>1. k \in 1 .. p
          BY <1>2, <4>1
        <5>2. QED
          BY <1>7, <2>1, <5>1 DEF InStep
      <4>2. CASE ~(k <= p)
        <5>1. k - p \in 1 .. n /\ p + (k - p) = k
          BY <1>2, <1>4, <4>2
        <5>2. QED
          BY <1>7, <2>3, <5>1
      <4>3. QED
        BY <4>1, <4>2
    <3>2. QED
      BY <1>1, <1>7, <3>1
  <2>5. Len(delivered') + Len(msgs') = p + l
    BY <1>2, <1>4, <1>7, <1>9
  <2>6. /\ Len(delivered') + Len(msgs') <= Len(frames')
        /\ known' <=> Len(delivered') + Len(msgs') > 0
    BY <1>1, <2>1, <2>5 DEF InStep
  <2>7. CASE n = l
    <3>1. msgs' = <<>> /\ Len(msgs') = 0
      BY <1>2, <1>3, <1>9, <2>7
    <3>2. pos = IF p + n = 0 THEN 0 ELSE frames[p + n].to
      <4>1. CASE l = 0
        <5>1. msgs = <<>> /\ p + n = p
          BY <1>2, <2>7, <4>1
        <5>2. QED
          BY <2>1, <5>1 DEF InStep
      <4>2. CASE l # 0
        <5>1. msgs # <<>> /\ n \in 1 .. n /\ p + n # 0
          BY <1>2, <1>4, <2>7, <4>2
        <5>2. pos = msgs[n].from + msgs[n].size
          BY <2>1, <2>7, <5>1 DEF InStep
        <5>3. Reported(msgs[n]) = frames[p + n]
          BY <2>3, <5>1
        <5>4. QED
          BY <5>1, <5>2, <5>3 DEF Reported
      <4>3. QED
        BY <4>1, <4>2
    <3>3. pos' = IF Len(delivered') = 0 THEN 0 ELSE frames'[Len(delivered')].to
      BY <1>1, <1>7, <3>2
    <3>4. \A k \in 1 .. Len(msgs') : FALSE
      BY <3>1
    <3>5. QED
      BY <2>4, <2>6, <3>1, <3>3, <3>4 DEF InStep
  <2>8. CASE n # l
    <3> DEFINE f == frames[p + l]
               m == msgs[l]
    <3>1. msgs' # <<>> /\ Len(msgs') = 1 /\ msgs'[1] = m /\ l \in 1 .. l /\ msgs # <<>>
      BY <1>2, <1>3, <1>4, <1>9, <2>8
    <3>2. MsgOf(m, f, p + l, Between) /\ pos = m.from + m.size /\ p + l \in 1 .. Len(frames)
      BY <2>1, <2>2, <3>1 DEF InStep
    <3>3. f.from \in Nat /\ f.to \in Nat /\ m.from \in Nat /\ m.size \in Nat
      BY <1>2, <3>1, <3>2, FrameFacts, MsgFacts
    <3>4. m.mLength = -1 => Length(f) >= 2 * HeaderLen - 1
      <4>1. p + l >= 2 => ~(/\ f.to - f.from < 2 * HeaderLen - 1
                            /\ pos > f.from /\ pos < f.from + HeaderLen)
        <5>1. p + l >= 2 => p + l \in 2 .. Len(frames)
          BY <3>2
        <5>2. QED
          BY <2>1, <5>1 DEF ShortSplit
      <4>2. m.mLength = -1 => p + l >= 2 /\ m.size < HeaderLen /\ m.size >= 1 /\ m.from = f.from
        BY <3>2 DEF MsgOf
      <4> HIDE DEF f, m
      <4>3. m.mLength = -1 => pos > f.from /\ pos < f.from + HeaderLen
        BY <3>2, <3>3, <4>2 DEF HeaderLen
      <4>4. QED
        BY <3>3, <4>1, <4>2, <4>3 DEF Length, HeaderLen
    <3>5. MsgOf(m, f, p + l, Between')
      BY <3>2, <3>4 DEF MsgOf
    <3>6. \A k \in 1 .. Len(msgs') :
             MsgOf(msgs[k], frames[Len(delivered) + k], Len(delivered) + k, Between)'
      <4>1. \A k \in 1 .. Len(msgs') : k = 1 /\ Len(delivered') + k = p + l
        BY <2>5, <3>1
      <4> HIDE DEF m
      <4>2. QED
        BY <1>1, <3>1, <3>5, <4>1
    <3>7. pos' = msgs'[Len(msgs')].from + msgs'[Len(msgs')].size
      BY <1>1, <3>1, <3>2
    <3>8. QED
      BY <2>4, <2>6, <3>1, <3>6, <3>7 DEF InStep
  <2>9. QED
    BY <2>7, <2>8
<1>12. QED
  BY <1>8, <1>10, <1>11 DEF Reads

------------------------------------------------------------------------------
(* The specification. *)

(* The first connection begins with nothing read and nothing written.      *)
LEMMA InitFirst == Init => FirstConnection
<1> SUFFICES ASSUME Init PROVE FirstConnection
  OBVIOUS
<1> USE DEF Init
<1>1. HandshakeLen \in Nat \ {0} /\ WriteLen \in Nat \ {0} /\ Handshake \in Frame
  BY LengthsAssumption DEF Handshake, Frame
<1>2. frames \in Seq(Frame) /\ Len(frames) = 1 /\ frames[1] = Handshake
  BY <1>1
<1>3. Handshake.from = 0 /\ Handshake.to = HandshakeLen
  BY DEF Handshake
<1>4. Contiguous
  <2>1. \A k \in 1 .. Len(frames) : k = 1
    BY <1>2
  <2>2. \A i, j \in 1 .. Len(frames) : ~(i < j)
    BY <1>2
  <2>3. \A k \in 2 .. Len(frames) : FALSE
    BY <1>2
  <2>4. \A k \in 1 .. Len(frames) : frames[k].from < frames[k].to
    BY <1>1, <1>2, <1>3, <2>1
  <2>5. QED
    BY <1>2, <2>2, <2>3, <2>4 DEF Contiguous
<1>5. ReadTyped
  <2>1. Sent = HandshakeLen
    BY <1>2, <1>3 DEF Sent
  <2>2. pos \in Nat /\ view \in Nat /\ pos + view <= Sent
    BY <1>1, <2>1
  <2>3. msgs \in Seq(ReadMsg) /\ delivered \in Seq(Frame) /\ Len(msgs) = 0
    OBVIOUS
  <2>4. \A k \in 1 .. Len(msgs) : FALSE
    BY <2>3
  <2>5. QED
    BY <2>2, <2>3, <2>4 DEF ReadTyped
<1>6. InStep
  BY <1>2 DEF InStep
<1>7. WriteTyped
  BY DEF WriteTyped
<1>8. WholeMessages
  BY DEF WholeMessages
<1>9. QED
  BY <1>4, <1>5, <1>6, <1>7, <1>8 DEF FirstConnection

(* Every step keeps the invariant of the first connection.                 *)
LEMMA NextFirst == FirstConnection /\ [Next]_vars => FirstConnection'
<1> SUFFICES ASSUME FirstConnection, [Next]_vars PROVE FirstConnection'
  OBVIOUS
<1>1. ASSUME connects' = 1, connects' = connects PROVE Reads /\ Writes /\ connects = 1
  BY <1>1 DEF FirstConnection, Reads, Writes
<1>2. ASSUME connects' = connects, connects' = 1 => Reads' /\ Writes' PROVE FirstConnection'
  BY <1>2 DEF FirstConnection, Reads, Writes
<1>3. ASSUME UNCHANGED <<frames, readVars>>, Reads PROVE Reads'
  <2>1. /\ UNCHANGED <<frames, pos, view, parsing, known, msgs, delivered, shortSplit>>
    BY <1>3 DEF readVars
  <2>2. Contiguous'
    BY <1>3, <2>1 DEF Reads, Contiguous, Handshake, Length, HeaderLen
  <2>3. ReadTyped'
    BY <1>3, <2>1 DEF Reads, ReadTyped, Sent, IsComplete, IsInitialized
  <2>4. Between' = Between
    BY <2>1 DEF Between
  <2>5. ~shortSplit' => InStep'
    BY <1>3, <2>1, <2>4 DEF Reads, InStep
  <2>6. QED
    BY <2>2, <2>3, <2>5 DEF Reads
<1>4. ASSUME UNCHANGED <<asked, wbuf, wire, connects>>, Writes PROVE Writes'
  BY <1>4 DEF Writes, WriteTyped, WholeMessages
<1>5. CASE \E len \in PayloadLens : PeerSends(len)
  <2>1. connects' = connects /\ UNCHANGED <<asked, wbuf, wire, connects>>
    BY <1>5 DEF PeerSends, writeVars
  <2>2. QED
    BY <1>1, <1>2, <1>4, <1>5, <2>1, PeerSendsKeeps
<1>6. CASE Close
  <2>1. connects' = connects /\ UNCHANGED <<asked, wbuf, wire, connects>> /\ UNCHANGED <<frames, readVars>>
    BY <1>6 DEF Close, writeVars
  <2>2. QED
    BY <1>1, <1>2, <1>3, <1>4, <2>1
<1>7. CASE Connect
  <2>1. connects \in Nat \ {0} /\ connects' = connects + 1
    BY <1>7 DEF Connect, FirstConnection
  <2>2. connects' \in Nat \ {0} /\ connects' # 1
    BY <2>1
  <2>3. QED
    BY <2>2 DEF FirstConnection
<1>8. CASE \E n \in 1 .. MaxChunk : ReadChunk(n)
  <2>1. connects' = connects /\ UNCHANGED <<asked, wbuf, wire, connects>>
    BY <1>8 DEF ReadChunk, writeVars
  <2>2. QED
    BY <1>1, <1>2, <1>4, <1>8, <2>1, ReadChunkKeeps
<1>9. CASE ParseHandshake \/ ParseBody \/ ParseHeader
  <2>1. connects' = connects /\ UNCHANGED <<asked, wbuf, wire, connects>>
    BY <1>9 DEF ParseHandshake, ParseBody, ParseHeader, Taken, writeVars
  <2>2. QED
    BY <1>1, <1>2, <1>4, <1>9, <2>1, ParseHandshakeKeeps, ParseBodyKeeps, ParseHeaderKeeps
<1>10. CASE EndChunk
  <2>1. connects' = connects /\ UNCHANGED <<asked, wbuf, wire, connects>>
    BY <1>10 DEF EndChunk, writeVars
  <2>2. QED
    BY <1>1, <1>2, <1>4, <1>10, <2>1, EndChunkKeeps
<1>11. CASE WriteEvent
  <2>1. connects' = connects /\ UNCHANGED <<frames, readVars>>
    BY <1>11 DEF WriteEvent
  <2>2. QED
    BY <1>1, <1>2, <1>3, <1>11, <2>1, WriteEventKeeps
<1>12. CASE NothingToWrite
  <2>1. connects' = connects /\ UNCHANGED <<asked, wbuf, wire, connects>> /\ UNCHANGED <<frames, readVars>>
    BY <1>12 DEF NothingToWrite
  <2>2. QED
    BY <1>1, <1>2, <1>3, <1>4, <2>1
<1>13. CASE \E n \in 1 .. WriteLen : WriteData(n)
  <2>1. connects' = connects /\ UNCHANGED <<frames, readVars>>
    BY <1>13 DEF WriteData
  <2>2. QED
    BY <1>1, <1>2, <1>3, <1>13, <2>1, WriteDataKeeps
<1>14. CASE UNCHANGED vars
  <2>1. connects' = connects /\ UNCHANGED <<asked, wbuf, wire, connects>> /\ UNCHANGED <<frames, readVars>>
    BY <1>14 DEF vars, writeVars
  <2>2. QED
    BY <1>1, <1>2, <1>3, <1>4, <2>1
<1>15. QED
  BY <1>5, <1>6, <1>7, <1>8, <1>9, <1>10, <1>11, <1>12, <1>13, <1>14 DEF Next, Parse, EpollOut

(* Between chunks the messages handed on are those that have arrived. *)
LEMMA InStepIsExact ==
  ASSUME Contiguous, ReadTyped, InStep, ~parsing
  PROVE  Exact
<1> DEFINE p == Len(delivered)
<1>1. /\ delivered \in Seq(Frame) /\ msgs \in Seq(ReadMsg) /\ frames \in Seq(Frame)
      /\ p \in Nat /\ Len(msgs) \in Nat /\ Len(frames) \in Nat /\ p <= Len(frames) /\ pos \in Nat
      /\ p + Len(msgs) <= Len(frames)
  BY DEF ReadTyped, Contiguous, InStep
<1>2. \A k \in 1 .. Len(frames) : /\ frames[k].from \in Nat /\ frames[k].to \in Nat
                                  /\ frames[k].from < frames[k].to
  BY FrameFacts
<1>3. \A i, j \in 1 .. Len(frames) : i < j => frames[i].to <= frames[j].from
  BY DEF Contiguous
<1>4. \A k \in 1 .. Len(frames) : frames[k].to <= pos <=> k <= p
  <2>1. CASE msgs = <<>>
    <3>1. p = 0 => pos = 0
      BY <2>1 DEF InStep
    <3>2. p # 0 => pos = frames[p].to /\ p \in 1 .. Len(frames)
      BY <1>1, <2>1 DEF InStep
    <3>3. CASE p = 0
      BY <1>1, <1>2, <3>1, <3>3
    <3>4. ASSUME p # 0, NEW k \in 1 .. Len(frames)
          PROVE  frames[k].to <= pos <=> k <= p
      <4>1. k < p => frames[k].to <= frames[p].from /\ frames[p].from < frames[p].to
        BY <1>2, <1>3, <3>2, <3>4
      <4>2. p < k => frames[p].to <= frames[k].from /\ frames[k].from < frames[k].to
        BY <1>2, <1>3, <3>2, <3>4
      <4>3. frames[k].to \in Nat /\ frames[k].from \in Nat /\ frames[p].from \in Nat /\ frames[p].to \in Nat
        BY <1>2, <3>2, <3>4
      <4>4. k < p \/ k = p \/ p < k
        BY <1>1
      <4>5. QED
        BY <1>1, <3>2, <3>4, <4>1, <4>2, <4>3, <4>4
    <3>5. QED
      BY <3>3, <3>4
  <2>2. CASE msgs # <<>>
    <3> DEFINE l == Len(msgs)
               m == msgs[l]
               f == frames[p + l]
    <3>1. l \in 1 .. l /\ 1 \in 1 .. l
      BY <1>1, <2>2
    <3>2. ~IsComplete(m) /\ ~IsComplete(msgs[1])
      BY <3>1 DEF ReadTyped
    <3>3. l = 1
      <4>1. ~(1 < l)
        BY <3>1, <3>2 DEF ReadTyped
      <4>2. l \in Nat
        BY <1>1
      <4> HIDE DEF l
      <4>3. QED
        BY <3>1, <4>1, <4>2
    <3>4. MsgOf(m, f, p + l, Between) /\ pos = m.from + m.size
      BY <2>2, <3>1 DEF InStep
    <3>5. p + 1 \in 1 .. Len(frames)
      BY <1>1, <3>3
    <3>6. m.from \in Nat /\ m.size \in Nat /\ m.mLength \in Nat \cup {-1}
      BY <3>1, MsgFacts
    <3>7. m.from = f.from /\ m.size \in 1 .. Length(f) /\ m.mLength \in {-1, Length(f)}
          /\ (m.mLength = -1 => p + l >= 2 /\ m.size < HeaderLen)
      BY <3>4 DEF MsgOf
    <3>8. p + l >= 2 => Length(f) >= HeaderLen
      BY <1>1, <3>3 DEF Contiguous
    <3>9. f.from \in Nat /\ f.to \in Nat
      BY <1>2, <3>3, <3>5
    <3> HIDE DEF m, f
    <3>10. m.size < Length(f)
      BY <3>2, <3>6, <3>7, <3>8, <3>9 DEF IsComplete, IsInitialized, Length, HeaderLen
    <3>11. pos > f.from /\ pos < f.to
      BY <3>4, <3>6, <3>7, <3>9, <3>10 DEF Length
    <3>12. f = frames[p + 1]
      BY <3>3 DEF f
    <3>13. \A k \in 1 .. Len(frames) : k <= p => frames[k].to <= f.from
      BY <1>1, <1>3, <3>5, <3>12
    <3>14. \A k \in 1 .. Len(frames) : ~(k <= p) => f.to <= frames[k].to
      <4>1. \A k \in 1 .. Len(frames) : ~(k <= p) => k = p + 1 \/ p + 1 < k
        <5>1. p \in Nat
          BY <1>1
        <5> HIDE DEF p
        <5>2. QED
          BY <5>1
      <4>2. \A k \in 1 .. Len(frames) : p + 1 < k => f.to <= frames[k].from
        BY <1>3, <3>5, <3>12
      <4>3. QED
        BY <1>2, <3>9, <3>12, <4>1, <4>2
    <3>15. ASSUME NEW k \in 1 .. Len(frames) PROVE frames[k].to <= pos <=> k <= p
      BY <1>1, <1>2, <3>9, <3>11, <3>13, <3>14
    <3>16. QED
      BY <3>15
  <2>3. QED
    BY <2>1, <2>2
<1>5. DOMAIN delivered = 1 .. p /\ DOMAIN frames = 1 .. Len(frames)
  BY <1>1
<1>6. QED
  BY <1>1, <1>4, <1>5 DEF Exact, InStep

(* However the peer's bytes are cut into chunks, on the first connection   *)
(* BitTorrentManager is handed exactly the messages that have arrived, in  *)
(* order, until a header of a short message is split between two chunks:   *)
(* for all lengths of messages and chunks.                                 *)
THEOREM MessagesArriveWhole == Spec => []FramesIntact
<1>1. FirstConnection => FramesIntact
  BY InStepIsExact DEF FirstConnection, FramesIntact
<1>2. QED
  BY <1>1, InitFirst, NextFirst, PTL DEF Spec

(* On the first connection the peer is sent whole messages in the order    *)
(* they were asked for, however many bytes the socket takes at a time.     *)
THEOREM MessagesSentWhole == Spec => []WholeMessages
<1>1. FirstConnection => WholeMessages
  BY DEF FirstConnection, WholeMessages
<1>2. QED
  BY <1>1, InitFirst, NextFirst, PTL DEF Spec
===============================================================================
