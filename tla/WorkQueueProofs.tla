--------------------------- MODULE WorkQueueProofs ---------------------------
(***************************************************************************)
(* The ring is a bounded FIFO, for every size and number of events.        *)
(*                                                                         *)
(* Hypotheses: the writer of a queue with a mutex never has more than S    *)
(* events unhandled, and the calls on a queue without one do not overlap.  *)
(***************************************************************************)
EXTENDS WorkQueue, TLAPS

(* Indices stay within two rings, where the slot of an index is the index  *)
(* or the index less one ring.                                             *)
LEMMA SlotValue == \A x \in 0 .. 2 * S - 1 : Slot(x) = IF x < S THEN x ELSE x - S
<1>1. \A x \in 0 .. S - 1 : x % S = x
  BY SizeAssumption
<1>2. \A x \in S .. 2 * S - 1 : x % S = x - S
  BY SizeAssumption
<1>3. QED
  BY <1>1, <1>2, SizeAssumption DEF Slot

(* The slot of any index is an index of the array. *)
LEMMA SlotType == \A x \in Int : Slot(x) \in Slots
BY SizeAssumption DEF Slot, Slots

(* calibrate() moves the indices by one ring exactly when mTail has reached *)
(* the end of the array.                                                    *)
LEMMA QueueStartValue == mTail \in 0 .. S => QueueStart = IF mTail = S THEN S ELSE 0
<1>1. \A x \in 0 .. S - 1 : x \div S = 0
  BY SizeAssumption
<1>2. S \div S = 1
  BY SizeAssumption
<1>3. QED
  BY <1>1, <1>2, SizeAssumption DEF QueueStart

(* A new queue, empty and with both threads idle, satisfies the invariant. *)
LEMMA RingInit == Init => RingInv
BY SizeAssumption, SlotType, QueueStartValue
   DEF Init, RingInv, TypeOK, Backlog, Indices, Copies, Contents, Reference, InRing,
       Handled, Skip, Popping, Missing, Slots, NoEvent, Unread

(* Each step of push(), pop() and calibrate() keeps the invariant, when    *)
(* ++mHead and the calibration of mHead exclude each other, or all of      *)
(* push() and pop() do.                                                    *)
LEMMA RingNext ==
  ASSUME MaxBacklog[TRUE] <= S, ~Concurrent[FALSE], RingInv, [Next]_vars
  PROVE  RingInv'
<1> USE SizeAssumption, BoundAssumption
<1>0. mMutex \in BOOLEAN /\ TypeOK /\ Backlog /\ Indices /\ Copies /\ Contents /\ Reference
  BY DEF RingInv
<1>m. mMutex' = mMutex
  BY DEF Next, Producer, Consumer, Push, PushReadHead, PushReadTail, PushDrop,
         PushWrite, PushIncLocked, PushIncLoad, PushIncStore, PopTakeRef,
         CalibrateHeadLocked, CalibrateHeadLoad, CalibrateHeadStore,
         CalibrateTail, PopIncTail, EventHandled, vars, producerVars, consumerVars
<1>c. /\ Push => mMutex \/ cpc = "idle"
      /\ PopTakeRef => mMutex \/ ppc = "idle"
  BY <1>0 DEF Push, PopTakeRef
<1>1. CASE Push
  <2>1. PICK n \in Nat : n = MaxBacklog[mMutex] /\ (mMutex => n <= S)
    BY <1>0, UseAssumption
  <2>2. mMutex => accepted - Handled < S
    <3>1. accepted - Handled < n
      BY ONLY <1>1, <2>1 DEF Push
    <3>2. accepted \in Int /\ Handled \in Int
      BY <1>0 DEF TypeOK, Handled
    <3>3. n \in Nat /\ (mMutex => n <= S) /\ S \in Nat
      BY <2>1
    <3>4. QED
      BY ONLY <3>1, <3>2, <3>3
  <2>3. /\ ppc = "idle" /\ ppc' = "size"
        /\ UNCHANGED <<mHead, mTail, mEvents, pHead, pTail, cpc, cHead, res,
                       accepted, dropped, taken>>
    BY <1>1 DEF Push, consumerVars
  <2>4. QED
    BY <1>0, <1>m, <1>c, <1>1, <2>2, <2>3
       DEF RingInv, TypeOK, Backlog, Indices, Copies, Contents, Reference, InRing,
           Handled, Skip, Popping, Missing, QueueStart
<1> USE <1>m
<1>2. CASE PushReadHead
  BY <1>0, <1>2 DEF PushReadHead, RingInv, TypeOK, Backlog, Indices, Copies, Contents,
                    Reference, InRing, Handled, Skip, Popping, Missing, QueueStart,
                    consumerVars
<1>3. CASE PushReadTail
  BY <1>0, <1>3 DEF PushReadTail, RingInv, TypeOK, Backlog, Indices, Copies, Contents,
                    Reference, InRing, Handled, Skip, Popping, Missing, QueueStart,
                    consumerVars
<1>4. CASE PushDrop
  BY <1>0, <1>4 DEF PushDrop, SizeRead, RingInv, TypeOK, Backlog, Indices, Copies, Contents,
                    Reference, InRing, Handled, Skip, Popping, Missing, QueueStart,
                    consumerVars, Unread
<1>5. CASE PushWrite
  (* the slot written lies behind the waiting events and is not in use *)
  <2>1. /\ ppc = "size" /\ ppc' = "inc" /\ pHead' = -1 /\ pTail' = -1
        /\ mEvents' = [mEvents EXCEPT ![Slot(mHead)] = accepted]
        /\ UNCHANGED <<mHead, mTail, cpc, cHead, res, accepted, dropped, taken>>
    BY <1>5 DEF PushWrite, SizeRead, consumerVars, Unread
  <2>2. InRing' = InRing /\ Skip' = Skip /\ Handled' = Handled /\ Missing' = Missing
    BY <2>1 DEF InRing, Skip, Popping, Handled, Missing, QueueStart
  <2>r. accepted - Handled < S
    <3>1. CASE mMutex
      BY <1>0, <2>1, <3>1 DEF Backlog
    <3>2. CASE ~mMutex
      <4>1. cpc = "idle" /\ pHead = mHead /\ pTail = mTail /\ pHead - pTail # S
        BY <1>0, <1>5, <3>2, <2>1 DEF Copies, PushWrite, SizeRead, LooksFull
      <4>2. QED
        BY <1>0, <4>1 DEF Indices, InRing, Missing, Skip, Popping, Handled, Backlog, TypeOK
    <3>3. QED
      BY <3>1, <3>2
  <2>3. /\ InRing \in 0 .. S - 1
        /\ mTail + InRing \in 0 .. 2 * S - 1
        /\ cpc = "use" => InRing + 1 < S
    BY <1>0, <2>1, <2>r DEF InRing, Skip, Popping, Handled, Backlog, Indices, TypeOK
  <2>4. Slot(mHead) = Slot(mTail + InRing)
    BY <1>0, <2>3, SlotValue, QueueStartValue
       DEF Indices, Missing, TypeOK
  <2>5. \A j \in 0 .. InRing - 1 : Slot(mTail + j) # Slot(mHead)
    BY <1>0, <2>3, <2>4, SlotValue DEF Indices
  <2>6. cpc # "idle" => res # Slot(mHead)
    <3>1. CASE cpc = "use"
      BY <1>0, <2>3, <2>4, <3>1, SlotValue DEF Indices, Reference
    <3>2. CASE cpc \notin {"idle", "use"}
      <4>1. InRing > 0
        BY <1>0, <3>2 DEF InRing, Skip, Popping, TypeOK, Backlog, Indices
      <4>2. res = Slot(mTail + 0)
        BY <1>0, <3>2 DEF Reference, Indices
      <4>3. QED
        BY <2>3, <2>5, <4>1, <4>2
    <3>3. QED
      BY <3>1, <3>2
  <2>7. TypeOK'
    <3>1. mEvents' \in [Slots -> Int]
      <4>1. mEvents \in [Slots -> Int] /\ accepted \in Int
        BY <1>0 DEF TypeOK
      <4>2. mEvents' = [mEvents EXCEPT ![Slot(mHead)] = accepted]
        BY <2>1
      <4>3. QED
        BY ONLY <4>1, <4>2
    <3>2. QED
      BY <1>0, <2>1, <3>1 DEF TypeOK
  <2>8. Backlog' /\ Indices' /\ Copies'
    BY <1>0, <2>1, <2>2, <2>r DEF Backlog, Indices, Copies, Unread
  <2>9. Contents'
    <3>1. Slot(mTail + InRing) \in Slots
      BY <1>0, <2>3, SlotType DEF TypeOK
    <3>2. mEvents'[Slot(mTail + InRing)] = accepted
      BY <1>0, <2>1, <2>4, <3>1 DEF TypeOK
    <3>3. \A j \in 0 .. InRing - 1 : mEvents'[Slot(mTail + j)] = taken - Skip + j
      <4>1. \A j \in 0 .. InRing - 1 : Slot(mTail + j) \in Slots
        BY <1>0, <2>3, SlotType DEF TypeOK
      <4>2. QED
        BY <1>0, <2>1, <2>5, <4>1 DEF TypeOK, Contents
    <3>4. QED
      BY <2>1, <2>2, <3>2, <3>3 DEF Contents
  <2>10. Reference'
    BY <1>0, <2>1, <2>6 DEF Reference, TypeOK
  <2>11. QED
    BY <1>0, <2>7, <2>8, <2>9, <2>10 DEF RingInv
<1>6. CASE PushIncLocked \/ PushIncStore
  (* the slot just written joins the waiting events *)
  <2>1. /\ ppc \in {"inc", "store"} /\ ppc' = "idle" /\ mHead' = mHead + 1
        /\ accepted' = accepted + 1 /\ pHead' = Unread
        /\ UNCHANGED <<mTail, mEvents, pTail, cpc, cHead, res, dropped, taken>>
    BY <1>0, <1>6 DEF PushIncLocked, PushIncStore, Copies, consumerVars
  <2>c. Copies'
    BY <1>0, <1>6, <2>1 DEF Copies, PushIncLocked, PushIncStore
  <2>2. InRing' = InRing + 1 /\ Skip' = Skip /\ Handled' = Handled /\ Missing' = Missing
    BY <1>0, <2>1 DEF InRing, Skip, Popping, Handled, Missing, QueueStart, TypeOK
  <2>3. InRing \in Nat
    BY <1>0, <2>1 DEF InRing, Skip, Backlog, TypeOK
  <2>4. InRing = accepted - taken + Skip
    BY DEF InRing
  <2>5. TypeOK'
    BY <1>0, <2>1 DEF TypeOK, Unread
  <2>6. Backlog' /\ Indices'
    BY <1>0, <2>1, <2>2, QueueStartValue DEF Backlog, Indices, Handled, TypeOK, Missing
  <2>7. Contents'
    BY <1>0, <2>1, <2>2, <2>3, <2>4 DEF Contents, TypeOK, Skip
  <2>8. Reference'
    BY <1>0, <2>1 DEF Reference
  <2>9. QED
    BY <1>0, <2>5, <2>6, <2>7, <2>8, <2>c DEF RingInv
<1>a. CASE PushIncLoad
  BY <1>0, <1>a DEF PushIncLoad, RingInv, TypeOK, Backlog, Indices, Copies, Contents,
                    Reference, InRing, Handled, Skip, Popping, Missing, QueueStart,
                    consumerVars
<1>7. CASE PopTakeRef
  (* the event at mTail is the oldest one *)
  <2>1. /\ cpc = "idle" /\ cpc' = "calHead" /\ mHead # mTail
        /\ res' = Slot(mTail) /\ taken' = taken + 1
        /\ UNCHANGED <<mHead, mTail, mEvents, ppc, pHead, pTail, cHead, accepted, dropped>>
    BY <1>0, <1>7 DEF PopTakeRef, producerVars, TypeOK
  <2>2. /\ Skip = 0 /\ Skip' = 1 /\ Missing = 0 /\ Missing' = 0
        /\ Handled = taken /\ Handled' = taken
    BY <1>0, <2>1 DEF Skip, Popping, Missing, Handled, TypeOK
  <2>3. InRing' = InRing /\ InRing > 0 /\ InRing = accepted - taken
    BY <1>0, <2>1, <2>2 DEF InRing, TypeOK, Indices, Backlog
  <2>4. mEvents[Slot(mTail)] = taken
    BY <1>0, <2>2, <2>3 DEF Contents, TypeOK
  <2>5. TypeOK'
    BY <1>0, <2>1, SlotType DEF TypeOK
  <2>6. Backlog' /\ Indices'
    BY <1>0, <2>1, <2>2, <2>3 DEF Backlog, Indices, TypeOK
  <2>7. Contents'
    BY <1>0, <2>1, <2>2, <2>3 DEF Contents, TypeOK
  <2>8. Reference' /\ Copies'
    BY <1>0, <1>c, <1>7, <2>1, <2>4 DEF Reference, Copies, TypeOK
  <2>9. QED
    BY <1>0, <2>5, <2>6, <2>7, <2>8 DEF RingInv
<1>b. CASE CalibrateHeadLoad
  BY <1>0, <1>b DEF CalibrateHeadLoad, RingInv, TypeOK, Backlog, Indices, Copies, Contents,
                    Reference, InRing, Handled, Skip, Popping, Missing, QueueStart,
                    producerVars
<1>8. CASE CalibrateHeadLocked \/ CalibrateHeadStore
  (* what mHead loses is what Missing gains *)
  <2>1. /\ cpc \in {"calHead", "calStore"} /\ cpc' = "calTail" /\ mHead' = mHead - QueueStart
        /\ cHead' \in {cHead, Unread}
        /\ UNCHANGED <<mTail, mEvents, ppc, pHead, pTail, res, accepted, dropped, taken>>
    BY <1>0, <1>8 DEF CalibrateHeadLocked, CalibrateHeadStore, Copies, producerVars
  <2>c. Copies'
    BY <1>0, <1>8, <2>1 DEF Copies, CalibrateHeadLocked, CalibrateHeadStore
  <2>2. /\ QueueStart \in Int /\ QueueStart' = QueueStart
        /\ Missing = 0 /\ Missing' = QueueStart
        /\ Skip' = Skip /\ Handled' = Handled /\ InRing' = InRing
    BY <1>0, <2>1, QueueStartValue
       DEF Indices, Missing, QueueStart, Skip, Popping, Handled, InRing
  <2>3. TypeOK'
    BY <1>0, <2>1, <2>2 DEF TypeOK, Unread
  <2>4. Backlog' /\ Indices'
    BY <1>0, <2>1, <2>2 DEF Backlog, Indices, TypeOK
  <2>5. Contents' /\ Reference'
    BY <1>0, <2>1, <2>2 DEF Contents, Reference
  <2>6. QED
    BY <1>0, <2>3, <2>4, <2>5, <2>c DEF RingInv
<1>9. CASE CalibrateTail
  (* moving mTail back one ring changes no slot *)
  <2>1. /\ cpc = "calTail" /\ cpc' = "incTail" /\ mTail' = mTail - QueueStart
        /\ UNCHANGED <<mHead, mEvents, ppc, pHead, pTail, cHead, res, accepted, dropped, taken>>
    BY <1>9 DEF CalibrateTail, producerVars
  <2>2. /\ QueueStart = (IF mTail = S THEN S ELSE 0)
        /\ Missing = QueueStart /\ Missing' = 0
        /\ Skip = 1 /\ Skip' = 1 /\ Handled' = Handled /\ InRing' = InRing
    BY <1>0, <2>1, QueueStartValue
       DEF Indices, Missing, Skip, Popping, Handled, InRing
  <2>3. InRing \in 1 .. S /\ (ppc \in {"inc", "store"} => InRing < S)
    BY <1>0, <2>1, <2>2 DEF InRing, Backlog, Handled, TypeOK
  <2>4. mTail' \in 0 .. S - 1
    BY <1>0, <2>1, <2>2 DEF Indices
  <2>5. \A j \in 0 .. S - 1 : Slot(mTail' + j) = Slot(mTail + j)
    BY <1>0, <2>1, <2>2, <2>4, SlotValue DEF Indices
  <2>6. TypeOK'
    BY <1>0, <2>1, <2>2, <2>4 DEF TypeOK
  <2>7. Backlog' /\ Indices'
    BY <1>0, <2>1, <2>2, <2>4 DEF Backlog, Indices, TypeOK
  <2>8. Contents'
    BY <1>0, <2>1, <2>2, <2>3, <2>5 DEF Contents
  <2>9. Reference'
    <3>1. Slot(mTail') = Slot(mTail)
      BY <1>0, <2>1, <2>2, <2>4, SlotValue DEF Indices
    <3>2. QED
      BY <1>0, <2>1, <3>1 DEF Reference
  <2>10. Copies'
    BY <1>0, <2>1 DEF Copies
  <2>11. QED
    BY <1>0, <2>6, <2>7, <2>8, <2>9, <2>10 DEF RingInv
<1>10. CASE PopIncTail
  <2>1. /\ cpc = "incTail" /\ cpc' = "use" /\ mTail' = mTail + 1
        /\ UNCHANGED <<mHead, mEvents, ppc, pHead, pTail, cHead, res, accepted, dropped, taken>>
    BY <1>10 DEF PopIncTail, producerVars
  <2>2. /\ Missing = 0 /\ Missing' = 0
        /\ Skip = 1 /\ Skip' = 0 /\ Handled' = Handled /\ InRing' = InRing - 1
        /\ InRing \in Int
    BY <1>0, <2>1 DEF Missing, Skip, Popping, Handled, InRing, TypeOK
  <2>3. TypeOK'
    BY <1>0, <2>1 DEF TypeOK
  <2>4. Backlog' /\ Indices'
    BY <1>0, <2>1, <2>2 DEF Backlog, Indices, TypeOK
  <2>5. Contents'
    <3>1. \A j \in 0 .. InRing - 2 : mEvents[Slot(mTail + 1 + j)] = taken + j
      <4>1. SUFFICES ASSUME NEW j \in 0 .. InRing - 2
                     PROVE  mEvents[Slot(mTail + 1 + j)] = taken + j
        OBVIOUS
      <4>2. j + 1 \in 0 .. InRing - 1 /\ mTail + (j + 1) = mTail + 1 + j
        BY <1>0, <2>2 DEF Indices
      <4>3. QED
        BY <1>0, <2>2, <4>2 DEF Contents, TypeOK
    <3>2. mTail' + InRing' = mTail + InRing
      BY <1>0, <2>1, <2>2 DEF Indices
    <3>3. QED
      BY <1>0, <2>1, <2>2, <3>1, <3>2 DEF Contents, TypeOK
  <2>6. Reference'
    BY <1>0, <2>1 DEF Reference, Indices
  <2>7. Copies'
    BY <1>0, <2>1 DEF Copies
  <2>8. QED
    BY <1>0, <2>3, <2>4, <2>5, <2>6, <2>7 DEF RingInv
<1>11. CASE EventHandled
  BY <1>0, <1>11 DEF EventHandled, RingInv, TypeOK, Backlog, Indices, Copies, Contents,
                     Reference, InRing, Handled, Skip, Popping, Missing, producerVars
<1>12. CASE UNCHANGED vars
  BY <1>0, <1>12 DEF vars, producerVars, consumerVars, RingInv, TypeOK, Backlog,
                     Indices, Copies, Contents, Reference, InRing, Handled, Skip, Popping,
                     Missing, QueueStart
<1> QED
  BY <1>1, <1>2, <1>3, <1>4, <1>5, <1>6, <1>7, <1>8, <1>9, <1>10, <1>11,
     <1>12, <1>a, <1>b DEF Next, Producer, Consumer

(* The inductive invariant holds in every reachable state of the ring.     *)
THEOREM RingCorrect ==
  ASSUME MaxBacklog[TRUE] <= S, ~Concurrent[FALSE]
  PROVE  Spec => []RingInv
<1>1. RingInv /\ [Next]_vars => RingInv'
  BY RingNext
<1>2. QED
  BY <1>1, RingInit, PTL DEF Spec

(* The k-th event handed out is the k-th one accepted, and its slot is     *)
(* intact until the caller has handled it: push() never overwrites an      *)
(* event that is waiting or in use.                                        *)
THEOREM DeliversInOrder ==
  ASSUME MaxBacklog[TRUE] <= S, ~Concurrent[FALSE]
  PROVE  Spec => []InOrder
<1>1. RingInv => InOrder
  BY DEF RingInv, Reference, InOrder
<1>2. QED
  BY <1>1, RingCorrect, PTL

(* isEmpty() never reports an event that is not there and never hides one. *)
THEOREM ReaderSeesSize ==
  ASSUME MaxBacklog[TRUE] <= S, ~Concurrent[FALSE]
  PROVE  Spec => []SizeSeenByReader
<1>1. RingInv => SizeSeenByReader
  BY DEF RingInv, Indices, InRing, Skip, Popping, Missing, SizeSeenByReader, TypeOK
<1>2. QED
  BY <1>1, RingCorrect, PTL

------------------------------------------------------------------------------
(* The ring implements the FIFO. *)

(* The numbers of the events from the first to the last but one. *)
Numbers(first, last) == [i \in 1 .. last - first |-> first + i - 1]

(* Sequences with the same elements are the same. *)
LEMMA SameSeq == ASSUME NEW T, NEW s \in Seq(T), NEW t \in Seq(T), Len(s) = Len(t),
                        \A i \in 1 .. Len(s) : s[i] = t[i]
                 PROVE  s = t
OBVIOUS

(* Numbers(first, last) is a sequence; one more event is appended to it, and *)
(* taking the first event away leaves the rest.                              *)
LEMMA NumbersValue ==
  ASSUME NEW first \in Nat, NEW last \in Nat, first <= last
  PROVE  /\ Numbers(first, last) \in Seq(Nat) /\ Len(Numbers(first, last)) = last - first
         /\ Numbers(first, last + 1) = Append(Numbers(first, last), last)
         /\ first < last => /\ Numbers(first, last) # <<>>
                            /\ Head(Numbers(first, last)) = first
                            /\ Tail(Numbers(first, last)) = Numbers(first + 1, last)
<1>1. /\ Numbers(first, last) \in Seq(Nat) /\ Len(Numbers(first, last)) = last - first
      /\ Numbers(first, last + 1) \in Seq(Nat) /\ Len(Numbers(first, last + 1)) = last + 1 - first
  BY DEF Numbers
<1>2. Numbers(first, last + 1) = Append(Numbers(first, last), last)
  <2>1. \A i \in 1 .. last + 1 - first :
           Numbers(first, last + 1)[i] = Append(Numbers(first, last), last)[i]
    BY DEF Numbers
  <2>2. QED
    BY <1>1, <2>1
<1>3. ASSUME first < last
      PROVE  /\ Numbers(first, last) # <<>> /\ Head(Numbers(first, last)) = first
             /\ Tail(Numbers(first, last)) = Numbers(first + 1, last)
  <2>1. Numbers(first, last) # <<>> /\ Head(Numbers(first, last)) = first
    BY <1>1, <1>3 DEF Numbers
  <2>2. /\ Numbers(first + 1, last) \in Seq(Nat)
        /\ Len(Numbers(first + 1, last)) = last - first - 1
    BY <1>3 DEF Numbers
  <2>3. Tail(Numbers(first, last)) \in Seq(Nat) /\ Len(Tail(Numbers(first, last))) = last - first - 1
    BY <1>1, <1>3, <2>1
  <2>4. \A i \in 1 .. last - first - 1 : Tail(Numbers(first, last))[i] = Numbers(first + 1, last)[i]
    BY <1>1, <1>3, <2>1 DEF Numbers
  <2>5. QED
    BY <2>1, <2>2, <2>3, <2>4, SameSeq
<1>4. QED
  BY <1>1, <1>2, <1>3

(* Under the invariant the abstract queue holds the events that were        *)
(* accepted and not taken, in order, and the reader handles the last one    *)
(* that was taken.                                                          *)
LEMMA AbstractValue ==
  RingInv => /\ Pending = Numbers(taken, accepted)
             /\ Current = IF cpc = "idle" THEN NoEvent ELSE taken - 1
<1> SUFFICES ASSUME RingInv
             PROVE  /\ Pending = Numbers(taken, accepted)
                    /\ Current = IF cpc = "idle" THEN NoEvent ELSE taken - 1
  OBVIOUS
<1>0. TypeOK /\ Backlog /\ Indices /\ Contents /\ Reference
  BY DEF RingInv
<1>1. Skip \in 0 .. 1 /\ InRing = accepted - taken + Skip
  BY DEF Skip, InRing
<1>2. PendingLen = accepted - taken
  <2>1. mHead - mTail + Missing = InRing
    BY <1>0 DEF Indices
  <2>2. Missing \in Int
    BY <1>0, QueueStartValue, SizeAssumption DEF Missing, Indices
  <2>3. QED
    BY <1>0, <1>1, <2>1, <2>2 DEF PendingLen, TypeOK
<1>3. ASSUME NEW i \in 1 .. accepted - taken
      PROVE  mEvents[Slot(mTail + Skip + i - 1)] = taken + i - 1
  <2> DEFINE j == Skip + i - 1
  <2>1. j \in 0 .. InRing - 1 /\ mTail + j = mTail + Skip + i - 1 /\ taken - Skip + j = taken + i - 1
    BY <1>0, <1>1 DEF TypeOK
  <2>2. mEvents[Slot(mTail + j)] = taken - Skip + j
    BY <1>0, <2>1 DEF Contents
  <2>3. QED
    BY <2>1, <2>2
<1>4. Pending = Numbers(taken, accepted)
  BY <1>2, <1>3 DEF Pending, Numbers
<1>5. QED
  BY <1>0, <1>4 DEF Current, Reference

(* Each step of the two threads is a step of the FIFO or leaves it alone:   *)
(* an event is put when mHead is incremented, taken when pop() forms its    *)
(* reference, and done when the caller has handled it.                      *)
LEMMA StepSimulation ==
  ASSUME RingInv, RingInv', [Next]_vars
  PROVE  [Fifo!Next]_(Fifo!vars)
<1>0. TypeOK /\ Backlog /\ Indices /\ Copies
  BY DEF RingInv
<1>1. /\ Pending = Numbers(taken, accepted)
      /\ Current = IF cpc = "idle" THEN NoEvent ELSE taken - 1
  BY AbstractValue
<1>2. /\ Pending' = Numbers(taken', accepted')
      /\ Current' = IF cpc' = "idle" THEN NoEvent ELSE taken' - 1
  <2>1. (RingInv => /\ Pending = Numbers(taken, accepted)
                    /\ Current = IF cpc = "idle" THEN NoEvent ELSE taken - 1)'
    BY AbstractValue, PTL
  <2>2. QED
    BY <2>1 DEF Numbers
<1>3. accepted \in Nat /\ taken \in Nat /\ taken <= accepted /\ (cpc # "idle" => taken > 0)
  BY DEF RingInv, TypeOK, Backlog, Reference
<1>4. CASE UNCHANGED <<taken, accepted>> /\ (cpc = "idle") = (cpc' = "idle")
  <2>1. Pending' = Pending /\ Current' = Current
    BY <1>1, <1>2, <1>4
  <2>2. QED
    BY <1>4, <2>1 DEF Fifo!vars
<1>5. CASE PushIncLocked \/ PushIncStore
  <2>1. /\ accepted' = accepted + 1 /\ UNCHANGED <<taken, cpc>> /\ ppc \in {"inc", "store"}
    BY <1>5 DEF PushIncLocked, PushIncStore, consumerVars
  <2>2. accepted - taken < S
    BY <1>0, <1>3, <2>1, SizeAssumption DEF Backlog, Handled
  <2>3. Len(Pending) < S /\ Pending' = Append(Pending, accepted)
    BY <1>1, <1>2, <1>3, <2>1, <2>2, NumbersValue
  <2>4. Current' = Current
    BY <1>1, <1>2, <2>1
  <2>5. Fifo!Put
    BY <2>1, <2>3, <2>4 DEF Fifo!Put
  <2>6. QED
    BY <2>5 DEF Fifo!Next
<1>6. CASE PopTakeRef
  <2>1. cpc = "idle" /\ cpc' # "idle" /\ taken' = taken + 1 /\ UNCHANGED accepted
    BY <1>6 DEF PopTakeRef
  <2>2. taken < accepted
    BY <1>0, <1>3, <1>6, <2>1 DEF PopTakeRef, Indices, InRing, Missing, Skip, Popping, TypeOK
  <2>3. Pending # <<>> /\ Head(Pending) = taken /\ Tail(Pending) = Pending'
    BY <1>1, <1>2, <1>3, <2>1, <2>2, NumbersValue
  <2>4. Current = NoEvent /\ Current' = taken
    BY <1>1, <1>2, <1>3, <2>1
  <2>5. Fifo!Take
    BY <2>1, <2>3, <2>4 DEF Fifo!Take
  <2>6. QED
    BY <2>5 DEF Fifo!Next
<1>7. CASE EventHandled
  <2>1. cpc # "idle" /\ cpc' = "idle" /\ UNCHANGED <<taken, accepted>>
    BY <1>7 DEF EventHandled
  <2>2. Pending' = Pending
    BY <1>1, <1>2, <2>1
  <2>3. Current # NoEvent /\ Current' = NoEvent
    BY <1>1, <1>2, <1>3, <2>1 DEF NoEvent
  <2>4. Fifo!Done
    BY <2>1, <2>2, <2>3 DEF Fifo!Done
  <2>5. QED
    BY <2>4 DEF Fifo!Next
<1>8. CASE Push \/ PushReadHead \/ PushReadTail \/ PushDrop \/ PushWrite \/ PushIncLoad
  BY <1>4, <1>8 DEF Push, PushReadHead, PushReadTail, PushDrop, PushWrite, PushIncLoad, consumerVars
<1>9. CASE CalibrateHeadLocked \/ CalibrateHeadLoad \/ CalibrateHeadStore \/ CalibrateTail \/ PopIncTail
  BY <1>4, <1>9 DEF CalibrateHeadLocked, CalibrateHeadLoad, CalibrateHeadStore, CalibrateTail, PopIncTail
<1>10. CASE UNCHANGED vars
  BY <1>4, <1>10 DEF vars, consumerVars
<1>11. QED
  BY <1>5, <1>6, <1>7, <1>8, <1>9, <1>10 DEF Next, Producer, Consumer

(* The ring implements the bounded FIFO: events come out in the order they  *)
(* went in, each of them once and intact, and never more than S wait.       *)
THEOREM RingImplementsFifo ==
  ASSUME MaxBacklog[TRUE] <= S, ~Concurrent[FALSE]
  PROVE  Spec => ImplementsFifo
<1>1. Init => Fifo!Init
  <2>1. Init => Pending = Numbers(taken, accepted) /\ Current = NoEvent /\ accepted = 0 /\ taken = 0
    BY RingInit, AbstractValue DEF Init
  <2>2. Numbers(0, 0) = <<>>
    BY DEF Numbers
  <2>3. QED
    BY <2>1, <2>2 DEF Fifo!Init
<1>2. RingInv /\ RingInv' /\ [Next]_vars => [Fifo!Next]_(Fifo!vars)
  BY StepSimulation
<1>3. Spec => []RingInv
  BY RingCorrect
<1>4. QED
  BY <1>1, <1>2, <1>3, PTL DEF Spec, ImplementsFifo, Fifo!Spec
==============================================================================
