------------------------------ MODULE WorkQueue ------------------------------
(***************************************************************************)
(* One direction of a FullDuplexQueue: the ring WorkQueueImpl with one     *)
(* pushing thread and one popping thread.                                  *)
(*                                                                         *)
(* mHead and mTail only grow, except that pop() "calibrates" them: once    *)
(* mTail has reached the end of the ring both are moved back by one ring,  *)
(* mHead first (under the notifier's mutex when there is one), mTail       *)
(* second and always without it.  The pushing thread reads both, unlocked, *)
(* in size().  Every read and write of a shared field that the other       *)
(* thread can come between is a step of its own here.                      *)
(*                                                                         *)
(* pop() hands out a reference into the ring, which its callers            *)
(* (`auto &&event = queue.pop()`) use until the event is handled, so       *)
(* handling the event is the last step of the popping thread's cycle.      *)
(*                                                                         *)
(* Events are numbered in the order in which they are accepted.            *)
(***************************************************************************)
EXTENDS Integers, Sequences

CONSTANTS S,           \* QUEUE_SIZE
          Concurrent,  \* whether push() and pop() may overlap in time, and
          MaxBacklog,  \* below how many unhandled events the writer pushes:
                       \* for queues with a mutex and for queues without
          MaxEvents    \* bound on the number of calls of push()

ASSUME SizeAssumption == S \in Nat \ {0}
ASSUME UseAssumption == /\ Concurrent \in [BOOLEAN -> BOOLEAN]
                        /\ MaxBacklog \in [BOOLEAN -> Nat]
ASSUME BoundAssumption == MaxEvents \in Nat

VARIABLES mMutex,   \* whether attachNotifier() gave this queue a mutex
          mHead, mTail, mEvents,
          ppc,      \* the pushing thread's next step
          pHead,    \* its copy of mHead: in size(), and in an unlocked ++mHead
          pTail,    \* its copy of mTail in size()
          cpc,      \* the popping thread's next step
          cHead,    \* its copy of mHead in an unlocked calibration
          res,      \* the slot that pop()'s reference refers to
          accepted, \* how many events were accepted (a history variable)
          dropped,  \* how many were dropped (a history variable)
          taken     \* how many pops were started (a history variable)

(* What only the pushing and only the popping thread changes; mMutex was   *)
(* set before the threads were started.                                    *)
producerVars == <<mMutex, ppc, pHead, pTail>>
consumerVars == <<mMutex, cpc, cHead, res>>
vars == <<mHead, mTail, mEvents, producerVars, consumerVars, accepted, dropped, taken>>

Unread == -1      \* a local copy that has not been read yet
NoEvent == -1     \* a default-constructed slot

Slots == 0 .. S - 1

Slot(i) == i % S

(* The events the popping thread is done with. *)
Handled == IF cpc = "idle" THEN taken ELSE taken - 1

Init == /\ mMutex \in BOOLEAN
        /\ mHead = 0 /\ mTail = 0
        /\ mEvents = [i \in Slots |-> NoEvent]
        /\ ppc = "idle" /\ pHead = Unread /\ pTail = Unread
        /\ cpc = "idle" /\ cHead = Unread /\ res = 0
        /\ accepted = 0 /\ dropped = 0 /\ taken = 0

------------------------------------------------------------------------------
(* The pushing thread: push(), lines 49-69. *)

(* push() is called. *)
Push == /\ ppc = "idle"
        /\ accepted + dropped < MaxEvents
        /\ accepted - Handled < MaxBacklog[mMutex]
        /\ Concurrent[mMutex] \/ cpc = "idle"
        /\ ppc' = "size"
        /\ UNCHANGED <<mHead, mTail, mEvents, pHead, pTail, consumerVars,
                       accepted, dropped, taken>>

(* size() reads mHead and mTail, in the order the compiler likes. *)
PushReadHead == /\ ppc = "size" /\ pHead = Unread
                /\ pHead' = mHead
                /\ UNCHANGED <<mHead, mTail, mEvents, ppc, pTail, consumerVars,
                               accepted, dropped, taken>>

PushReadTail == /\ ppc = "size" /\ pTail = Unread
                /\ pTail' = mTail
                /\ UNCHANGED <<mHead, mTail, mEvents, ppc, pHead, consumerVars,
                               accepted, dropped, taken>>

SizeRead == ppc = "size" /\ pHead # Unread /\ pTail # Unread

(* What push() takes for a full queue. *)
NeverFull == FALSE                      \* mutant: no check at all
LooksFull == pHead - pTail = S

PushDrop == /\ SizeRead /\ LooksFull
            /\ dropped' = dropped + 1
            /\ ppc' = "idle" /\ pHead' = Unread /\ pTail' = Unread
            /\ UNCHANGED <<mHead, mTail, mEvents, consumerVars, accepted, taken>>

PushWrite == /\ SizeRead /\ ~LooksFull
             /\ mEvents' = [mEvents EXCEPT ![Slot(mHead)] = accepted]
             /\ ppc' = "inc" /\ pHead' = Unread /\ pTail' = Unread
             /\ UNCHANGED <<mHead, mTail, consumerVars, accepted, dropped, taken>>

(* ++mHead under the mutex. *)
PushIncLocked == /\ ppc = "inc" /\ mMutex
                 /\ mHead' = mHead + 1
                 /\ accepted' = accepted + 1
                 /\ ppc' = "idle"
                 /\ UNCHANGED <<mTail, mEvents, pHead, pTail, consumerVars,
                                dropped, taken>>

(* ++mHead without one is a load and a store. *)
PushIncLoad == /\ ppc = "inc" /\ ~mMutex
               /\ pHead' = mHead
               /\ ppc' = "store"
               /\ UNCHANGED <<mHead, mTail, mEvents, pTail, consumerVars,
                              accepted, dropped, taken>>

PushIncStore == /\ ppc = "store"
                /\ mHead' = pHead + 1
                /\ accepted' = accepted + 1
                /\ ppc' = "idle" /\ pHead' = Unread
                /\ UNCHANGED <<mTail, mEvents, pTail, consumerVars, dropped, taken>>

------------------------------------------------------------------------------
(* The popping thread: isEmpty() (71-74), then pop() (76-83), which calls  *)
(* calibrate() (24-41), then the caller's handling of the event.           *)

(* Whole rings that mTail is past the start of the array. *)
QueueStart == S * (mTail \div S)

(* mutant: mTail is incremented before the reference is formed *)
PopTakeNextRef == /\ cpc = "idle" /\ mHead - mTail # 0
                  /\ Concurrent[mMutex] \/ ppc = "idle"
                  /\ res' = Slot(mTail + 1)
                  /\ taken' = taken + 1
                  /\ cpc' = "calHead"
                  /\ UNCHANGED <<mHead, mTail, mEvents, producerVars, cHead,
                                 accepted, dropped>>

(* mutant: isEmpty() is off by one *)
PopLeavesLast == /\ cpc = "idle" /\ mHead - mTail > 1
                 /\ Concurrent[mMutex] \/ ppc = "idle"
                 /\ res' = Slot(mTail)
                 /\ taken' = taken + 1
                 /\ cpc' = "calHead"
                 /\ UNCHANGED <<mHead, mTail, mEvents, producerVars, cHead,
                                accepted, dropped>>

(* canPop() said yes; pop() forms its reference. *)
PopTakeRef == /\ cpc = "idle" /\ mHead - mTail # 0
              /\ Concurrent[mMutex] \/ ppc = "idle"
              /\ res' = Slot(mTail)
              /\ taken' = taken + 1
              /\ cpc' = "calHead"
              /\ UNCHANGED <<mHead, mTail, mEvents, producerVars, cHead,
                             accepted, dropped>>

CalibrateHeadLocked == /\ cpc = "calHead" /\ mMutex
                       /\ mHead' = mHead - QueueStart
                       /\ cpc' = "calTail"
                       /\ UNCHANGED <<mTail, mEvents, producerVars, cHead, res,
                                      accepted, dropped, taken>>

CalibrateHeadLoad == /\ cpc = "calHead" /\ ~mMutex
                     /\ cHead' = mHead
                     /\ cpc' = "calStore"
                     /\ UNCHANGED <<mHead, mTail, mEvents, producerVars, res,
                                    accepted, dropped, taken>>

CalibrateHeadStore == /\ cpc = "calStore"
                      /\ mHead' = cHead - QueueStart
                      /\ cHead' = Unread
                      /\ cpc' = "calTail"
                      /\ UNCHANGED <<mTail, mEvents, producerVars, res,
                                     accepted, dropped, taken>>

(* mutant: calibrate() forgets mTail *)
CalibrateNoTail == /\ cpc = "calTail"
                   /\ cpc' = "incTail"
                   /\ UNCHANGED <<mHead, mTail, mEvents, producerVars, cHead, res,
                                  accepted, dropped, taken>>

CalibrateTail == /\ cpc = "calTail"
                 /\ mTail' = mTail - QueueStart
                 /\ cpc' = "incTail"
                 /\ UNCHANGED <<mHead, mEvents, producerVars, cHead, res,
                                accepted, dropped, taken>>

PopIncTail == /\ cpc = "incTail"
              /\ mTail' = mTail + 1
              /\ cpc' = "use"
              /\ UNCHANGED <<mHead, mEvents, producerVars, cHead, res,
                             accepted, dropped, taken>>

(* The caller has handled the event behind the reference. *)
EventHandled == /\ cpc = "use"
                /\ cpc' = "idle"
                /\ UNCHANGED <<mHead, mTail, mEvents, producerVars, cHead, res,
                               accepted, dropped, taken>>

------------------------------------------------------------------------------
Producer == \/ Push \/ PushReadHead \/ PushReadTail \/ PushDrop \/ PushWrite
            \/ PushIncLocked \/ PushIncLoad \/ PushIncStore

Consumer == \/ PopTakeRef
            \/ CalibrateHeadLocked \/ CalibrateHeadLoad \/ CalibrateHeadStore
            \/ CalibrateTail \/ PopIncTail \/ EventHandled

Next == Producer \/ Consumer

Spec == Init /\ [][Next]_vars

(* Both threads run: a push() or pop() that has started is carried on, and *)
(* a reader with something to read reads it.  Nobody is obliged to push.   *)
FairSpec == Spec /\ WF_vars(Producer /\ ppc # "idle") /\ WF_vars(Consumer)

------------------------------------------------------------------------------
(* Properties. *)

(* Types; pop()'s reference is always into the array. *)
TypeOK == /\ mHead \in Int /\ mTail \in Int
          /\ mEvents \in [Slots -> Int]
          /\ ppc \in {"idle", "size", "inc", "store"}
          /\ pHead \in Int /\ pTail \in Int
          /\ cpc \in {"idle", "calHead", "calStore", "calTail", "incTail", "use"}
          /\ cHead \in Int /\ res \in Slots
          /\ accepted \in Nat /\ dropped \in Nat /\ taken \in Nat

(* The k-th event that pop() hands out is the k-th one that push()         *)
(* accepted, and the slot behind the reference still holds it when the     *)
(* caller uses it, however the two threads interleave.                     *)
InOrder == cpc # "idle" => mEvents[res] = taken - 1

(* The popping thread never starts a pop of an event that was not pushed:  *)
(* what isEmpty() reads is the number of accepted events not yet popped.   *)
SizeSeenByReader == cpc \in {"idle", "use"} => mHead - mTail = accepted - taken

(* Every accepted event is eventually handled. *)
Delivered == \A n \in 1 .. MaxEvents : (accepted >= n) ~> (Handled >= n)

------------------------------------------------------------------------------
(* The abstract queue that the ring implements. Between the start of a pop *)
(* and ++mTail the popped slot is still counted, and while mHead has been  *)
(* calibrated and mTail has not, one ring is missing from their difference.*)
Popping == cpc \in {"calHead", "calStore", "calTail", "incTail"}
Skip == IF Popping THEN 1 ELSE 0
Missing == IF cpc = "calTail" THEN QueueStart ELSE 0
PendingLen == mHead - mTail + Missing - Skip

Pending == [i \in 1 .. PendingLen |-> mEvents[Slot(mTail + Skip + i - 1)]]
Current == IF cpc = "idle" THEN NoEvent ELSE mEvents[res]

Fifo == INSTANCE BoundedFifo WITH Capacity <- S, None <- NoEvent,
                                  pending <- Pending, current <- Current,
                                  nextEvent <- accepted

(* Every step of the two threads is a step of the abstract FIFO, or none.  *)
ImplementsFifo == Fifo!Spec

------------------------------------------------------------------------------
(* Why the ring works, when its calls do not overlap or it has a mutex and *)
(* at most S events are unhandled. InOrder alone is not inductive: it      *)
(* needs to know where every waiting event lies, and that the slot being   *)
(* written is none of them.                                                *)

InRing == accepted - taken + Skip     \* slots from mTail up to mHead

Backlog == /\ taken <= accepted
           /\ accepted - Handled <= S
           /\ ppc \in {"inc", "store"} => accepted - Handled < S
           /\ ppc = "size" /\ mMutex => accepted - Handled < S

Indices == /\ mTail \in 0 .. S
           /\ cpc = "incTail" => mTail < S
           /\ cpc = "use" => mTail > 0
           /\ mHead - mTail + Missing = InRing

Copies == /\ ppc \in {"idle", "inc"} => pHead = Unread
          /\ ppc # "size" => pTail = Unread
          /\ ppc = "store" => ~mMutex /\ pHead = mHead
          /\ cpc = "calStore" => ~mMutex /\ cHead = mHead
          /\ ~mMutex => /\ ppc = "idle" \/ cpc = "idle"
                        /\ ppc = "size" => /\ pHead \in {Unread, mHead}
                                           /\ pTail \in {Unread, mTail}

Contents == /\ \A j \in 0 .. InRing - 1 :
                  mEvents[Slot(mTail + j)] = taken - Skip + j
            /\ ppc \in {"inc", "store"} => mEvents[Slot(mTail + InRing)] = accepted

Reference == cpc # "idle" => /\ taken > 0
                             /\ res = Slot(IF cpc = "use" THEN mTail - 1 ELSE mTail)
                             /\ mEvents[res] = taken - 1

(* The waiting events lie in order from mTail to mHead, the slot being     *)
(* written lies behind them, the slot being used before them, and between  *)
(* them there is room; copies of an index are only kept where nobody else  *)
(* changes it: the inductive invariant of the ring.                        *)
RingInv == mMutex \in BOOLEAN /\ TypeOK /\ Backlog /\ Indices /\ Copies /\ Contents /\ Reference
==============================================================================
