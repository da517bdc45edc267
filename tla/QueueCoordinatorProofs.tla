----------------------- MODULE QueueCoordinatorProofs -----------------------
(***************************************************************************)
(* No service sleeps on an event, however many queues push at it.          *)
(*                                                                         *)
(* NoLostWakeup is not inductive: that nothing is there when cv.wait() is  *)
(* called rests on the mutex being held from the test of the predicates to *)
(* the wait, and on forceNotified never being set when a wait begins.      *)
(***************************************************************************)
EXTENDS QueueCoordinator, TLAPS

(* A service's queues are among all queues. *)
LEMMA QueuesOfType == \A s \in DOMAIN Polls : QueuesOf(s) \subseteq Queues
BY DEF Queues

(* The queue being polled is one of the service's. *)
LEMMA CurrentType == ASSUME TypeOK, Polling PROVE Current \in QueuesOf(svc)
BY DEF TypeOK, Polling, Current, QueuesOf

(* Popping leaves a queue a queue. *)
LEMMA PopTail ==
  ASSUME NEW q \in Queues, queue \in [Queues -> Seq({"event", "stop"})], queue[q] # <<>>
  PROVE  [queue EXCEPT ![q] = Tail(@)] \in [Queues -> Seq({"event", "stop"})]
<1>1. Tail(queue[q]) \in Seq({"event", "stop"})
  OBVIOUS
<1>2. QED
  BY <1>1

(* A service about to wait for the first time satisfies the invariant. *)
LEMMA WakeupInit == Init => WakeupInv
<1> SUFFICES ASSUME Init PROVE WakeupInv
  OBVIOUS
<1>1. queue \in [Queues -> Seq({"event", "stop"})]
  BY DEF Init
<1>2. TypeOK
  BY <1>1, ServicesAssumption DEF Init, TypeOK
<1>3. QED
  BY <1>2 DEF Init, WakeupInv, MutexHeld, ForcedOnlyOnTheWayOut, NoLostWakeup

(* Each step of the service and of the threads that push into its queues   *)
(* keeps the invariant.                                                    *)
LEMMA WakeupNext == ASSUME WakeupInv, [Next]_vars PROVE WakeupInv'
<1> USE DEF WakeupInv, TypeOK, MutexHeld, ForcedOnlyOnTheWayOut, NoLostWakeup, Any
<1>1. ASSUME NEW q \in QueuesOf(svc), NEW e \in {"event", "stop"}, PushLocked(q, e)
      PROVE  WakeupInv'
  <2>1. q \in Queues
    BY QueuesOfType
  <2>2. queue' \in [Queues -> Seq({"event", "stop"})]
    <3>1. Append(queue[q], e) \in Seq({"event", "stop"})
      BY <2>1
    <3>2. QED
      BY <1>1, <3>1 DEF PushLocked
  <2>3. TypeOK'
    BY <1>1, <2>2 DEF PushLocked
  <2>4. ppc'[q] = "notify"
    BY <1>1, <2>1 DEF PushLocked
  <2>5. NoLostWakeup'
    BY <1>1, <2>4 DEF PushLocked
  <2>6. QED
    BY <1>1, <2>3, <2>5 DEF PushLocked
<1>2. ASSUME NEW q \in QueuesOf(svc), Notify(q) PROVE WakeupInv'
  BY <1>2, QueuesOfType DEF Notify
<1>3. CASE Lock
  BY <1>3 DEF Lock, MayTime
<1>4. CASE CheckDone
  BY <1>4 DEF CheckDone, Leave
<1>5. CASE CheckWait
  BY <1>5 DEF CheckWait, KeepWaiting
<1>6. CASE Sleep
  BY <1>6 DEF Sleep
<1>7. CASE SpuriousWakeup
  BY <1>7 DEF SpuriousWakeup
<1>8. CASE Relock
  BY <1>8 DEF Relock
<1>9. CASE Timeout
  BY <1>9 DEF Timeout, Leave
<1>10. CASE SkipQueue
  BY <1>10 DEF SkipQueue, Polling, NextQueue
<1>11. CASE PopEvent
  <2>1. Current \in Queues
    BY <1>11, CurrentType, QueuesOfType DEF PopEvent
  <2>2. queue' \in [Queues -> Seq({"event", "stop"})]
    BY <1>11, <2>1, PopTail DEF PopEvent
  <2>3. polled' \in Nat
    BY <1>11 DEF PopEvent, NextQueue
  <2>4. QED
    BY <1>11, <2>2, <2>3 DEF PopEvent, Polling
<1>12. CASE PopStop
  <2>1. Current \in Queues
    BY <1>12, CurrentType, QueuesOfType DEF PopStop
  <2>2. queue' \in [Queues -> Seq({"event", "stop"})]
    BY <1>12, <2>1, PopTail DEF PopStop
  <2>3. polled' \in Nat
    BY <1>12 DEF PopStop, NextQueue
  <2>4. QED
    BY <1>12, <2>2, <2>3 DEF PopStop, Polling
<1>13. CASE RoundDone
  BY <1>13 DEF RoundDone
<1>14. CASE Exit
  BY <1>14 DEF Exit
<1>15. CASE UNCHANGED vars
  BY <1>15 DEF vars
<1> QED
  BY <1>1, <1>2, <1>3, <1>4, <1>5, <1>6, <1>7, <1>8, <1>9, <1>10, <1>11, <1>12,
     <1>13, <1>14, <1>15 DEF Next, Service, Publisher

(* Every reachable state satisfies the inductive invariant. *)
THEOREM WakeupCorrect == Spec => []WakeupInv
<1>1. WakeupInv /\ [Next]_vars => WakeupInv'
  BY WakeupNext
<1>2. QED
  BY <1>1, WakeupInit, PTL DEF Spec

(* While a service sleeps, every event in its queues has a notification on *)
(* the way: the wait, the mutex and notify_all lose no wakeup.             *)
THEOREM NoWakeupIsLost == Spec => []NoLostWakeup
<1>1. WakeupInv => NoLostWakeup
  BY DEF WakeupInv
<1>2. QED
  BY <1>1, WakeupCorrect, PTL

(* The flag that the untimed wait treats the wrong way round is never set  *)
(* when a wait begins.                                                     *)
THEOREM ForceIsHarmless == Spec => []ForcedOnlyOnTheWayOut
<1>1. WakeupInv => ForcedOnlyOnTheWayOut
  BY DEF WakeupInv
<1>2. QED
  BY <1>1, WakeupCorrect, PTL

(* A service that leaves an untimed wait has something to pop: the         *)
(* assertion of DiskIOService::run never fails.                            *)
THEOREM AssertHolds == Spec => WakesWithWork
<1>1. WakeupInv /\ [Next]_vars => [spc # "poll" /\ spc' = "poll" /\ ~timed => Any]_vars
  <2> SUFFICES ASSUME WakeupInv, Next, spc # "poll", spc' = "poll", ~timed
               PROVE  Any
    OBVIOUS
  <2>1. CASE CheckDone
    BY <2>1 DEF CheckDone, KeepWaiting
  <2>2. CASE ~CheckDone
    BY <2>2 DEF Next, Service, Publisher, Lock, CheckWait, Sleep, Relock, Timeout,
                SkipQueue, PopEvent, PopStop, RoundDone, Exit, SpuriousWakeup, Notify,
                PushLocked, Polling
  <2>3. QED
    BY <2>1, <2>2
<1>2. QED
  BY <1>1, WakeupCorrect, PTL DEF Spec, WakesWithWork
==============================================================================
