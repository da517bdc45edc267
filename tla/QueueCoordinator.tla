-------------------------- MODULE QueueCoordinator --------------------------
(***************************************************************************)
(* A service thread sleeping on its condition variable and the threads     *)
(* that push into its queues: QueueCoordinator::waitOnNotify and           *)
(* forceNotify, the locking half of WorkQueue::push, and the run() loops   *)
(* of the four services that wait this way.                                *)
(*                                                                         *)
(* A queue is the sequence of its events (WorkQueue shows the ring to be   *)
(* one); "stop" stands for the service's Shutdown event and "event" for    *)
(* every other.  What the handlers do is left to the services' own         *)
(* modules: here an event is handled by being popped.                      *)
(***************************************************************************)
EXTENDS Naturals, Sequences

CONSTANTS Services,   \* the services under study, out of DOMAIN Polls
          MaxEvents   \* bound on the number of pushes

(* The queues of each service in the order in which its loop polls them.   *)
Polls == [BitTorrentManager |-> <<"epoll", "persist", "announce", "disk", "app">>,
          PersistService    |-> <<"btPersist", "appPersist">>,
          DiskIOService     |-> <<"diskRequests">>,
          AnnounceService   |-> <<"announceRequests">>]

(* Which of them carries the service's Shutdown. *)
StopQueue == [BitTorrentManager |-> "app", PersistService |-> "btPersist",
              DiskIOService |-> "diskRequests", AnnounceService |-> "announceRequests"]

(* Persist and disk empty a queue before they look at the next one; the    *)
(* others take at most one event of each queue per round.                  *)
Drains == [BitTorrentManager |-> FALSE, PersistService |-> TRUE,
           DiskIOService |-> TRUE, AnnounceService |-> FALSE]

ASSUME ServicesAssumption == Services \subseteq DOMAIN Polls
ASSUME MaxEventsAssumption == MaxEvents \in Nat

QueuesOf(s) == {Polls[s][i] : i \in 1 .. Len(Polls[s])}
Queues == UNION {QueuesOf(s) : s \in DOMAIN Polls}

VARIABLES svc,            \* the service (fixed from the start)
          queue,          \* the events in each queue
          ppc,            \* what the thread pushing into each queue does next
          mutex,          \* "free", or "service" while the service holds it
          spc,            \* what the service does next
          timed,          \* whether it waits with a timeout
          polled,         \* how many queues it has polled in this round
          forceNotified,
          active,         \* isActive, running, state # InActive
          pushes          \* number of pushes so far

vars == <<svc, queue, ppc, mutex, spc, timed, polled, forceNotified, active, pushes>>

Init == /\ svc \in Services
        /\ queue = [q \in Queues |-> <<>>]
        /\ ppc = [q \in Queues |-> "idle"]
        /\ mutex = "free"
        /\ spc = "top" /\ timed = FALSE /\ polled = 0
        /\ forceNotified = FALSE /\ active = TRUE
        /\ pushes = 0

Any == \E q \in QueuesOf(svc) : queue[q] # <<>>

------------------------------------------------------------------------------
(* A pushing thread: WorkQueue::push, 56-68. *)

Stopped(q) == q = StopQueue[svc] /\ \/ ~active
                                     \/ \E i \in 1 .. Len(queue[q]) : queue[q][i] = "stop"

(* The element becomes visible when mHead is incremented under the mutex.  *)
(* Shutdown is the last event its sender sends.                            *)
PushUnlocked(q, e) ==    \* mutant: ++mHead without the mutex
    /\ ppc[q] = "idle" /\ pushes < MaxEvents
    /\ e = "stop" => q = StopQueue[svc]
    /\ ~Stopped(q)
    /\ queue' = [queue EXCEPT ![q] = Append(@, e)]
    /\ ppc' = [ppc EXCEPT ![q] = "notify"]
    /\ pushes' = pushes + 1
    /\ UNCHANGED <<svc, mutex, spc, timed, polled, forceNotified, active>>

PushLocked(q, e) ==
    /\ ppc[q] = "idle" /\ pushes < MaxEvents
    /\ e = "stop" => q = StopQueue[svc]
    /\ ~Stopped(q)
    /\ mutex = "free"
    /\ queue' = [queue EXCEPT ![q] = Append(@, e)]
    /\ ppc' = [ppc EXCEPT ![q] = "notify"]
    /\ pushes' = pushes + 1
    /\ UNCHANGED <<svc, mutex, spc, timed, polled, forceNotified, active>>

(* notify_all() wakes the service if it is asleep; the mutex is not held.  *)
NotifyNobody(q) ==       \* mutant: the notification is forgotten
    /\ ppc[q] = "notify"
    /\ ppc' = [ppc EXCEPT ![q] = "idle"]
    /\ UNCHANGED <<svc, queue, mutex, spc, timed, polled, forceNotified, active, pushes>>

Notify(q) ==
    /\ ppc[q] = "notify"
    /\ ppc' = [ppc EXCEPT ![q] = "idle"]
    /\ spc' = IF spc = "asleep" THEN "woken" ELSE spc
    /\ UNCHANGED <<svc, queue, mutex, timed, polled, forceNotified, active, pushes>>

------------------------------------------------------------------------------
(* The service: waitOnNotify, 104-137, called at the top of its loop. *)

(* The announce service waits with a timeout while requests are under way. *)
MayTime == svc = "AnnounceService"

Lock == /\ spc = "top" /\ active /\ mutex = "free"
        /\ mutex' = "service"
        /\ timed' \in (IF MayTime THEN BOOLEAN ELSE {FALSE})
        /\ spc' = "check"
        /\ UNCHANGED <<svc, queue, ppc, polled, forceNotified, active, pushes>>

(* The two loop conditions; they treat forceNotified in opposite ways. *)
KeepWaiting == IF timed THEN ~(Any \/ forceNotified)
                        ELSE ~Any \/ forceNotified

LeaveMidRound ==         \* mutant: the round does not start at the first queue
         /\ forceNotified' = FALSE
         /\ mutex' = "free"
         /\ spc' = "poll"
         /\ UNCHANGED <<svc, queue, ppc, timed, polled, active, pushes>>

Leave == /\ forceNotified' = FALSE
         /\ mutex' = "free"
         /\ polled' = 0
         /\ spc' = "poll"
         /\ UNCHANGED <<svc, queue, ppc, timed, active, pushes>>

CheckDone == spc = "check" /\ ~KeepWaiting /\ Leave

(* Deciding to wait and waiting are two steps, both under the mutex. *)
CheckWait == /\ spc = "check" /\ KeepWaiting
             /\ spc' = "wait"
             /\ UNCHANGED <<svc, queue, ppc, mutex, timed, polled, forceNotified,
                            active, pushes>>

(* cv.wait() gives up the mutex and falls asleep in one step. *)
Sleep == /\ spc = "wait"
         /\ mutex' = "free"
         /\ spc' = "asleep"
         /\ UNCHANGED <<svc, queue, ppc, timed, polled, forceNotified, active, pushes>>

(* A condition variable may wake up without being notified. *)
SpuriousWakeup == /\ spc = "asleep"
                  /\ spc' = "woken"
                  /\ UNCHANGED <<svc, queue, ppc, mutex, timed, polled, forceNotified,
                                 active, pushes>>

WakeUnchecked == /\ spc = "woken" /\ mutex = "free"    \* mutant: if, not while
                 /\ Leave

Relock == /\ spc = "woken" /\ mutex = "free"
          /\ mutex' = "service"
          /\ spc' = "check"
          /\ UNCHANGED <<svc, queue, ppc, timed, polled, forceNotified, active, pushes>>

(* wait_for() reacquires the mutex, and returns whatever the predicate.    *)
Timeout == /\ spc = "asleep" /\ timed /\ mutex = "free"
           /\ Leave

(* The loop after the wait. *)
Current == Polls[svc][polled + 1]
Polling == spc = "poll" /\ polled < Len(Polls[svc])

NextQueue == polled' = polled + 1

SkipQueue == /\ Polling /\ queue[Current] = <<>>
             /\ NextQueue
             /\ UNCHANGED <<svc, queue, ppc, mutex, spc, timed, forceNotified, active, pushes>>

(* Popping takes the mutex for the calibration, so it must be free. *)
PopEvent == /\ Polling /\ queue[Current] # <<>> /\ mutex = "free"
            /\ Head(queue[Current]) = "event"
            /\ queue' = [queue EXCEPT ![Current] = Tail(@)]
            /\ IF Drains[svc] THEN UNCHANGED polled ELSE NextQueue
            /\ UNCHANGED <<svc, ppc, mutex, spc, timed, forceNotified, active, pushes>>

StopIgnored == /\ Polling /\ queue[Current] # <<>> /\ mutex = "free"   \* mutant
               /\ Head(queue[Current]) = "stop"
               /\ queue' = [queue EXCEPT ![Current] = Tail(@)]
               /\ IF Drains[svc] THEN UNCHANGED polled ELSE NextQueue
               /\ UNCHANGED <<svc, ppc, mutex, spc, timed, active, forceNotified, pushes>>

StopForcedOnly ==                  \* mutant: forceNotify, and the loop goes on
           /\ Polling /\ queue[Current] # <<>> /\ mutex = "free"
           /\ Head(queue[Current]) = "stop"
           /\ queue' = [queue EXCEPT ![Current] = Tail(@)]
           /\ IF Drains[svc] THEN UNCHANGED polled ELSE NextQueue
           /\ forceNotified' = (forceNotified \/ svc = "DiskIOService")
           /\ UNCHANGED <<svc, ppc, mutex, spc, timed, active, pushes>>

(* Shutdown ends the loop at its next test; the disk service also notifies *)
(* itself by force.                                                        *)
PopStop == /\ Polling /\ queue[Current] # <<>> /\ mutex = "free"
           /\ Head(queue[Current]) = "stop"
           /\ queue' = [queue EXCEPT ![Current] = Tail(@)]
           /\ IF Drains[svc] THEN UNCHANGED polled ELSE NextQueue
           /\ active' = FALSE
           /\ forceNotified' = (forceNotified \/ svc = "DiskIOService")
           /\ UNCHANGED <<svc, ppc, mutex, spc, timed, pushes>>

RoundDone == /\ spc = "poll" /\ polled = Len(Polls[svc])
             /\ spc' = "top"
             /\ UNCHANGED <<svc, queue, ppc, mutex, timed, polled, forceNotified, active, pushes>>

Exit == /\ spc = "top" /\ ~active
        /\ spc' = "done"
        /\ UNCHANGED <<svc, queue, ppc, mutex, timed, polled, forceNotified, active, pushes>>

------------------------------------------------------------------------------
Publisher(q) == Notify(q) \/ \E e \in {"event", "stop"} : PushLocked(q, e)

Service == \/ Lock \/ CheckDone \/ CheckWait \/ Sleep \/ Relock \/ Timeout
           \/ SkipQueue \/ PopEvent \/ PopStop \/ RoundDone \/ Exit

Next == Service \/ SpuriousWakeup \/ \E q \in QueuesOf(svc) : Publisher(q)

Spec == Init /\ [][Next]_vars

(* The service thread runs, a timeout expires, and a push that has begun   *)
(* gets to its notification.  No thread is obliged to push.                *)
FairSpec == /\ Spec /\ WF_vars(Service)
            /\ \A q \in Queues : WF_vars(Notify(q))

------------------------------------------------------------------------------
(* Properties. *)

(* Types. *)
TypeOK == /\ svc \in DOMAIN Polls
          /\ queue \in [Queues -> Seq({"event", "stop"})]
          /\ ppc \in [Queues -> {"idle", "notify"}]
          /\ mutex \in {"free", "service"}
          /\ spc \in {"top", "check", "wait", "asleep", "woken", "poll", "done"}
          /\ timed \in BOOLEAN /\ forceNotified \in BOOLEAN /\ active \in BOOLEAN
          /\ polled \in Nat /\ pushes \in Nat

(* A service never sleeps on an event: if one of its queues has something  *)
(* while it is asleep, the thread that put it there has still to notify.   *)
NoLostWakeup == spc = "asleep" /\ Any => \E q \in QueuesOf(svc) : ppc[q] = "notify"

(* After an untimed wait there is something to pop, which is what          *)
(* DiskIOService::run asserts.                                             *)
WakesWithWork == [][spc # "poll" /\ spc' = "poll" /\ ~timed => Any]_vars

(* The untimed wait keeps waiting while forceNotified is set. That never   *)
(* matters, since the only caller of forceNotify is the service itself on  *)
(* its way out, and no wait ever begins with the flag set.                 *)
ForcedOnlyOnTheWayOut == forceNotified => ~active /\ spc \in {"poll", "top", "done"}

(* Every event is popped, as long as the service runs. *)
EventsServed == \A q \in Queues : queue[q] # <<>> ~> (queue[q] = <<>> \/ spc = "done")

(* A Shutdown event ends the service. *)
StopObeyed == (\E i \in 1 .. Len(queue[StopQueue[svc]]) : queue[StopQueue[svc]][i] = "stop")
                 ~> spc = "done"

(* What the service holds the mutex for, and what a sleeper may rely on.   *)
(* The wait is only reached with empty queues, and only a thread that will *)
(* notify can change that once the mutex is given up.                      *)
MutexHeld == (mutex = "service") <=> spc \in {"check", "wait"}

(* The inductive invariant of the wait: no wakeup is lost because the      *)
(* mutex is held from the test of the queues to cv.wait().                 *)
WakeupInv == /\ TypeOK /\ MutexHeld /\ ForcedOnlyOnTheWayOut
             /\ spc = "wait" => ~Any
             /\ spc \in {"check", "wait", "asleep", "woken"} => active
             /\ NoLostWakeup
==============================================================================
