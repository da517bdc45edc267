----------------------------- MODULE BoundedFifo -----------------------------
(***************************************************************************)
(* What the endpoints of a FullDuplexQueue promise each other: events come *)
(* out in the order they went in, each of them once, never more than       *)
(* Capacity wait at a time, and the event the reader is handling does not  *)
(* change under its hands.  Events are numbered in the order in which they *)
(* were accepted.                                                          *)
(***************************************************************************)
EXTENDS Naturals, Sequences

CONSTANTS Capacity,   \* how many accepted events may wait
          None        \* the reader is not handling an event

VARIABLES pending,    \* the accepted events, oldest first
          current,    \* the event the reader is handling, or None
          nextEvent   \* the number of the next event to be accepted

vars == <<pending, current, nextEvent>>

Init == /\ pending = <<>>
        /\ current = None
        /\ nextEvent = 0

(* The writer's event is accepted. *)
Put == /\ Len(pending) < Capacity
       /\ pending' = Append(pending, nextEvent)
       /\ nextEvent' = nextEvent + 1
       /\ UNCHANGED current

(* The reader starts on the oldest event. *)
Take == /\ current = None
        /\ pending # <<>>
        /\ current' = Head(pending)
        /\ pending' = Tail(pending)
        /\ UNCHANGED nextEvent

(* The reader is done with it. *)
Done == /\ current # None
        /\ current' = None
        /\ UNCHANGED <<pending, nextEvent>>

Next == Put \/ Take \/ Done

Spec == Init /\ [][Next]_vars
==============================================================================
