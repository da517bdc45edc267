----------------------------- MODULE MCWorkQueue -----------------------------
(* How the queues are used; the .cfg files choose.                         *)
EXTENDS WorkQueue

(* Calls overlap on every queue, or on those with a mutex only. *)
Always == [m \in BOOLEAN |-> TRUE]
WithMutex == [m \in BOOLEAN |-> m]

(* No queue overflows, or only those without overlapping calls do. *)
AtMostFull == [m \in BOOLEAN |-> S]
OverflowsAlone == [m \in BOOLEAN |-> IF m THEN S ELSE S + 1]
==============================================================================
