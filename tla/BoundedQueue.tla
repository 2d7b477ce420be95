---------------------------- MODULE BoundedQueue ----------------------------
(***************************************************************************)
(* What SafeQueue of Mini_DCS promises: a first-in first-out queue of at   *)
(* most capacity elements.                                                 *)
(***************************************************************************)
EXTENDS Naturals, Sequences

CONSTANTS Value, capacity
VARIABLE queue

Init == queue = <<>>
Put(v) == Len(queue) < capacity /\ queue' = Append(queue, v)
Get == queue # <<>> /\ queue' = Tail(queue)
Next == Get \/ \E v \in Value : Put(v)
Spec == Init /\ [][Next]_queue
=============================================================================
