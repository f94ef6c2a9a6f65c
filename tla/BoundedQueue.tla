---------------------------- MODULE BoundedQueue ----------------------------
(***************************************************************************)
(* What a hand-over queue between a callback and the main loop promises:   *)
(* items leave in the order they came, none twice and none altered, there  *)
(* are never more than Capacity of them, and a flush leaves none.          *)
(***************************************************************************)
EXTENDS Naturals, Sequences

CONSTANTS Capacity, Item

VARIABLE queue

Init == queue = <<>>

Put == \E item \in Item :
         Len(queue) < Capacity /\ queue' = Append(queue, item)

Take == queue # <<>> /\ queue' = Tail(queue)

Clear == queue' = <<>>

Next == Put \/ Take \/ Clear

Spec == Init /\ [][Next]_queue
=============================================================================
