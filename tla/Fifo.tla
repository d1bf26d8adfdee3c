-------------------------------- MODULE Fifo --------------------------------
(***************************************************************************)
(* What a queue of ioqueue.h promises: characters leave in the order they  *)
(* came, none is lost, duplicated or overwritten, and it never holds more  *)
(* than Capacity of them.                                                  *)
(***************************************************************************)
EXTENDS Naturals, Sequences

CONSTANTS Item, Capacity

VARIABLE queue

Init == queue = <<>>

Put(c) ==
  /\ Len(queue) < Capacity
  /\ queue' = Append(queue, c)

Get ==
  /\ queue # <<>>
  /\ queue' = Tail(queue)

Next == Get \/ \E c \in Item : Put(c)

Spec == Init /\ [][Next]_queue
=============================================================================
