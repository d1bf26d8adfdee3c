------------------------------ MODULE Ioqueue -------------------------------
(***************************************************************************)
(* The ring buffer of ioqueue.c, as a record [buf, head, tail]: head is    *)
(* where the next character is put, tail where the next one is taken, and  *)
(* one slot always stays empty.  Sleeping and waking around it is modelled *)
(* where it happens, in KbdQueue and in Pipe.                              *)
(***************************************************************************)
EXTENDS Integers

CONSTANTS
  bufsize,   \* slots of the ring
  Char       \* the characters

ASSUME IoqueueAssumption == bufsize \in Nat \ {0, 1} /\ Char # {}

Ring == [buf : [0 .. bufsize - 1 -> Char], head : 0 .. bufsize - 1,
         tail : 0 .. bufsize - 1]

ioqueue_init ==
  [buf |-> [i \in 0 .. bufsize - 1 |-> CHOOSE c \in Char : TRUE],
   head |-> 0, tail |-> 0]

next_pos(pos) == (pos + 1) % bufsize

ioq_full(q) == next_pos(q.head) = q.tail

ioq_empty(q) == q.head = q.tail

ioq_length(q) ==
  IF q.head >= q.tail THEN q.head - q.tail ELSE bufsize - (q.tail - q.head)

(* What ioq_putchar does to a ring that is not full ...                    *)
PutChar(q, c) ==
  [q EXCEPT !.buf = [q.buf EXCEPT ![q.head] = c], !.head = next_pos(q.head)]

(* ... and ioq_getchar to one that is not empty.                           *)
GetChar(q) == [q EXCEPT !.tail = next_pos(q.tail)]

(* The characters in the ring, oldest first.                               *)
Contents(q) == [i \in 1 .. ioq_length(q) |-> q.buf[(q.tail + i - 1) % bufsize]]
=============================================================================
