----------------------------- MODULE ByteQueue -----------------------------
(***************************************************************************)
(* What both UART ring buffers of user/uart_buffer.c promise: a bounded    *)
(* first-in first-out queue of bytes.  Bytes are numbered 1, 2, ... in the *)
(* order they are put in, so a lost, repeated, stale or reordered byte is  *)
(* one that comes out with the wrong number.                               *)
(***************************************************************************)
EXTENDS Naturals, Sequences

CONSTANT Capacity    \* the bytes it can hold

VARIABLES
  queue,    \* the bytes in the queue, oldest first
  out,      \* every byte taken out so far, in order
  last      \* the number of the newest byte put in

vars == <<queue, out, last>>

Init ==
  /\ queue = <<>>
  /\ out = <<>>
  /\ last = 0

(* n fresh bytes enter; a producer that finds no room puts nothing in.     *)
Put(n) ==
  /\ Len(queue) + n <= Capacity
  /\ queue' = queue \o [i \in 1..n |-> last + i]
  /\ last' = last + n
  /\ UNCHANGED out

(* The consumer takes the n oldest bytes.                                  *)
Take(n) ==
  /\ n <= Len(queue)
  /\ out' = out \o SubSeq(queue, 1, n)
  /\ queue' = SubSeq(queue, n + 1, Len(queue))
  /\ UNCHANGED last

Next == \E n \in 1..Capacity : Put(n) \/ Take(n)

Spec == Init /\ [][Next]_vars
=============================================================================
