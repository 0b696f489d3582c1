--------------------------- MODULE BoundedBuffer ---------------------------
(***************************************************************************)
(* What the producer and the consumers of the course mean to share: the    *)
(* numbers 1, 2, 3... pass through a buffer of bounded size, in order,     *)
(* each to one consumer.                                                   *)
(***************************************************************************)
EXTENDS Naturals, Sequences

CONSTANT Capacity

VARIABLES
  produced,  \* the last number put into the buffer
  held,      \* the numbers in it
  consumed   \* the last number taken from it

buffervars == <<produced, held, consumed>>

Init ==
  /\ produced = 0
  /\ held = <<>>
  /\ consumed = 0

Produce ==
  /\ Len(held) < Capacity
  /\ produced' = produced + 1
  /\ held' = Append(held, produced + 1)
  /\ UNCHANGED consumed

Consume ==
  /\ held # <<>>
  /\ consumed' = Head(held)
  /\ held' = Tail(held)
  /\ UNCHANGED produced

Next == Produce \/ Consume

Spec == Init /\ [][Next]_buffervars
============================================================================
