---------------------------- MODULE BoundedQueue ----------------------------
(***************************************************************************)
(* What a bounded FIFO queue promises, whatever its implementation: a      *)
(* value that was accepted is handed out once, in the order of acceptance, *)
(* and never more than Capacity values are held.  Both ring buffers of the *)
(* repository (SPSCQueue and MPMCQueue) are shown to implement it.         *)
(*                                                                         *)
(* A call that returns false changes nothing here; when an implementation  *)
(* may do that is stated with the implementation.                          *)
(***************************************************************************)
EXTENDS Naturals, Sequences

CONSTANTS Value,      \* the values that can be queued
          NoValue,    \* what a consumer holds before its first value
          Consumer,   \* the threads that take values
          Capacity    \* how many values the queue can hold

VARIABLES items,      \* the accepted values not yet handed out, oldest first
          hand        \* hand[c]: the value c was last given

Init == /\ items = <<>>
        /\ hand = [c \in Consumer |-> NoValue]

\* A value is accepted: the queue is not full.
Put(v) == /\ Len(items) < Capacity
          /\ items' = Append(items, v)
          /\ UNCHANGED hand

\* Consumer c is given the oldest value.
Take(c) == /\ items # <<>>
           /\ hand' = [hand EXCEPT ![c] = Head(items)]
           /\ items' = Tail(items)

Next == \/ \E v \in Value : Put(v)
        \/ \E c \in Consumer : Take(c)

Spec == Init /\ [][Next]_<<items, hand>>
=============================================================================
