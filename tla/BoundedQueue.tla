---------------------------- MODULE BoundedQueue ----------------------------
(***************************************************************************)
(* What every bounded queue of the repository promises its callers: items  *)
(* come out in the order they went in, each one once, unaltered, and never *)
(* more than Capacity of them are held.  Taking an item is two steps,      *)
(* since the implementations claim a position first and hand its content   *)
(* over later: Deq fixes which item consumer c will get, Return hands that *)
(* item, and no other, to c.                                               *)
(***************************************************************************)
EXTENDS Naturals, Sequences

CONSTANTS Values,      \* what may be enqueued
          Consumers,   \* the threads that dequeue
          Capacity,    \* the number of items the queue can hold
          None         \* not a value: "no item claimed"

VARIABLES items,       \* the items held, oldest first
          claimed,     \* claimed[c]: the item c has claimed and not yet received
          delivered    \* delivered[c]: the items c has received, in order

vars == <<items, claimed, delivered>>

Init ==
  /\ items = <<>>
  /\ claimed = [c \in Consumers |-> None]
  /\ delivered = [c \in Consumers |-> <<>>]

Enq(v) ==
  /\ Len(items) < Capacity
  /\ items' = Append(items, v)
  /\ UNCHANGED <<claimed, delivered>>

Deq(c) ==
  /\ items # <<>>
  /\ claimed[c] = None
  /\ items' = Tail(items)
  /\ claimed' = [claimed EXCEPT ![c] = Head(items)]
  /\ UNCHANGED delivered

Return(c) ==
  /\ claimed[c] # None
  /\ claimed' = [claimed EXCEPT ![c] = None]
  /\ delivered' = [delivered EXCEPT ![c] = Append(@, claimed[c])]
  /\ UNCHANGED items

Next ==
  \/ \E v \in Values : Enq(v)
  \/ \E c \in Consumers : Deq(c) \/ Return(c)

Spec == Init /\ [][Next]_vars
=============================================================================
