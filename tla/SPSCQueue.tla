----------------------------- MODULE SPSCQueue ------------------------------
(***************************************************************************)
(* The single-producer single-consumer ring of Day 22 (SPSC.c; SPSC.cpp,   *)
(* AudioBuffer.c and AudioBuffer.cpp contain the same ring).  head and     *)
(* tail are free-running unsigned integers: they are reduced to a slot     *)
(* only where the array is touched, and wrap around at IndexModulus, 2^64  *)
(* in the code.  The stress test seeds them just below the wrap, pushes    *)
(* 0, 1, 2, ... from one thread and checks in the other that pop number i  *)
(* returns i.                                                              *)
(*                                                                         *)
(* Each thread is the only writer of its own index, so its relaxed load of *)
(* that index is part of the step that loads the other index.              *)
(***************************************************************************)
EXTENDS Naturals, Sequences

CONSTANTS CAPACITY,       \* slots in the ring
          IndexModulus,   \* the number of values of a size_t
          SEED,           \* the first value of head and tail (near_max)
          NUM_OPS,        \* values pushed by the stress test
          None            \* the initial content of a slot

\* _Static_assert: CAPACITY is a power of two, hence divides the range of size_t.
ASSUME RingAssumption ==
  /\ CAPACITY \in Nat \ {0}
  /\ IndexModulus \in Nat /\ IndexModulus > CAPACITY
  /\ IndexModulus % CAPACITY = 0
  /\ SEED \in 0 .. IndexModulus - 1
  /\ NUM_OPS \in Nat
  /\ None \notin Nat

VARIABLES head, tail,   \* q->head, q->tail
          data,         \* q->data
          producer,     \* where the producer is in queue_push
          consumer,     \* where the consumer is in queue_pop
          val,          \* the consumer's val
          pushed,       \* the producer's loop counter i
          received      \* the values popped, in order

vars == <<head, tail, data, producer, consumer, val, pushed, received>>

Indices == 0 .. IndexModulus - 1
Slots   == 0 .. CAPACITY - 1
Slot(i) == i % CAPACITY                           \* i & MASK
Inc(i)  == (i + 1) % IndexModulus
Held(t, h) == (IndexModulus + t - h) % IndexModulus \* current_tail - current_head

Init ==
  /\ head = SEED /\ tail = SEED
  /\ data = [s \in Slots |-> None]
  /\ producer = "check" /\ consumer = "check"
  /\ val = None
  /\ pushed = 0
  /\ received = <<>>

-----------------------------------------------------------------------------
(* Slips: faulty forms of definitions below; none is part of Next.          *)

FullWithoutWrap(t, h)  == t >= h + CAPACITY       \* the sum is not reduced
FullPastCapacity(t, h) == Held(t, h) > CAPACITY
EmptyByOrder(t, h)     == t <= h                  \* forgets that tail wraps first

PushCheckNoWait ==                                \* a full ring is overwritten
  /\ producer = "check"
  /\ pushed < NUM_OPS
  /\ producer' = "write"
  /\ UNCHANGED <<head, tail, data, consumer, val, pushed, received>>

-----------------------------------------------------------------------------
(* queue_push, called by the producer thread until it returns true          *)

IsFull(t, h) == Held(t, h) >= CAPACITY

PushCheck ==                            \* load tail and head; space is left
  /\ producer = "check"
  /\ pushed < NUM_OPS
  /\ ~IsFull(tail, head)
  /\ producer' = "write"
  /\ UNCHANGED <<head, tail, data, consumer, val, pushed, received>>

PushFull ==                             \* return false; the caller spins
  /\ producer = "check"
  /\ pushed < NUM_OPS
  /\ IsFull(tail, head)
  /\ UNCHANGED vars

PushWrite ==                            \* data[tail & MASK] = val
  /\ producer = "write"
  /\ data' = [data EXCEPT ![Slot(tail)] = pushed]
  /\ producer' = "publish"
  /\ UNCHANGED <<head, tail, consumer, val, pushed, received>>

PushPublish ==                          \* store(tail, tail + 1, release)
  /\ producer = "publish"
  /\ tail' = Inc(tail)
  /\ producer' = "check"
  /\ pushed' = pushed + 1
  /\ UNCHANGED <<head, data, consumer, val, received>>

-----------------------------------------------------------------------------
(* queue_pop, called by the consumer thread until it returns true           *)

IsEmpty(t, h) == h = t

PopCheck ==
  /\ consumer = "check"
  /\ Len(received) < NUM_OPS
  /\ ~IsEmpty(tail, head)
  /\ consumer' = "read"
  /\ UNCHANGED <<head, tail, data, producer, val, pushed, received>>

PopEmpty ==                             \* return false; the caller spins
  /\ consumer = "check"
  /\ Len(received) < NUM_OPS
  /\ IsEmpty(tail, head)
  /\ UNCHANGED vars

PopRead ==                              \* *val = data[head & MASK]
  /\ consumer = "read"
  /\ val' = data[Slot(head)]
  /\ consumer' = "release"
  /\ UNCHANGED <<head, tail, data, producer, pushed, received>>

PopRelease ==                           \* store(head, head + 1, release)
  /\ consumer = "release"
  /\ head' = Inc(head)
  /\ consumer' = "check"
  /\ received' = Append(received, val)
  /\ UNCHANGED <<tail, data, producer, val, pushed>>

-----------------------------------------------------------------------------
Push == PushCheck \/ PushFull \/ PushWrite \/ PushPublish
Pop  == PopCheck \/ PopEmpty \/ PopRead \/ PopRelease
Next == Push \/ Pop

Spec     == Init /\ [][Next]_vars
FairSpec == Spec /\ WF_vars(Push) /\ WF_vars(Pop)   \* both threads run
-----------------------------------------------------------------------------
(* Properties *)

\* Indices stay within a size_t and the harness within its loop bounds.
TypeOK ==
  /\ head \in Indices /\ tail \in Indices
  /\ data \in [Slots -> Nat \cup {None}]
  /\ producer \in {"check", "write", "publish"}
  /\ consumer \in {"check", "read", "release"}
  /\ val \in Nat \cup {None}
  /\ pushed \in 0 .. NUM_OPS
  /\ received \in Seq(Nat \cup {None})

\* The plain write of queue_push and the plain read of queue_pop never touch
\* the same slot at the same time, also while the indices cross the wrap.
NoDataRace ==
  producer = "write" /\ consumer \in {"read", "release"} => Slot(tail) # Slot(head)

\* Day 22's Readme: "tail - head gives exact element count via unsigned
\* wraparound arithmetic", and never more than CAPACITY elements.
ExactCount ==
  /\ Held(tail, head) = pushed - Len(received)
  /\ pushed - Len(received) <= CAPACITY

\* assert(val == i) in the consumer of the stress test.
ReceivesInOrder == \A i \in 1 .. Len(received) : received[i] = i - 1

\* The ring is a bounded FIFO: an item is enqueued when tail is stored, leaves
\* the FIFO when the consumer reads its slot, and is returned when head is stored.
Reading == consumer = "release"
First   == Len(received) + (IF Reading THEN 1 ELSE 0)   \* the oldest item
Items   == [i \in 1 .. pushed - First |-> First + i - 1]

Abstract == INSTANCE BoundedQueue
  WITH Values <- 0 .. NUM_OPS - 1, Capacity <- CAPACITY, Consumers <- {"consumer"},
       items <- Items,
       claimed <- [c \in {"consumer"} |-> IF Reading THEN val ELSE None],
       delivered <- [c \in {"consumer"} |-> received]

ImplementsBoundedQueue == Abstract!Spec
=============================================================================
