---------------------------- MODULE SPSCWrapped -----------------------------
(***************************************************************************)
(* The two single-producer single-consumer queues of Day 11.  Both keep    *)
(* head and tail reduced modulo CAPACITY and leave one slot free to tell   *)
(* full from empty; they differ in the order of their stores:              *)
(*   SPSC.cpp writes the slot and then stores tail, and reads the slot and *)
(*            then stores head (SpecCpp);                                  *)
(*   SPSC.c   advances tail by compare-and-swap and writes the slot after, *)
(*            and advances head and reads the slot after (SpecC).          *)
(* One thread pushes 1, 2, ..., NUM_OPS, retrying while the queue is full, *)
(* one thread pops NUM_OPS times.                                          *)
(***************************************************************************)
EXTENDS Naturals, Sequences

CONSTANTS CAPACITY,       \* slots, at least 2: one is kept free
          NUM_OPS,        \* values pushed
          None            \* the initial content of a slot, not a number

WrappedAssumption ==
  /\ CAPACITY \in Nat /\ CAPACITY >= 2
  /\ NUM_OPS \in Nat
  /\ None \notin Nat

VARIABLES head, tail, data,
          producer, consumer,   \* where each thread is inside its call
          val,                  \* the consumer's val
          pushed,               \* pushes that returned true
          received              \* the values popped, in order

vars == <<head, tail, data, producer, consumer, val, pushed, received>>

Slots   == 0 .. CAPACITY - 1
Inc(i)  == (i + 1) % CAPACITY
Dec(i)  == (i + CAPACITY - 1) % CAPACITY
Held    == (CAPACITY + tail - head) % CAPACITY

Init ==
  /\ head = 0 /\ tail = 0
  /\ data = [s \in Slots |-> None]
  /\ producer = "check" /\ consumer = "check"
  /\ val = None
  /\ pushed = 0
  /\ received = <<>>

-----------------------------------------------------------------------------
(* A slip: a faulty form of a definition below; not part of a Next.          *)

StoreTailFirst ==                            \* the order of SPSC.c in SPSC.cpp
  /\ producer = "check"
  /\ pushed < NUM_OPS
  /\ Inc(tail) # head
  /\ tail' = Inc(tail)
  /\ producer' = "write"
  /\ UNCHANGED <<head, data, consumer, val, pushed, received>>

-----------------------------------------------------------------------------
(* Common to both: the tests on the two indices                             *)

IsFull(t, h)  == Inc(t) = h
IsEmpty(t, h) == h = t

\* A push returned false, or a pop did: the caller retries.
PushFull ==
  producer = "check" /\ pushed < NUM_OPS /\ IsFull(tail, head) /\ UNCHANGED vars
PopEmpty ==
  consumer = "check" /\ Len(received) < NUM_OPS /\ IsEmpty(tail, head) /\ UNCHANGED vars

-----------------------------------------------------------------------------
(* SPSC.cpp *)

CppPushCheck ==
  /\ producer = "check"
  /\ pushed < NUM_OPS
  /\ ~IsFull(tail, head)
  /\ producer' = "write"
  /\ UNCHANGED <<head, tail, data, consumer, val, pushed, received>>

CppPushWrite ==
  /\ producer = "write"
  /\ data' = [data EXCEPT ![tail] = pushed + 1]
  /\ producer' = "store"
  /\ UNCHANGED <<head, tail, consumer, val, pushed, received>>

CppPushStore ==
  /\ producer = "store"
  /\ tail' = Inc(tail)
  /\ producer' = "check"
  /\ pushed' = pushed + 1
  /\ UNCHANGED <<head, data, consumer, val, received>>

CppPopCheck ==
  /\ consumer = "check"
  /\ Len(received) < NUM_OPS
  /\ ~IsEmpty(tail, head)
  /\ consumer' = "read"
  /\ UNCHANGED <<head, tail, data, producer, val, pushed, received>>

CppPopRead ==
  /\ consumer = "read"
  /\ val' = data[head]
  /\ consumer' = "store"
  /\ UNCHANGED <<head, tail, data, producer, pushed, received>>

CppPopStore ==
  /\ consumer = "store"
  /\ head' = Inc(head)
  /\ received' = Append(received, val)
  /\ consumer' = "check"
  /\ UNCHANGED <<tail, data, producer, val, pushed>>

CppPush == CppPushCheck \/ PushFull \/ CppPushWrite \/ CppPushStore
CppPop  == CppPopCheck \/ PopEmpty \/ CppPopRead \/ CppPopStore
NextCpp == CppPush \/ CppPop
SpecCpp == Init /\ [][NextCpp]_vars /\ WF_vars(CppPush) /\ WF_vars(CppPop)

-----------------------------------------------------------------------------
(* SPSC.c.  Only the producer changes tail, so its CAS always succeeds in    *)
(* the end (a spurious failure repeats the test); likewise the consumer's.  *)

CPushClaim ==                           \* test, then CAS(tail, tail + 1)
  /\ producer = "check"
  /\ pushed < NUM_OPS
  /\ ~IsFull(tail, head)
  /\ tail' = Inc(tail)
  /\ producer' = "write"
  /\ UNCHANGED <<head, data, consumer, val, pushed, received>>

CPushWrite ==                           \* q->data[tail] = val; return true
  /\ producer = "write"
  /\ data' = [data EXCEPT ![Dec(tail)] = pushed + 1]
  /\ pushed' = pushed + 1
  /\ producer' = "check"
  /\ UNCHANGED <<head, tail, consumer, val, received>>

CPopClaim ==                            \* test, then CAS(head, head + 1)
  /\ consumer = "check"
  /\ Len(received) < NUM_OPS
  /\ ~IsEmpty(tail, head)
  /\ head' = Inc(head)
  /\ consumer' = "read"
  /\ UNCHANGED <<tail, data, producer, val, pushed, received>>

CPopRead ==                             \* *val = q->data[head]; return true
  /\ consumer = "read"
  /\ received' = Append(received, data[Dec(head)])
  /\ consumer' = "check"
  /\ UNCHANGED <<head, tail, data, producer, val, pushed>>

CPush == CPushClaim \/ PushFull \/ CPushWrite
CPop  == CPopClaim \/ PopEmpty \/ CPopRead
NextC == CPush \/ CPop
SpecC == Init /\ [][NextC]_vars /\ WF_vars(CPush) /\ WF_vars(CPop)

-----------------------------------------------------------------------------
(* Properties *)

TypeOK ==
  /\ head \in Slots /\ tail \in Slots
  /\ data \in [Slots -> Nat \cup {None}]
  /\ producer \in {"check", "write", "store"}
  /\ consumer \in {"check", "read", "store"}
  /\ val \in Nat \cup {None}
  /\ pushed \in 0 .. NUM_OPS
  /\ received \in Seq(Nat \cup {None})

\* What every pop must return: the values in the order they were pushed.
ReceivesInOrder == \A i \in DOMAIN received : received[i] = i

\* SPSC.cpp implements the bounded FIFO, of one slot less than CAPACITY.
Reading == consumer = "store"

Abstract == INSTANCE BoundedQueue
  WITH Values <- 1 .. NUM_OPS, Capacity <- CAPACITY - 1, Consumers <- {"consumer"},
       items <- LET first == Len(received) + (IF Reading THEN 1 ELSE 0)
                IN  [i \in 1 .. pushed - first |-> first + i],
       claimed <- [c \in {"consumer"} |-> IF Reading THEN val ELSE None],
       delivered <- [c \in {"consumer"} |-> received]

\* Day 11's Readme: "write data first, publish second, always": a slot the
\* consumer may pop has been written.
WrittenBeforePublished ==
  \A k \in 1 .. Held : data[(head + k - 1) % CAPACITY] # None
=============================================================================
