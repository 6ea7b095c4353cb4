-------------------------- MODULE MPMCQueueProofs ---------------------------
(***************************************************************************)
(* For any number of producers and consumers and any capacity of at least  *)
(* two: two threads are never in the same slot, a consumer reads the value *)
(* of the position it claimed, and "full" and "empty" are reported only    *)
(* when the queue is, or while a claimed slot is still being worked on.    *)
(*                                                                         *)
(* The argument: each slot stands for one position of the next CAPACITY    *)
(* ones, tail .. tail + CAPACITY - 1, and its sequence number alone tells  *)
(* whether that position is free, whether the position one lap earlier is  *)
(* published, or is still being written (Cells).  A successful CAS moves   *)
(* that window by one, a store to sequence moves one slot to its next      *)
(* state, and nothing else touches it.                                     *)
(***************************************************************************)
EXTENDS MPMCQueue, RingArithmetic, SequenceTheorems, TLAPS

\* head and tail are at most one lap apart, and every claim of a position is logged.
Shape == Len(log) = tail /\ head <= tail /\ tail <= head + CAPACITY

\* A producer inside queue_push still has a value to push.
Running == \A p \in Producers : pc[p] # "load_pos" => sent[p] < ItemsPerThread

ProducerOwns ==
  \A p \in Producers : Accessing(p) =>
    /\ head <= pos[p] /\ pos[p] < tail /\ tail <= pos[p] + CAPACITY
    /\ sequence[Slot(pos[p])] = pos[p]
    /\ log[pos[p] + 1] = Item(p)
    /\ pc[p] = "publish" => data[Slot(pos[p])] = Item(p)
    /\ \A q \in Producers : Accessing(q) /\ pos[q] = pos[p] => q = p

ConsumerOwns ==
  \A c \in Consumers : Accessing(c) =>
    /\ pos[c] < head /\ tail <= pos[c] + CAPACITY
    /\ sequence[Slot(pos[c])] = pos[c] + 1
    /\ pc[c] = "access" => data[Slot(pos[c])] = log[pos[c] + 1]
    /\ pc[c] = "publish" => val[c] = log[pos[c] + 1]
    /\ \A d \in Consumers : Accessing(d) /\ pos[d] = pos[c] => d = c

\* What a thread has seen of a slot: a position it loaded is never ahead of the
\* counter, and its slot never goes back.
Seen(t, counter, mark) ==
  pc[t] \in {"load_seq", "cas"} =>
    /\ pos[t] <= counter
    /\ pos[t] < counter => sequence[Slot(pos[t])] >= mark
    /\ pc[t] = "cas" /\ pos[t] = counter => sequence[Slot(pos[t])] = mark

Trying ==
  /\ \A p \in Producers : Seen(p, tail, pos[p])
  /\ \A c \in Consumers : Seen(c, head, pos[c] + 1)

\* The three states of the slot that stands for position k of the next lap.
Free(k)  == sequence[Slot(k)] = k /\ k < head + CAPACITY
Ready(k) ==
  /\ k >= CAPACITY
  /\ sequence[Slot(k)] = k - CAPACITY + 1
  /\ data[Slot(k)] = log[k - CAPACITY + 1]
  /\ \/ head <= k - CAPACITY
     \/ \E c \in Consumers : Accessing(c) /\ pos[c] = k - CAPACITY
Writing(k) ==
  /\ k >= CAPACITY
  /\ sequence[Slot(k)] = k - CAPACITY
  /\ head <= k - CAPACITY
  /\ \E p \in Producers : Accessing(p) /\ pos[p] = k - CAPACITY

Cells == \A k \in tail .. tail + CAPACITY - 1 : Free(k) \/ Ready(k) \/ Writing(k)

Inv ==
  TypeOK /\ Shape /\ Running /\ ProducerOwns /\ ConsumerOwns /\ Trying /\ Cells

-----------------------------------------------------------------------------
(* Positions and slots *)

\* The ring has slots.
LEMMA Positive == CAPACITY \in Nat \ {0}
BY QueueAssumption

\* Every position has a slot of the ring: pos & (CAPACITY - 1).
LEMMA SlotRange == ASSUME NEW a \in Nat PROVE Slot(a) \in Slots
BY Positive, RemainderRange DEF Slot, Slots

\* Two positions less than a lap apart have the same slot only if they are equal.
LEMMA SameSlot ==
  ASSUME NEW a \in Nat, NEW b \in Nat, Slot(a) = Slot(b),
         a < b + CAPACITY, b < a + CAPACITY
  PROVE  a = b
BY Positive, SameRemainder DEF Slot

\* The position CAPACITY later, which queue_pop stores, is that of the same slot.
LEMMA NextLap == ASSUME NEW a \in Nat PROVE Slot(a + CAPACITY) = Slot(a)
BY Positive, NextLapRemainder DEF Slot

-----------------------------------------------------------------------------
(* Typing *)

\* What a producer of the stress test pushes is a value.
LEMMA ItemType ==
  ASSUME TypeOK, NEW p \in Producers
  PROVE  Item(p) \in Values
BY QueueAssumption DEF TypeOK, Item, Values

\* Every step of queue_push keeps the types, and a producer inside it has a value
\* left to push.
LEMMA PushType ==
  ASSUME TypeOK, Running, NEW p \in Producers, Push(p)
  PROVE  TypeOK' /\ Running'
<1> USE DEF TypeOK, Running, Goto, SetPos
<1> p \in Threads /\ Item(p) \in Values /\ Slot(pos[p]) \in Slots
  BY ItemType, SlotRange DEF Threads
<1>1. CASE PushLoadPos(p)
  BY <1>1 DEF PushLoadPos
<1>2. CASE PushReady(p)
  BY <1>2 DEF PushReady
<1>3. CASE PushFull(p)
  BY <1>3 DEF PushFull
<1>4. CASE PushStale(p)
  BY <1>4 DEF PushStale
<1>5. CASE PushCasOk(p)
  BY <1>5 DEF PushCasOk
<1>6. CASE PushCasFail(p)
  BY <1>6 DEF PushCasFail
<1>7. CASE PushWrite(p)
  BY <1>7 DEF PushWrite
<1>8. CASE PushPublish(p)
  <2>1. sent[p] \in 0 .. ItemsPerThread /\ sent[p] < ItemsPerThread
    BY <1>8 DEF PushPublish
  <2>2. sent' \in [Producers -> 0 .. ItemsPerThread]
    BY <1>8, <2>1, QueueAssumption DEF PushPublish
  <2>3. sequence' \in [Slots -> Nat]
    BY <1>8 DEF PushPublish
  <2>4. Running'
    BY <1>8 DEF PushPublish
  <2> QED
    BY <1>8, <2>2, <2>3, <2>4 DEF PushPublish
<1> HIDE DEF TypeOK, Running
<1> QED
  BY <1>1, <1>2, <1>3, <1>4, <1>5, <1>6, <1>7, <1>8 DEF Push

\* Every step of queue_pop keeps the types.
LEMMA PopType ==
  ASSUME TypeOK, Running, NEW c \in Consumers, Pop(c)
  PROVE  TypeOK' /\ Running'
<1> USE DEF TypeOK, Running, Goto, SetPos
<1> c \in Threads /\ c \notin Producers /\ Slot(pos[c]) \in Slots
  BY SlotRange, QueueAssumption DEF Threads
<1>1. CASE PopLoadPos(c)
  BY <1>1 DEF PopLoadPos
<1>2. CASE PopReady(c)
  BY <1>2 DEF PopReady
<1>3. CASE PopEmpty(c)
  BY <1>3 DEF PopEmpty
<1>4. CASE PopStale(c)
  BY <1>4 DEF PopStale
<1>5. CASE PopCasOk(c)
  BY <1>5 DEF PopCasOk
<1>6. CASE PopCasFail(c)
  BY <1>6 DEF PopCasFail
<1>7. CASE PopRead(c)
  BY <1>7 DEF PopRead
<1>8. CASE PopRelease(c)
  BY <1>8, QueueAssumption DEF PopRelease
<1> HIDE DEF TypeOK, Running
<1> QED
  BY <1>1, <1>2, <1>3, <1>4, <1>5, <1>6, <1>7, <1>8 DEF Pop

-----------------------------------------------------------------------------
(* A step that only moves the local position and the label of a thread that *)
(* owns no slot before or after it *)

Quiet(t) ==
  /\ ~Accessing(t)
  /\ pos' = [pos EXCEPT ![t] = pos'[t]]
  /\ \E label \in {"load_pos", "load_seq", "cas"} : Goto(t, label)
  /\ UNCHANGED <<head, tail, sequence, data, val, sent, popped, log>>

\* A step that changes only where one thread is outside the slots, and what it has
\* seen there, keeps the invariant.
LEMMA QuietStep ==
  ASSUME Inv, NEW t \in Threads, Quiet(t),
         t \in Producers => Seen(t, tail, pos[t])',
         t \in Consumers => Seen(t, head, pos[t] + 1)'
  PROVE  (Shape /\ ProducerOwns /\ ConsumerOwns /\ Trying /\ Cells)'
<1> USE DEF Quiet, Goto
<1>0. /\ ~Accessing(t) /\ ~Accessing(t)'
      /\ \A u \in Threads : u # t => pc'[u] = pc[u] /\ pos'[u] = pos[u]
      /\ \A u \in Threads : u # t => (Accessing(u)' <=> Accessing(u))
  BY DEF Inv, TypeOK, Accessing
<1>1. Shape'
  BY DEF Inv, Shape
<1>2. ProducerOwns'
  BY <1>0 DEF Inv, ProducerOwns, Threads, Item
<1>3. ConsumerOwns'
  BY <1>0 DEF Inv, ConsumerOwns, Threads
<1>4. Trying'
  BY <1>0, QueueAssumption DEF Inv, Trying, Seen, Threads
<1>5. Cells'
  BY <1>0 DEF Inv, Cells, Free, Ready, Writing, Threads
<1> QED
  BY <1>1, <1>2, <1>3, <1>4, <1>5

\* Every transition of a thread without a slot is quiet, and sees what Seen says.
LEMMA PushQuietStep ==
  ASSUME Inv, NEW p \in Producers,
         \/ PushLoadPos(p) \/ PushReady(p) \/ PushFull(p)
         \/ PushStale(p) \/ PushCasFail(p)
  PROVE  Inv'
<1> p \in Threads /\ p \notin Consumers
  BY QueueAssumption DEF Threads
<1>1. Quiet(p)
  BY DEF Quiet, PushLoadPos, PushReady, PushFull, PushStale, PushCasFail,
         Goto, SetPos, Accessing, Inv, TypeOK
<1>2. Seen(p, tail, pos[p])'
  BY DEF PushLoadPos, PushReady, PushFull, PushStale, PushCasFail,
         Goto, SetPos, Inv, TypeOK, Trying, Seen
<1>3. Push(p)
  BY DEF Push
<1> QED
  BY <1>1, <1>2, <1>3, QuietStep, PushType DEF Inv

\* The same of queue_pop: loading head, reading a sequence, a failed CAS.
LEMMA PopQuietStep ==
  ASSUME Inv, NEW c \in Consumers,
         \/ PopLoadPos(c) \/ PopReady(c) \/ PopEmpty(c)
         \/ PopStale(c) \/ PopCasFail(c)
  PROVE  Inv'
<1> c \in Threads /\ c \notin Producers
  BY QueueAssumption DEF Threads
<1>1. Quiet(c)
  BY DEF Quiet, PopLoadPos, PopReady, PopEmpty, PopStale, PopCasFail,
         Goto, SetPos, Accessing, Inv, TypeOK
<1>2. Seen(c, head, pos[c] + 1)'
  BY DEF PopLoadPos, PopReady, PopEmpty, PopStale, PopCasFail,
         Goto, SetPos, Inv, TypeOK, Trying, Seen
<1>3. Pop(c)
  BY DEF Pop
<1> QED
  BY <1>1, <1>2, <1>3, QuietStep, PopType DEF Inv

-----------------------------------------------------------------------------
(* The steps of a thread that owns, or comes to own, a slot *)

\* The position that a successful CAS of queue_push claims is free: there is room.
LEMMA RoomForClaim ==
  ASSUME Inv, NEW p \in Producers, PushCasOk(p)
  PROVE  tail < head + CAPACITY
<1> USE QueueAssumption
<1>1. head \in Nat /\ tail \in Nat /\ pos[p] \in Nat /\ sequence[Slot(tail)] = tail
  BY DEF PushCasOk, Inv, TypeOK, Trying, Seen, Threads
<1>2. Free(tail)
  BY <1>1 DEF Inv, Cells, Ready, Writing
<1> QED
  BY <1>2 DEF Free

\* The position that a successful CAS of queue_pop claims has been claimed by a push.
LEMMA ItemForClaim ==
  ASSUME Inv, NEW c \in Consumers, PopCasOk(c)
  PROVE  head < tail
<1> USE QueueAssumption
<1>1. head \in Nat /\ tail \in Nat /\ pos[c] \in Nat /\ sequence[Slot(head)] = head + 1
  BY DEF PopCasOk, Inv, TypeOK, Trying, Seen, Threads
<1>2. head = tail => ~Free(tail) /\ ~Ready(tail) /\ ~Writing(tail)
  BY <1>1 DEF Free, Ready, Writing
<1>3. Free(tail) \/ Ready(tail) \/ Writing(tail)
  BY <1>1 DEF Inv, Cells
<1> QED
  BY <1>1, <1>2, <1>3 DEF Inv, Shape

\* queue_push's successful CAS: the claimed position was free, so its slot is
\* nobody's, and it leaves the window of the next lap at one end as the position
\* CAPACITY later enters it at the other.
LEMMA PushCasOkStep ==
  ASSUME Inv, NEW p \in Producers, PushCasOk(p)
  PROVE  Inv'
<1> USE QueueAssumption
<1> /\ p \in Threads /\ p \notin Consumers
    /\ \A q \in Producers : q \in Threads /\ pos[q] \in Nat
    /\ \A c \in Consumers : c \in Threads /\ pos[c] \in Nat
    /\ head \in Nat /\ tail \in Nat
  BY DEF Threads, Inv, TypeOK
<1>1. /\ pos[p] = tail /\ tail' = tail + 1 /\ ~Accessing(p) /\ Accessing(p)'
      /\ sequence[Slot(tail)] = tail
      /\ UNCHANGED <<head, sequence, data, pos, val, sent, popped>>
      /\ \A u \in Threads : u # p => pc'[u] = pc[u] /\ (Accessing(u)' <=> Accessing(u))
  BY DEF PushCasOk, Goto, Accessing, Inv, TypeOK, Trying, Seen
<1>2. /\ Len(log') = tail + 1
      /\ log'[tail + 1] = Item(p)
      /\ \A i \in 1 .. tail : log'[i] = log[i]
  <2>1. Item(p) \in Values /\ log \in Seq(Values) /\ Len(log) = tail
    BY ItemType DEF Inv, TypeOK, Shape
  <2> QED
    BY <2>1 DEF PushCasOk
<1>3. \A k \in Nat : tail = k + CAPACITY => Slot(k) = Slot(tail)
  BY NextLap
<1>4. tail < head + CAPACITY
  BY RoomForClaim
<1>5. Shape'
  BY <1>1, <1>2, <1>4 DEF Inv, Shape
<1>6. ProducerOwns'
  <2> SUFFICES ASSUME NEW q \in Producers, Accessing(q)'
               PROVE  /\ head <= pos[q] /\ pos[q] < tail + 1 /\ tail + 1 <= pos[q] + CAPACITY
                      /\ sequence[Slot(pos[q])] = pos[q]
                      /\ log'[pos[q] + 1] = Item(q)
                      /\ pc'[q] = "publish" => data[Slot(pos[q])] = Item(q)
                      /\ \A r \in Producers : Accessing(r)' /\ pos[r] = pos[q] => r = q
    BY <1>1 DEF ProducerOwns, Item
  <2>1. CASE q = p
    <3>1. \A r \in Producers : r # p /\ Accessing(r)' => pos[r] < tail
      BY <1>1 DEF Inv, ProducerOwns
    <3> QED
      BY <1>1, <1>2, <2>1, <3>1 DEF PushCasOk, Goto, Inv, TypeOK, Shape
  <2>2. CASE q # p
    BY <1>1, <1>2, <1>3, <2>2 DEF Inv, ProducerOwns
  <2> QED
    BY <2>1, <2>2
<1>7. ConsumerOwns'
  <2> SUFFICES ASSUME NEW c \in Consumers, Accessing(c)
               PROVE  /\ pos[c] < head /\ tail + 1 <= pos[c] + CAPACITY
                      /\ sequence[Slot(pos[c])] = pos[c] + 1
                      /\ pc[c] = "access" => data[Slot(pos[c])] = log'[pos[c] + 1]
                      /\ pc[c] = "publish" => val[c] = log'[pos[c] + 1]
                      /\ \A d \in Consumers : Accessing(d) /\ pos[d] = pos[c] => d = c
    BY <1>1 DEF ConsumerOwns
  <2> QED
    BY <1>1, <1>2, <1>3 DEF Inv, ConsumerOwns, Shape
<1>8. Trying'
  BY <1>1 DEF Inv, Trying, Seen, PushCasOk, Goto, TypeOK
<1>9. Cells'
  <2> SUFFICES ASSUME NEW k \in tail + 1 .. tail + CAPACITY
               PROVE  Free(k)' \/ Ready(k)' \/ Writing(k)'
    BY <1>1 DEF Cells
  <2>1. CASE k = tail + CAPACITY
    <3>1. Slot(k) = Slot(tail)
      BY <2>1, NextLap
    <3>2. Writing(k)'
      BY <1>1, <2>1, <3>1 DEF Writing, Inv, Shape
    <3> QED
      BY <3>2
  <2>2. CASE k # tail + CAPACITY
    <3>1. Free(k) \/ Ready(k) \/ Writing(k)
      BY <2>2 DEF Inv, Cells
    <3>2. Free(k) => Free(k)'
      BY <1>1 DEF Free
    <3>3. Ready(k) => Ready(k)'
      BY <1>1, <1>2, <2>2 DEF Ready
    <3>4. Writing(k) => Writing(k)'
      BY <1>1 DEF Writing
    <3> QED
      BY <3>1, <3>2, <3>3, <3>4
  <2> QED
    BY <2>1, <2>2
<1> QED
  BY <1>5, <1>6, <1>7, <1>8, <1>9, PushType DEF Inv, Push

\* Nobody else looks at the slot a producer is writing to.
LEMMA PushWriteStep ==
  ASSUME Inv, NEW p \in Producers, PushWrite(p)
  PROVE  Inv'
<1> USE QueueAssumption
<1> /\ p \in Threads /\ p \notin Consumers
    /\ \A q \in Producers : q \in Threads /\ pos[q] \in Nat
    /\ \A c \in Consumers : c \in Threads /\ pos[c] \in Nat
    /\ head \in Nat /\ tail \in Nat
  BY DEF Threads, Inv, TypeOK
<1>1. /\ Accessing(p) /\ Accessing(p)'
      /\ UNCHANGED <<head, tail, sequence, pos, val, sent, popped, log>>
      /\ \A u \in Threads : u # p => pc'[u] = pc[u]
      /\ \A u \in Threads : Accessing(u)' <=> Accessing(u)
  BY DEF PushWrite, Goto, Accessing, Inv, TypeOK
<1>2. /\ pos[p] < tail /\ tail <= pos[p] + CAPACITY
      /\ sequence[Slot(pos[p])] = pos[p]
  BY <1>1 DEF Inv, ProducerOwns
<1>3. /\ data'[Slot(pos[p])] = Item(p)
      /\ \A i \in Slots : i # Slot(pos[p]) => data'[i] = data[i]
  BY SlotRange DEF PushWrite, Inv, TypeOK
<1>4. \A k \in Nat : k < tail /\ tail <= k + CAPACITY /\ Slot(k) = Slot(pos[p]) => k = pos[p]
  BY <1>2, SameSlot
<1>5. ProducerOwns'
  <2> SUFFICES ASSUME NEW q \in Producers, Accessing(q)
               PROVE  pc'[q] = "publish" => data'[Slot(pos[q])] = Item(q)
    BY <1>1 DEF Inv, ProducerOwns, Item
  <2>1. CASE q = p
    BY <1>3, <2>1
  <2>2. CASE q # p
    <3>1. Slot(pos[q]) # Slot(pos[p])
      BY <1>1, <1>4, <2>2 DEF Inv, ProducerOwns
    <3> QED
      BY <1>1, <1>3, <2>2, <3>1, SlotRange DEF Inv, ProducerOwns
  <2> QED
    BY <2>1, <2>2
<1>6. ConsumerOwns'
  <2> SUFFICES ASSUME NEW c \in Consumers, Accessing(c), pc[c] = "access"
               PROVE  data'[Slot(pos[c])] = data[Slot(pos[c])]
    BY <1>1 DEF Inv, ConsumerOwns
  <2>1. Slot(pos[c]) # Slot(pos[p])
    BY <1>2, <1>4 DEF Inv, ConsumerOwns, Shape
  <2> QED
    BY <1>3, <2>1, SlotRange
<1>7. Trying'
  BY <1>1 DEF Inv, Trying, Seen, PushWrite, Goto, TypeOK
<1>8. Cells'
  <2> SUFFICES ASSUME NEW k \in tail .. tail + CAPACITY - 1
               PROVE  Free(k)' \/ Ready(k)' \/ Writing(k)'
    BY <1>1 DEF Cells
  <2>1. Free(k) \/ Ready(k) \/ Writing(k)
    BY DEF Inv, Cells
  <2>2. Free(k) => Free(k)'
    BY <1>1 DEF Free
  <2>3. ASSUME Ready(k) PROVE Ready(k)'
    <3>1. k - CAPACITY \in Nat /\ k = (k - CAPACITY) + CAPACITY
      BY <2>3 DEF Ready
    <3>2. Slot(k - CAPACITY) = Slot(k)
      BY <3>1, NextLap
    <3>3. Slot(k) # Slot(pos[p])
      BY <1>2, <1>4, <2>3, <3>1, <3>2 DEF Ready
    <3>4. data'[Slot(k)] = data[Slot(k)]
      BY <1>3, <3>3, SlotRange
    <3> QED
      BY <1>1, <2>3, <3>4 DEF Ready
  <2>4. Writing(k) => Writing(k)'
    BY <1>1 DEF Writing
  <2> QED
    BY <2>1, <2>2, <2>3, <2>4
<1> QED
  BY <1>1, <1>5, <1>6, <1>7, <1>8, PushType DEF Inv, Push, Shape

\* queue_push's last store: the slot goes from being written to ready, and the
\* written value with it.
LEMMA PushPublishStep ==
  ASSUME Inv, NEW p \in Producers, PushPublish(p)
  PROVE  Inv'
<1> USE QueueAssumption
<1> /\ p \in Threads /\ p \notin Consumers
    /\ \A q \in Producers : q \in Threads /\ pos[q] \in Nat
    /\ \A c \in Consumers : c \in Threads /\ pos[c] \in Nat
    /\ head \in Nat /\ tail \in Nat
  BY DEF Threads, Inv, TypeOK
<1>1. /\ Accessing(p) /\ ~Accessing(p)'
      /\ UNCHANGED <<head, tail, data, pos, val, popped, log>>
      /\ \A u \in Threads : u # p => pc'[u] = pc[u] /\ (Accessing(u)' <=> Accessing(u))
      /\ \A q \in Producers : q # p => Item(q)' = Item(q)
  BY DEF PushPublish, Goto, Accessing, Item, Inv, TypeOK
<1>2. /\ head <= pos[p] /\ pos[p] < tail /\ tail <= pos[p] + CAPACITY
      /\ sequence[Slot(pos[p])] = pos[p]
      /\ data[Slot(pos[p])] = log[pos[p] + 1]
  BY <1>1 DEF PushPublish, Inv, ProducerOwns
<1>3. /\ sequence'[Slot(pos[p])] = pos[p] + 1
      /\ \A i \in Slots : i # Slot(pos[p]) => sequence'[i] = sequence[i]
      /\ \A i \in Slots : sequence[i] \in Nat /\ sequence'[i] >= sequence[i]
  <2>1. Slot(pos[p]) \in Slots /\ sequence \in [Slots -> Nat]
    BY SlotRange DEF Inv, TypeOK
  <2>2. sequence' = [sequence EXCEPT ![Slot(pos[p])] = pos[p] + 1]
    BY DEF PushPublish
  <2> HIDE DEF Slots, Slot
  <2> QED
    BY <1>2, <2>1, <2>2
<1>4. \A k \in Nat : k < tail /\ tail <= k + CAPACITY /\ Slot(k) = Slot(pos[p]) => k = pos[p]
  BY <1>2, SameSlot
<1>5. ProducerOwns'
  <2> SUFFICES ASSUME NEW q \in Producers, q # p, Accessing(q)
               PROVE  sequence'[Slot(pos[q])] = sequence[Slot(pos[q])]
    BY <1>1 DEF Inv, ProducerOwns
  <2>1. Slot(pos[q]) # Slot(pos[p])
    BY <1>1, <1>4 DEF Inv, ProducerOwns
  <2> QED
    BY <1>3, <2>1, SlotRange
<1>6. ConsumerOwns'
  <2> SUFFICES ASSUME NEW c \in Consumers, Accessing(c)
               PROVE  sequence'[Slot(pos[c])] = sequence[Slot(pos[c])]
    BY <1>1 DEF Inv, ConsumerOwns
  <2>1. Slot(pos[c]) # Slot(pos[p])
    BY <1>2, <1>4 DEF Inv, ConsumerOwns, Shape
  <2> QED
    BY <1>3, <2>1, SlotRange
<1>7. Trying'
  <2>1. Slot(tail) = Slot(pos[p]) => sequence[Slot(tail)] # tail
    BY <1>2
  <2>2. Slot(head) = Slot(pos[p]) => sequence[Slot(head)] # head + 1
    BY <1>2, SameSlot DEF Inv, Shape
  <2>3. ASSUME NEW q \in Producers PROVE Seen(q, tail, pos[q])'
    <3>1. CASE q = p
      BY <3>1 DEF Seen, PushPublish, Goto, Inv, TypeOK
    <3>2. CASE q # p
      <4>1. pc'[q] = pc[q] /\ pos'[q] = pos[q] /\ tail' = tail
        BY <1>1, <3>2
      <4>2. Seen(q, tail, pos[q]) /\ Slot(pos[q]) \in Slots /\ pos[q] \in Nat
        BY SlotRange DEF Inv, Trying
      <4> QED
        BY <1>3, <2>1, <4>1, <4>2 DEF Seen
    <3> QED
      BY <3>1, <3>2
  <2>4. ASSUME NEW c \in Consumers PROVE Seen(c, head, pos[c] + 1)'
    BY <1>1, <1>3, <2>2, <2>4, SlotRange DEF Inv, Trying, Seen
  <2> QED
    BY <2>3, <2>4 DEF Trying
<1>8. Cells'
  <2> SUFFICES ASSUME NEW k \in tail .. tail + CAPACITY - 1
               PROVE  Free(k)' \/ Ready(k)' \/ Writing(k)'
    BY <1>1 DEF Cells
  <2>1. CASE k = pos[p] + CAPACITY
    <3>1. Slot(k) = Slot(pos[p])
      BY <2>1, NextLap
    <3>2. Ready(k)'
      BY <1>1, <1>2, <1>3, <2>1, <3>1 DEF Ready
    <3> QED
      BY <3>2
  <2>2. CASE k # pos[p] + CAPACITY
    <3>1. Free(k) \/ Ready(k) \/ Writing(k)
      BY DEF Inv, Cells
    <3>2. Slot(k) # Slot(pos[p])
      BY <1>2, <2>2, NextLap, SameSlot
    <3>3. sequence'[Slot(k)] = sequence[Slot(k)]
      BY <1>3, <3>2, SlotRange
    <3>4. Free(k) => Free(k)'
      BY <1>1, <3>3 DEF Free
    <3>5. Ready(k) => Ready(k)'
      BY <1>1, <3>3 DEF Ready
    <3>6. Writing(k) => Writing(k)'
      BY <1>1, <2>2, <3>3 DEF Writing
    <3> QED
      BY <3>1, <3>4, <3>5, <3>6
  <2> QED
    BY <2>1, <2>2
<1> QED
  BY <1>1, <1>5, <1>6, <1>7, <1>8, PushType DEF Inv, Push, Shape

\* queue_pop's successful CAS: the claimed position was published, so its producer
\* is gone, and its slot is the consumer's until it is released.
LEMMA PopCasOkStep ==
  ASSUME Inv, NEW c \in Consumers, PopCasOk(c)
  PROVE  Inv'
<1> USE QueueAssumption
<1> /\ c \in Threads /\ c \notin Producers
    /\ \A q \in Producers : q \in Threads /\ pos[q] \in Nat
    /\ \A d \in Consumers : d \in Threads /\ pos[d] \in Nat
    /\ head \in Nat /\ tail \in Nat
  BY DEF Threads, Inv, TypeOK
<1>1. /\ pos[c] = head /\ head' = head + 1 /\ ~Accessing(c) /\ Accessing(c)'
      /\ pc'[c] = "access"
      /\ sequence[Slot(head)] = head + 1
      /\ UNCHANGED <<tail, sequence, data, pos, val, sent, popped, log>>
      /\ \A u \in Threads : u # c => pc'[u] = pc[u] /\ (Accessing(u)' <=> Accessing(u))
  BY DEF PopCasOk, Goto, Accessing, Inv, TypeOK, Trying, Seen
<1>2. head < tail
  BY ItemForClaim
<1>3. \A k \in Nat : k - CAPACITY = head => Slot(k) = Slot(head)
  BY NextLap
<1>4. Shape'
  BY <1>1, <1>2 DEF Inv, Shape
<1>5. ProducerOwns'
  BY <1>1 DEF Inv, ProducerOwns, Item
<1>6. ConsumerOwns'
  <2>1. data[Slot(head)] = log[head + 1]
    <3> DEFINE k == head + CAPACITY
    <3>1. Slot(k) = Slot(head)
      BY NextLap
    <3>2. Free(k) \/ Ready(k) \/ Writing(k)
      BY <1>2 DEF Inv, Cells, Shape
    <3>3. ~Free(k) /\ ~Writing(k)
      BY <1>1, <3>1 DEF Free, Writing
    <3>4. Ready(k)
      BY <3>2, <3>3
    <3> QED
      BY <3>1, <3>4 DEF Ready
  <2> SUFFICES ASSUME NEW d \in Consumers, Accessing(d)'
               PROVE  /\ pos[d] < head + 1 /\ tail <= pos[d] + CAPACITY
                      /\ sequence[Slot(pos[d])] = pos[d] + 1
                      /\ pc'[d] = "access" => data[Slot(pos[d])] = log[pos[d] + 1]
                      /\ pc'[d] = "publish" => val[d] = log[pos[d] + 1]
                      /\ \A e \in Consumers : Accessing(e)' /\ pos[e] = pos[d] => e = d
    BY <1>1 DEF ConsumerOwns
  <2>2. \A e \in Consumers : e # c /\ Accessing(e)' => pos[e] < head
    BY <1>1 DEF Inv, ConsumerOwns
  <2>3. CASE d = c
    BY <1>1, <1>2, <2>1, <2>2, <2>3 DEF Inv, Shape
  <2>4. CASE d # c
    BY <1>1, <2>2, <2>4 DEF Inv, ConsumerOwns
  <2> QED
    BY <2>3, <2>4
<1>7. Trying'
  BY <1>1 DEF Inv, Trying, Seen, PopCasOk, Goto, TypeOK
<1>8. Cells'
  <2> SUFFICES ASSUME NEW k \in tail .. tail + CAPACITY - 1
               PROVE  Free(k)' \/ Ready(k)' \/ Writing(k)'
    BY <1>1 DEF Cells
  <2>1. Free(k) \/ Ready(k) \/ Writing(k)
    BY DEF Inv, Cells
  <2>2. Free(k) => Free(k)'
    BY <1>1 DEF Free
  <2>3. Ready(k) => Ready(k)'
    BY <1>1 DEF Ready
  <2>4. Writing(k) => Writing(k)'
    BY <1>1, <1>3 DEF Writing
  <2> QED
    BY <2>1, <2>2, <2>3, <2>4
<1> QED
  BY <1>4, <1>5, <1>6, <1>7, <1>8, PopType DEF Inv, Pop

\* Nobody writes to the slot a consumer reads from.
LEMMA PopReadStep ==
  ASSUME Inv, NEW c \in Consumers, PopRead(c)
  PROVE  Inv'
<1> c \in Threads /\ c \notin Producers
  BY QueueAssumption DEF Threads
<1>1. /\ Accessing(c) /\ pc[c] = "access" /\ pc'[c] = "publish"
      /\ val'[c] = data[Slot(pos[c])]
      /\ UNCHANGED <<head, tail, sequence, data, pos, sent, popped, log>>
      /\ \A u \in Threads : u # c => pc'[u] = pc[u]
      /\ \A d \in Consumers : d # c => val'[d] = val[d]
      /\ \A u \in Threads : Accessing(u)' <=> Accessing(u)
  BY DEF PopRead, Goto, Accessing, Inv, TypeOK
<1>2. Shape'
  BY <1>1 DEF Inv, Shape
<1>3. ProducerOwns'
  BY <1>1 DEF Inv, ProducerOwns, Item, Threads
<1>4. ConsumerOwns'
  BY <1>1 DEF Inv, ConsumerOwns, Threads
<1>5. Trying'
  BY <1>1 DEF Inv, Trying, Seen, Threads
<1>6. Cells'
  BY <1>1 DEF Inv, Cells, Free, Ready, Writing, Threads
<1> QED
  BY <1>2, <1>3, <1>4, <1>5, <1>6, PopType DEF Inv, Pop

\* queue_pop's last store: the slot becomes free for the position CAPACITY later.
LEMMA PopReleaseStep ==
  ASSUME Inv, NEW c \in Consumers, PopRelease(c)
  PROVE  Inv'
<1> USE QueueAssumption
<1> /\ c \in Threads /\ c \notin Producers
    /\ \A q \in Producers : q \in Threads /\ pos[q] \in Nat
    /\ \A d \in Consumers : d \in Threads /\ pos[d] \in Nat
    /\ head \in Nat /\ tail \in Nat
  BY DEF Threads, Inv, TypeOK
<1>1. /\ Accessing(c) /\ ~Accessing(c)'
      /\ UNCHANGED <<head, tail, data, pos, val, sent, log>>
      /\ \A u \in Threads : u # c => pc'[u] = pc[u] /\ (Accessing(u)' <=> Accessing(u))
  BY DEF PopRelease, Goto, Accessing, Inv, TypeOK
<1>2. /\ pos[c] < head /\ head <= tail /\ tail <= pos[c] + CAPACITY
      /\ sequence[Slot(pos[c])] = pos[c] + 1
  BY <1>1 DEF Inv, ConsumerOwns, Shape
<1>3. /\ sequence'[Slot(pos[c])] = pos[c] + CAPACITY
      /\ \A i \in Slots : i # Slot(pos[c]) => sequence'[i] = sequence[i]
      /\ \A i \in Slots : sequence[i] \in Nat /\ sequence'[i] >= sequence[i]
  <2>1. Slot(pos[c]) \in Slots /\ sequence \in [Slots -> Nat]
    BY SlotRange DEF Inv, TypeOK
  <2>2. sequence' = [sequence EXCEPT ![Slot(pos[c])] = pos[c] + CAPACITY]
    BY DEF PopRelease
  <2> HIDE DEF Slots, Slot
  <2> QED
    BY <1>2, <2>1, <2>2
<1>4. \A k \in Nat : k < tail /\ tail <= k + CAPACITY /\ Slot(k) = Slot(pos[c]) => k = pos[c]
  BY <1>2, SameSlot
<1>5. ProducerOwns'
  <2> SUFFICES ASSUME NEW q \in Producers, Accessing(q)
               PROVE  sequence'[Slot(pos[q])] = sequence[Slot(pos[q])]
    BY <1>1 DEF Inv, ProducerOwns, Item
  <2>1. Slot(pos[q]) # Slot(pos[c])
    BY <1>2, <1>4 DEF Inv, ProducerOwns
  <2> QED
    BY <1>3, <2>1, SlotRange
<1>6. ConsumerOwns'
  <2> SUFFICES ASSUME NEW d \in Consumers, d # c, Accessing(d)
               PROVE  sequence'[Slot(pos[d])] = sequence[Slot(pos[d])]
    BY <1>1 DEF Inv, ConsumerOwns
  <2>1. Slot(pos[d]) # Slot(pos[c])
    BY <1>1, <1>2, <1>4 DEF Inv, ConsumerOwns
  <2> QED
    BY <1>3, <2>1, SlotRange
<1>7. Trying'
  <2>1. Slot(tail) = Slot(pos[c]) => sequence[Slot(tail)] # tail
    BY <1>2, SameSlot, NextLap
  <2>2. Slot(head) = Slot(pos[c]) => sequence[Slot(head)] # head + 1
    BY <1>2
  <2>3. ASSUME NEW q \in Producers PROVE Seen(q, tail, pos[q])'
    <3>1. pc'[q] = pc[q] /\ pos'[q] = pos[q] /\ tail' = tail
      BY <1>1
    <3>2. Seen(q, tail, pos[q]) /\ Slot(pos[q]) \in Slots /\ pos[q] \in Nat
      BY SlotRange DEF Inv, Trying
    <3> QED
      BY <1>3, <2>1, <3>1, <3>2 DEF Seen
  <2>4. ASSUME NEW d \in Consumers PROVE Seen(d, head, pos[d] + 1)'
    <3>1. CASE d = c
      BY <3>1 DEF Seen, PopRelease, Goto, Inv, TypeOK
    <3>2. CASE d # c
      <4>1. pc'[d] = pc[d] /\ pos'[d] = pos[d] /\ head' = head
        BY <1>1, <3>2
      <4>2. Seen(d, head, pos[d] + 1) /\ Slot(pos[d]) \in Slots /\ pos[d] \in Nat
        BY SlotRange DEF Inv, Trying
      <4> QED
        BY <1>3, <2>2, <4>1, <4>2 DEF Seen
    <3> QED
      BY <3>1, <3>2
  <2> QED
    BY <2>3, <2>4 DEF Trying
<1>8. Cells'
  <2> SUFFICES ASSUME NEW k \in tail .. tail + CAPACITY - 1
               PROVE  Free(k)' \/ Ready(k)' \/ Writing(k)'
    BY <1>1 DEF Cells
  <2>1. CASE k = pos[c] + CAPACITY
    <3>1. Slot(k) = Slot(pos[c])
      BY <2>1, NextLap
    <3>2. Free(k)'
      BY <1>1, <1>2, <1>3, <2>1, <3>1 DEF Free
    <3> QED
      BY <3>2
  <2>2. CASE k # pos[c] + CAPACITY
    <3>1. Free(k) \/ Ready(k) \/ Writing(k)
      BY DEF Inv, Cells
    <3>2. Slot(k) # Slot(pos[c])
      BY <1>2, <2>2, NextLap, SameSlot
    <3>3. sequence'[Slot(k)] = sequence[Slot(k)]
      BY <1>3, <3>2, SlotRange
    <3>4. Free(k) => Free(k)'
      BY <1>1, <3>3 DEF Free
    <3>5. Ready(k) => Ready(k)'
      BY <1>1, <2>2, <3>3 DEF Ready
    <3>6. Writing(k) => Writing(k)'
      BY <1>1, <3>3 DEF Writing
    <3> QED
      BY <3>1, <3>4, <3>5, <3>6
  <2> QED
    BY <2>1, <2>2
<1> QED
  BY <1>1, <1>5, <1>6, <1>7, <1>8, PopType DEF Inv, Pop, Shape

-----------------------------------------------------------------------------
(* The invariant *)

\* initialize sets the queue up as the invariant says: slot i is free for position i.
LEMMA InitInv == Init => Inv
<1> SUFFICES ASSUME Init PROVE Inv
  OBVIOUS
<1> USE QueueAssumption DEF Init
<1>1. TypeOK
  BY DEF TypeOK, Slots
<1>2. Shape /\ Running
  BY DEF Shape, Running, Threads
<1>3. ProducerOwns /\ ConsumerOwns
  BY DEF ProducerOwns, ConsumerOwns, Accessing, Threads
<1>4. Trying
  BY DEF Trying, Seen, Threads
<1>5. Cells
  <2> SUFFICES ASSUME NEW k \in 0 .. CAPACITY - 1 PROVE sequence[Slot(k)] = k
    BY DEF Cells, Free
  <2>1. Slot(k) \in Slots /\ sequence[Slot(k)] = Slot(k)
    BY SlotRange
  <2>2. Slot(k) = k
    BY DEF Slot
  <2> QED
    BY <2>1, <2>2
<1> QED
  BY <1>1, <1>2, <1>3, <1>4, <1>5 DEF Inv

\* No step of queue_push or queue_pop, of any thread, breaks the invariant.
LEMMA InvStep == Inv /\ [Next]_vars => Inv'
<1> SUFFICES ASSUME Inv, [Next]_vars PROVE Inv'
  OBVIOUS
<1>1. ASSUME NEW p \in Producers, Push(p) PROVE Inv'
  BY <1>1, PushQuietStep, PushCasOkStep, PushWriteStep, PushPublishStep DEF Push
<1>2. ASSUME NEW c \in Consumers, Pop(c) PROVE Inv'
  BY <1>2, PopQuietStep, PopCasOkStep, PopReadStep, PopReleaseStep DEF Pop
<1>3. CASE UNCHANGED vars
  <2> USE <1>3 DEF vars, Inv
  <2>1. TypeOK' /\ Shape' /\ Running'
    BY DEF TypeOK, Shape, Running
  <2>2. ProducerOwns' /\ ConsumerOwns'
    BY DEF ProducerOwns, ConsumerOwns, Accessing, Item
  <2>3. Trying'
    BY DEF Trying, Seen
  <2>4. Cells'
    BY DEF Cells, Free, Ready, Writing, Accessing
  <2> QED
    BY <2>1, <2>2, <2>3, <2>4
<1> QED
  BY <1>1, <1>2, <1>3 DEF Next

\* The invariant holds in every state of the queue, however its threads interleave.
THEOREM Invariance == Spec => []Inv
BY InitInv, InvStep, PTL DEF Spec

-----------------------------------------------------------------------------
(* What the invariant gives *)

\* The variables keep their types; sent never passes the harness's loop bound.
THEOREM TypeCorrect == Spec => []TypeOK
BY Invariance, PTL DEF Inv

\* The plain accesses of queue_push and queue_pop to slot->data never race.
THEOREM SlotsExclusive == Spec => []SlotExclusive
<1>1. Inv => SlotExclusive
  <2> SUFFICES ASSUME Inv, NEW t \in Threads, NEW u \in Threads, t # u,
                      Accessing(t), Accessing(u), Slot(pos[t]) = Slot(pos[u])
               PROVE  FALSE
    BY DEF SlotExclusive
  <2>1. \A v \in Threads : Accessing(v) =>
          pos[v] \in Nat /\ pos[v] < tail /\ tail <= pos[v] + CAPACITY
    BY QueueAssumption DEF Inv, TypeOK, Shape, ProducerOwns, ConsumerOwns, Threads
  <2>2. pos[t] = pos[u]
    BY <2>1, SameSlot, QueueAssumption DEF Inv, TypeOK
  <2> QED
    BY <2>1, <2>2 DEF Inv, ProducerOwns, ConsumerOwns, Threads
<1> QED
  BY <1>1, Invariance, PTL

\* queue_pop hands out the value whose push claimed the same position.
THEOREM ReadsArePushed == Spec => []ReadsWhatWasPushed
<1>1. Inv => ReadsWhatWasPushed
  BY DEF ReadsWhatWasPushed, Inv, TypeOK, Shape, ConsumerOwns, Accessing, Threads
<1> QED
  BY <1>1, Invariance, PTL

\* queue_push reports "full" only when the slot it needs is still taken.
THEOREM FullIsFull == Spec => FullMeansFull
<1> DEFINE Justified(p) ==
      LET k == pos[p] - CAPACITY
      IN  \/ head <= k /\ k < tail
          \/ \E c \in Consumers : Accessing(c) /\ pos[c] = k
<1>1. ASSUME Inv, NEW p \in Producers, PushFull(p) PROVE Justified(p)
  <2>0. pos[p] \in Nat /\ tail \in Nat /\ sequence[Slot(pos[p])] \in Nat
    BY <1>1, SlotRange DEF Inv, TypeOK, Threads
  <2>1. pos[p] = tail /\ sequence[Slot(tail)] < tail
    BY <1>1, <2>0 DEF PushFull, Inv, Trying, Seen
  <2>2. Free(tail) \/ Ready(tail) \/ Writing(tail)
    BY <1>1, <2>0, QueueAssumption DEF Inv, Cells
  <2>3. ~Free(tail)
    BY <2>0, <2>1 DEF Free
  <2> QED
    BY <2>0, <2>1, <2>2, <2>3, QueueAssumption DEF Ready, Writing
<1>2. Inv => (\A p \in Producers : PushFull(p) => Justified(p))
  BY <1>1
<1>3. Inv /\ [Next]_vars => [\A p \in Producers : PushFull(p) => Justified(p)]_vars
  BY <1>2
<1>4. Spec => [][\A p \in Producers : PushFull(p) => Justified(p)]_vars
  BY <1>3, Invariance, PTL DEF Spec
<1> QED
  BY <1>4 DEF FullMeansFull

\* queue_pop reports "empty" only when nothing is there, or the oldest value is
\* still being written.
THEOREM EmptyIsEmpty == Spec => EmptyMeansEmpty
<1> DEFINE Justified(c) ==
      \/ head = tail
      \/ \E p \in Producers : Accessing(p) /\ pos[p] = head
<1>1. ASSUME Inv, NEW c \in Consumers, PopEmpty(c), head # tail
      PROVE  \E p \in Producers : Accessing(p) /\ pos[p] = head
  <2>0. /\ pos[c] \in Nat /\ head \in Nat /\ tail \in Nat /\ head < tail
        /\ sequence[Slot(pos[c])] \in Nat
    BY <1>1, SlotRange DEF Inv, TypeOK, Shape, Threads
  <2>1. pos[c] = head /\ sequence[Slot(head)] < head + 1
    BY <1>1, <2>0 DEF PopEmpty, Inv, Trying, Seen
  <2> DEFINE k == head + CAPACITY
  <2>2. k \in tail .. tail + CAPACITY - 1
    BY <1>1, <2>0, QueueAssumption DEF Inv, Shape
  <2>3. Slot(k) = Slot(head)
    BY <2>0, NextLap
  <2>4. Writing(k)
    BY <1>1, <2>0, <2>1, <2>2, <2>3, QueueAssumption DEF Inv, Cells, Free, Ready
  <2> QED
    BY <2>0, <2>4, QueueAssumption DEF Writing
<1>2. Inv => (\A c \in Consumers : PopEmpty(c) => Justified(c))
  BY <1>1
<1>3. Inv /\ [Next]_vars => [\A c \in Consumers : PopEmpty(c) => Justified(c)]_vars
  BY <1>2
<1>4. Spec => [][\A c \in Consumers : PopEmpty(c) => Justified(c)]_vars
  BY <1>3, Invariance, PTL DEF Spec
<1> QED
  BY <1>4 DEF EmptyMeansEmpty

\* Neither "full" nor "empty" is ever reported wrongly.
THEOREM AnswersRight == Spec => AnswersAreRight
BY FullIsFull, EmptyIsEmpty DEF AnswersAreRight

-----------------------------------------------------------------------------
(* The queue implements the bounded FIFO: it holds the logged values of the *)
(* positions head .. tail - 1                                               *)

\* What SubSeq(s, m + 1, n), the part of s between positions m and n, looks like.
LEMMA Window ==
  ASSUME NEW S, NEW s \in Seq(S), NEW m \in Nat, NEW n \in Nat, m <= n, n <= Len(s)
  PROVE  /\ SubSeq(s, m + 1, n) \in Seq(S)
         /\ Len(SubSeq(s, m + 1, n)) = n - m
         /\ \A i \in 1 .. n - m : SubSeq(s, m + 1, n)[i] = s[m + i]
<1>1. \A i \in m + 1 .. n : s[i] \in S
  BY ElementOfSeq
<1> QED
  BY <1>1, SubSeqProperties

\* Logging a value at the position n appends it to every window that ends there.
LEMMA WindowGrows ==
  ASSUME NEW S, NEW s \in Seq(S), NEW v \in S, NEW m \in Nat, m <= Len(s)
  PROVE  SubSeq(Append(s, v), m + 1, Len(s) + 1) = Append(SubSeq(s, m + 1, Len(s)), v)
<1> DEFINE n == Len(s)
           t == Append(s, v)
           w == SubSeq(s, m + 1, n)
           x == SubSeq(t, m + 1, n + 1)
<1>1. n \in Nat /\ t \in Seq(S) /\ Len(t) = n + 1 /\ t[n + 1] = v
      /\ \A i \in 1 .. n : t[i] = s[i]
  BY AppendProperties, LenProperties
<1>2. w \in Seq(S) /\ Len(w) = n - m /\ \A i \in 1 .. n - m : w[i] = s[m + i]
  BY <1>1, Window
<1>3. /\ x \in Seq(S) /\ Len(x) = (n + 1) - m
      /\ \A i \in 1 .. (n + 1) - m : x[i] = t[m + i]
  BY <1>1, Window
<1> HIDE DEF n, t, w, x
<1>4. /\ Append(w, v) \in Seq(S) /\ Len(Append(w, v)) = (n - m) + 1
      /\ Append(w, v)[(n - m) + 1] = v
      /\ \A i \in 1 .. n - m : Append(w, v)[i] = w[i]
  BY <1>2, AppendProperties
<1>5. ASSUME NEW i \in 1 .. Len(x) PROVE x[i] = Append(w, v)[i]
  <2>1. CASE i = (n - m) + 1
    <3>1. m + i = n + 1 /\ i \in 1 .. (n + 1) - m
      BY <1>1, <1>3, <2>1
    <3> QED
      BY <1>1, <1>3, <1>4, <2>1, <3>1
  <2>2. CASE i \in 1 .. n - m
    <3>1. m + i \in 1 .. n
      BY <1>1, <2>2
    <3> QED
      BY <1>1, <1>2, <1>3, <1>4, <2>2, <3>1
  <2>3. n \in Nat /\ Len(x) = (n + 1) - m
    BY <1>1, <1>3
  <2>4. i = (n - m) + 1 \/ i \in 1 .. n - m
    BY <2>3
  <2> QED
    BY <2>1, <2>2, <2>4
<1>6. Len(x) = Len(Append(w, v))
  BY <1>1, <1>3, <1>4
<1>7. x = Append(w, v)
  BY <1>3, <1>4, <1>5, <1>6, SeqEqual
<1> QED
  BY <1>7 DEF n, t, w, x

\* Claiming the oldest position takes the head off the window.
LEMMA WindowShrinks ==
  ASSUME NEW S, NEW s \in Seq(S), NEW m \in Nat, NEW n \in Nat, m < n, n <= Len(s)
  PROVE  /\ SubSeq(s, m + 1, n) # <<>>
         /\ Head(SubSeq(s, m + 1, n)) = s[m + 1]
         /\ SubSeq(s, m + 2, n) = Tail(SubSeq(s, m + 1, n))
<1> m + 1 \in 1 .. Len(s) /\ n \in m + 1 .. Len(s)
  BY LenProperties
<1>1. SubSeq(s, m + 1, n) # <<>>
  BY Window, EmptySeq
<1> QED
  BY <1>1, HeadTailOfSubSeq

Items  == SubSeq(log, head + 1, tail)
Claims == [c \in Consumers |-> Claimed(c)]

\* The FIFO starts empty, with nothing claimed.
LEMMA RefinesInit == Init => Abstract!Init
<1> SUFFICES ASSUME Init PROVE Abstract!Init
  OBVIOUS
<1>1. Items = <<>>
  BY SubSeqEmpty DEF Init, Items
<1>2. Claims = [c \in Consumers |-> None]
  BY DEF Init, Claims, Claimed, Accessing, Threads
<1> QED
  BY <1>1, <1>2 DEF Init, Abstract!Init, Items, Claims

\* queue_push's successful CAS enqueues: there is room, and the value is logged
\* behind the others.
LEMMA PushCasOkEnqueues ==
  ASSUME Inv, NEW p \in Producers, PushCasOk(p)
  PROVE  Item(p) \in Producers \X (0 .. ItemsPerThread - 1) /\ Abstract!Enq(Item(p))
<1> USE QueueAssumption
<1>1. /\ p \in Threads /\ p \notin Consumers
      /\ head \in Nat /\ tail \in Nat /\ log \in Seq(Values) /\ Len(log) = tail
      /\ head <= tail /\ Item(p) \in Values
  BY ItemType DEF Threads, Inv, TypeOK, Shape
<1>2. /\ tail' = tail + 1 /\ log' = Append(log, Item(p)) /\ head' = head
      /\ popped' = popped /\ pos' = pos
      /\ \A c \in Consumers : Accessing(c)' <=> Accessing(c)
  BY <1>1 DEF PushCasOk, Goto, Accessing, Inv, TypeOK, Trying, Seen, Threads
<1>3. Item(p) \in Producers \X (0 .. ItemsPerThread - 1)
  <2>1. sent[p] \in 0 .. ItemsPerThread /\ sent[p] < ItemsPerThread
    BY DEF PushCasOk, Inv, TypeOK, Running
  <2>2. sent[p] \in 0 .. ItemsPerThread - 1
    BY <2>1
  <2> QED
    BY <2>2 DEF Item
<1>4. tail < head + CAPACITY
  BY RoomForClaim
<1>5. Len(Items) < CAPACITY
  <2>1. Len(Items) = tail - head
    BY <1>1, Window DEF Items
  <2> QED
    BY <1>1, <1>4, <2>1
<1>6. Items' = Append(Items, Item(p))
  BY <1>1, <1>2, WindowGrows DEF Items
<1>7. Claims' = Claims
  <2>1. ASSUME NEW c \in Consumers, Accessing(c) PROVE log'[pos[c] + 1] = log[pos[c] + 1]
    <3>1. pos[c] + 1 \in 1 .. Len(log)
      BY <1>1, <2>1 DEF Inv, TypeOK, ConsumerOwns, Threads
    <3> QED
      BY <1>1, <1>2, <3>1, AppendProperties
  <2>2. \A c \in Consumers : Claimed(c)' = Claimed(c)
    BY <1>2, <2>1 DEF Claimed
  <2> QED
    BY <2>2 DEF Claims
<1> QED
  BY <1>2, <1>3, <1>5, <1>6, <1>7 DEF Abstract!Enq, Items, Claims

\* queue_pop's successful CAS dequeues: the queue is not empty, and the position
\* claimed is the oldest one.
LEMMA PopCasOkDequeues ==
  ASSUME Inv, NEW c \in Consumers, PopCasOk(c)
  PROVE  Abstract!Deq(c)
<1> USE QueueAssumption
<1>1. /\ c \in Threads /\ c \notin Producers
      /\ head \in Nat /\ tail \in Nat /\ log \in Seq(Values) /\ Len(log) = tail
  BY DEF Threads, Inv, TypeOK, Shape
<1>2. /\ pos[c] = head /\ head' = head + 1 /\ tail' = tail /\ log' = log
      /\ popped' = popped /\ pos' = pos /\ ~Accessing(c) /\ Accessing(c)'
      /\ \A d \in Consumers : d # c => (Accessing(d)' <=> Accessing(d))
  BY <1>1 DEF PopCasOk, Goto, Accessing, Inv, TypeOK, Threads
<1>3. head < tail
  BY ItemForClaim
<1>4. /\ Items # <<>> /\ Head(Items) = log[head + 1]
      /\ Items' = Tail(Items)
  <2>1. Items' = SubSeq(log, head + 2, tail)
    BY <1>1, <1>2 DEF Items
  <2>2. tail <= Len(log)
    BY <1>1
  <2>3. /\ Items # <<>> /\ Head(Items) = log[head + 1]
        /\ SubSeq(log, head + 2, tail) = Tail(Items)
    BY <1>1, <1>3, <2>2, WindowShrinks DEF Items
  <2> QED
    BY <2>1, <2>3
<1>5. Claims[c] = None /\ Claims' = [Claims EXCEPT ![c] = Head(Items)]
  BY <1>2, <1>4 DEF Claims, Claimed
<1> QED
  BY <1>2, <1>4, <1>5 DEF Abstract!Deq, Items, Claims

\* queue_pop's return hands out the value of the claimed position.
LEMMA PopReleaseReturns ==
  ASSUME Inv, NEW c \in Consumers, PopRelease(c)
  PROVE  Abstract!Return(c)
<1> USE QueueAssumption
<1>1. /\ c \in Threads /\ log \in Seq(Values) /\ Len(log) = tail /\ head <= tail
      /\ head \in Nat /\ tail \in Nat /\ pos[c] \in Nat
  BY DEF Threads, Inv, TypeOK, Shape
<1>2. /\ head' = head /\ tail' = tail /\ log' = log /\ pos' = pos
      /\ popped' = [popped EXCEPT ![c] = Append(@, val[c])]
      /\ Accessing(c) /\ ~Accessing(c)'
      /\ \A d \in Consumers : d # c => (Accessing(d)' <=> Accessing(d))
  BY <1>1 DEF PopRelease, Goto, Accessing, Inv, TypeOK, Threads
<1>3. pos[c] < head /\ val[c] = log[pos[c] + 1]
  BY <1>2 DEF PopRelease, Inv, ConsumerOwns
<1>4. Claims[c] = val[c] /\ val[c] # None
  <2>1. log[pos[c] + 1] \in Values
    BY <1>1, <1>3, ElementOfSeq
  <2> QED
    BY <1>2, <1>3, <2>1 DEF Claims, Claimed, Values
<1>5. Claims' = [Claims EXCEPT ![c] = None]
  BY <1>2 DEF Claims, Claimed
<1>6. Items' = Items
  BY <1>2 DEF Items
<1> QED
  BY <1>2, <1>4, <1>5, <1>6 DEF Abstract!Return, Items, Claims

\* All other steps, of either call, leave the FIFO alone.
LEMMA OthersStutter ==
  ASSUME Inv,
         \/ \E p \in Producers : Push(p) /\ ~PushCasOk(p)
         \/ \E c \in Consumers : Pop(c) /\ ~PopCasOk(c) /\ ~PopRelease(c)
         \/ UNCHANGED vars
  PROVE  UNCHANGED Abstract!vars
<1> USE QueueAssumption
<1>1. /\ UNCHANGED <<head, tail, log, popped>>
      /\ \A c \in Consumers : /\ Accessing(c)' <=> Accessing(c)
                              /\ Accessing(c) => pos'[c] = pos[c]
  <2>1. ASSUME NEW p \in Producers, Push(p), ~PushCasOk(p)
        PROVE  /\ UNCHANGED <<head, tail, log, popped>>
               /\ \A c \in Consumers : pc'[c] = pc[c] /\ pos'[c] = pos[c]
    <3> \A c \in Consumers : c \in Threads /\ c # p
      BY DEF Threads
    <3> QED
      BY <2>1 DEF Push, PushLoadPos, PushReady, PushFull, PushStale, PushCasFail,
         PushWrite, PushPublish, Goto, SetPos, Inv, TypeOK
  <2>2. ASSUME NEW c \in Consumers, Pop(c), ~PopCasOk(c), ~PopRelease(c)
        PROVE  /\ UNCHANGED <<head, tail, log, popped>>
               /\ \A d \in Consumers : /\ Accessing(d)' <=> Accessing(d)
                                       /\ Accessing(d) => pos'[d] = pos[d]
    <3> \A d \in Consumers : d \in Threads
      BY DEF Threads
    <3> QED
      BY <2>2 DEF Pop, PopLoadPos, PopReady, PopEmpty, PopStale, PopCasFail, PopRead,
         Goto, SetPos, Accessing, Inv, TypeOK
  <2> QED
    BY <2>1, <2>2 DEF vars, Accessing
<1>2. Claims' = Claims
  <2>1. ASSUME NEW c \in Consumers PROVE Claimed(c)' = Claimed(c)
    <3>1. log' = log /\ (Accessing(c)' <=> Accessing(c)) /\ (Accessing(c) => pos'[c] = pos[c])
      BY <1>1, <2>1
    <3> QED
      BY <3>1 DEF Claimed, Accessing
  <2> QED
    BY <2>1 DEF Claims
<1> QED
  BY <1>1, <1>2 DEF Abstract!vars, Items, Claims

\* The queue is linearizable: for any number of threads it is a bounded FIFO whose
\* operations take effect at the two successful CASes.
THEOREM IsBoundedQueue == Spec => ImplementsBoundedQueue
<1>1. Init => Abstract!Init
  BY RefinesInit
<1>2. Inv /\ [Next]_vars => [Abstract!Next]_(Abstract!vars)
  <2> SUFFICES ASSUME Inv, [Next]_vars
               PROVE  Abstract!Next \/ UNCHANGED Abstract!vars
    OBVIOUS
  <2>1. ASSUME NEW p \in Producers, PushCasOk(p) PROVE Abstract!Next
    BY <2>1, PushCasOkEnqueues DEF Abstract!Next
  <2>2. ASSUME NEW c \in Consumers, PopCasOk(c) \/ PopRelease(c) PROVE Abstract!Next
    BY <2>2, PopCasOkDequeues, PopReleaseReturns DEF Abstract!Next
  <2> QED
    BY <2>1, <2>2, OthersStutter DEF Next
<1> QED
  BY <1>1, <1>2, Invariance, PTL DEF Spec, ImplementsBoundedQueue, Abstract!Spec
=============================================================================
