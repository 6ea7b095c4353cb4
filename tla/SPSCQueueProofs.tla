-------------------------- MODULE SPSCQueueProofs ---------------------------
(***************************************************************************)
(* For every power-of-two ring, every width of the indices and every seed: *)
(* the wrapping difference of the indices is the exact number of elements, *)
(* the threads never touch the same slot, pop number i returns i, and the  *)
(* ring is a bounded FIFO.                                                 *)
(*                                                                         *)
(* The argument: the indices are the numbers of pushes and pops, counted   *)
(* from SEED and reduced modulo IndexModulus (Shape).  CAPACITY divides    *)
(* the modulus, so the reduction changes neither the slot of a position    *)
(* (WrapSlot) nor, since at most CAPACITY elements are held, the           *)
(* difference of two indices (HeldIsDifference).  The slots of the held    *)
(* positions therefore contain what was pushed there (Contents).           *)
(*                                                                         *)
(* The same argument, on reduced indices, for the queue of Day 11 in C++   *)
(* (WrappedInv), and for the audio players of Day 22 (AudioInv).           *)
(***************************************************************************)
EXTENDS MCSPSCQueue, RingArithmetic, SequenceTheorems, FiniteSetTheorems, TLAPS

\* The positions of the next pop and of the next push, without the wrap.
PopPos  == SEED + Len(received)
PushPos == SEED + pushed

\* The indices are the reduced positions, and the positions are at most CAPACITY
\* apart; a producer past its check has a slot, a consumer past its check an item.
Shape ==
  /\ head = PopPos % IndexModulus
  /\ tail = PushPos % IndexModulus
  /\ Len(received) <= pushed /\ pushed <= Len(received) + CAPACITY
  /\ producer # "check" => pushed < Len(received) + CAPACITY /\ pushed < NUM_OPS
  /\ consumer # "check" => Len(received) < pushed

\* The ring holds the value k: published, or written and about to be.
Stored(k) == k < pushed \/ (k = pushed /\ producer = "publish")

Contents ==
  \A k \in Len(received) .. pushed : Stored(k) => data[Slot(SEED + k)] = k

\* What the consumer has read is the next value in order.
ReadInOrder == consumer = "release" => val = Len(received)

Inv == TypeOK /\ Shape /\ Contents /\ ReadInOrder /\ ReceivesInOrder

-----------------------------------------------------------------------------
(* Positions, indices and slots *)

\* Both moduli are positive, and every position has a slot.
LEMMA Ring ==
  /\ CAPACITY \in Nat \ {0} /\ IndexModulus \in Nat \ {0} /\ SEED \in Nat
  /\ \A a \in Nat : Slot(a) \in Slots
BY RingAssumption DEF Slot, Slots

\* An index & MASK is the slot of the position: the wrap at IndexModulus, which
\* CAPACITY divides, leaves it alone.
LEMMA WrapSlot ==
  ASSUME NEW a \in Nat
  PROVE  a % IndexModulus \in Indices /\ Slot(a % IndexModulus) = Slot(a)
<1>1. a % IndexModulus \in Indices
  BY Ring, RemainderRange DEF Indices
<1>2. (a % IndexModulus) % CAPACITY = a % CAPACITY
  BY Ring, RingAssumption, RemainderOfRemainder
<1> QED
  BY <1>1, <1>2 DEF Slot

\* The index after that of a position is the index of the next position.
LEMMA IncWraps ==
  ASSUME NEW a \in Nat
  PROVE  Inc(a % IndexModulus) = (a + 1) % IndexModulus
BY Ring, RemainderOfSum DEF Inc

\* current_tail - current_head: the difference of two indices is that of their
\* positions as long as these are less than IndexModulus apart.
LEMMA HeldIsDifference ==
  ASSUME NEW a \in Nat, NEW b \in Nat, b <= a, a - b < IndexModulus
  PROVE  Held(a % IndexModulus, b % IndexModulus) = a - b
BY Ring, RemainderOfDifference DEF Held

\* Two positions less than a lap apart have the same slot only if they are equal.
LEMMA SameSlot ==
  ASSUME NEW a \in Nat, NEW b \in Nat, Slot(a) = Slot(b),
         a < b + CAPACITY, b < a + CAPACITY
  PROVE  a = b
BY Ring, SameRemainder DEF Slot

-----------------------------------------------------------------------------
(* What the state of the two threads says about the ring *)

\* Where the next pop and the next push go, and what they may rely on.
LEMMA Positions ==
  ASSUME Inv
  PROVE  /\ PopPos \in Nat /\ PushPos \in Nat /\ Len(received) \in Nat /\ pushed \in Nat
         /\ Slot(head) = Slot(PopPos) /\ Slot(tail) = Slot(PushPos)
         /\ Held(tail, head) = pushed - Len(received)
         /\ Inc(head) = (PopPos + 1) % IndexModulus
         /\ Inc(tail) = (PushPos + 1) % IndexModulus
<1>1. PopPos \in Nat /\ PushPos \in Nat /\ Len(received) \in Nat /\ pushed \in Nat
  BY Ring, RingAssumption DEF Inv, TypeOK, PopPos, PushPos
<1>2. PopPos <= PushPos /\ PushPos - PopPos < IndexModulus
      /\ PushPos - PopPos = pushed - Len(received)
  BY <1>1, RingAssumption DEF Inv, Shape, PopPos, PushPos
<1>3. head = PopPos % IndexModulus /\ tail = PushPos % IndexModulus
  BY DEF Inv, Shape
<1> HIDE DEF PopPos, PushPos
<1>4. Held(PushPos % IndexModulus, PopPos % IndexModulus) = PushPos - PopPos
  BY <1>1, <1>2, HeldIsDifference
<1> QED
  BY <1>1, <1>2, <1>3, <1>4, WrapSlot, IncWraps

\* The difference of the indices is the number of elements, never more than CAPACITY.
LEMMA InvCounts == Inv => ExactCount
<1> SUFFICES ASSUME Inv PROVE ExactCount
  OBVIOUS
<1>1. Len(received) \in Nat /\ pushed \in Nat /\ Held(tail, head) = pushed - Len(received)
  BY Positions
<1> QED
  BY <1>1, Ring DEF Inv, Shape, ExactCount

\* While the producer writes, the ring is not full: its slot is not the consumer's.
LEMMA InvNoRace == Inv => NoDataRace
<1> SUFFICES ASSUME Inv, producer = "write", consumer \in {"read", "release"}
             PROVE  Slot(tail) # Slot(head)
  BY DEF NoDataRace
<1>1. Len(received) \in Nat /\ pushed \in Nat
  BY Positions
<1>2. PopPos < PushPos /\ PushPos < PopPos + CAPACITY
  BY <1>1, Ring DEF Inv, Shape, PopPos, PushPos
<1> QED
  BY <1>2, Positions, SameSlot, Ring

-----------------------------------------------------------------------------
(* The invariant *)

\* An empty ring, both threads before their first call.
LEMMA InitInv == Init => Inv
<1> SUFFICES ASSUME Init PROVE Inv
  OBVIOUS
<1>1. TypeOK
  BY RingAssumption DEF Init, TypeOK, Indices
<1>2. SEED % IndexModulus = SEED
  BY RingAssumption
<1>3. Shape
  BY <1>2, RingAssumption DEF Init, Shape, PopPos, PushPos
<1> QED
  BY <1>1, <1>3 DEF Init, Inv, Contents, Stored, ReadInOrder, ReceivesInOrder

\* Every step of the two threads keeps the invariant.
LEMMA NextInv == Inv /\ [Next]_vars => Inv'
<1> SUFFICES ASSUME Inv, [Next]_vars PROVE Inv'
  OBVIOUS
<1> USE DEF Inv
<1>0. /\ Len(received) \in Nat /\ pushed \in Nat /\ CAPACITY \in Nat \ {0} /\ SEED \in Nat
      /\ NUM_OPS \in Nat /\ None \notin Nat
  BY Positions, Ring, RingAssumption
<1>1. CASE PushCheck
  <2>1. pushed < Len(received) + CAPACITY
    BY <1>0, <1>1, Positions DEF PushCheck, IsFull
  <2> QED
    BY <1>0, <1>1, <2>1 DEF PushCheck, TypeOK, Shape, PopPos, PushPos, Contents, Stored,
       ReadInOrder, ReceivesInOrder
<1>2. CASE PushWrite
  <2>1. Slot(tail) \in Slots /\ Slot(tail) = Slot(SEED + pushed)
    BY Positions, Ring DEF PushPos
  <2>2. TypeOK'
    BY <1>0, <1>2, <2>1 DEF PushWrite, TypeOK
  <2>3. ASSUME NEW k \in Len(received) .. pushed PROVE data'[Slot(SEED + k)] = k
    <3>1. Slot(SEED + k) \in Slots /\ SEED + k \in Nat
      BY <1>0, Ring
    <3>2. CASE k = pushed
      BY <1>2, <2>1, <3>1, <3>2 DEF PushWrite, TypeOK
    <3>3. CASE k < pushed
      <4>1. Slot(SEED + k) # Slot(tail)
        BY <1>0, <1>2, <2>1, <3>1, <3>3, SameSlot DEF PushWrite, Shape
      <4> QED
        BY <1>0, <1>2, <3>1, <3>3, <4>1 DEF PushWrite, Contents, Stored, TypeOK
    <3> QED
      BY <1>0, <3>2, <3>3
  <2> QED
    BY <1>0, <1>2, <2>2, <2>3 DEF PushWrite, Shape, PopPos, PushPos, Contents, Stored,
       ReadInOrder, ReceivesInOrder
<1>3. CASE PushPublish
  <2>1. tail' = PushPos' % IndexModulus /\ tail' \in Indices
    BY <1>0, <1>3, Positions, WrapSlot DEF PushPublish, PushPos
  <2>2. TypeOK'
    BY <1>0, <1>3, <2>1 DEF PushPublish, TypeOK, Shape
  <2>3. Shape'
    BY <1>0, <1>3, <2>1 DEF PushPublish, Shape, PopPos
  <2> QED
    BY <1>0, <1>3, <2>2, <2>3 DEF PushPublish, Contents, Stored, ReadInOrder, ReceivesInOrder
<1>4. CASE PopCheck
  <2>1. pushed - Len(received) # 0
    BY <1>0, <1>4 DEF PopCheck, IsEmpty, Shape, PopPos, PushPos
  <2> QED
    BY <1>0, <1>4, <2>1 DEF PopCheck, TypeOK, Shape, PopPos, PushPos, Contents, Stored,
       ReadInOrder, ReceivesInOrder
<1>5. CASE PopRead
  <2>1. val' = Len(received)
    <3>1. Len(received) \in Len(received) .. pushed /\ Stored(Len(received))
      BY <1>0, <1>5 DEF PopRead, Shape, Stored
    <3> QED
      BY <1>5, <3>1, Positions DEF PopRead, Contents, PopPos
  <2> QED
    BY <1>0, <1>5, <2>1 DEF PopRead, TypeOK, Shape, PopPos, PushPos, Contents, Stored,
       ReadInOrder, ReceivesInOrder
<1>6. CASE PopRelease
  <2>1. /\ received \in Seq(Nat \cup {None}) /\ val = Len(received)
        /\ received' = Append(received, val)
    BY <1>6 DEF PopRelease, TypeOK, ReadInOrder
  <2>2. /\ received' \in Seq(Nat \cup {None}) /\ Len(received') = Len(received) + 1
        /\ \A i \in 1 .. Len(received) : received'[i] = received[i]
        /\ received'[Len(received) + 1] = Len(received)
    BY <1>0, <2>1
  <2>3. head' = PopPos' % IndexModulus /\ head' \in Indices
    BY <1>0, <1>6, <2>2, Positions, WrapSlot DEF PopRelease, PopPos
  <2>4. TypeOK'
    BY <1>6, <2>2, <2>3 DEF PopRelease, TypeOK
  <2>5. Shape'
    BY <1>0, <1>6, <2>2, <2>3 DEF PopRelease, Shape, PushPos
  <2>6. ReceivesInOrder'
    BY <1>0, <2>2 DEF ReceivesInOrder
  <2>7. Contents'
    BY <1>0, <1>6, <2>2 DEF PopRelease, Contents, Stored
  <2> QED
    BY <1>6, <2>4, <2>5, <2>6, <2>7 DEF PopRelease, ReadInOrder
<1>7. CASE UNCHANGED vars
  BY <1>7 DEF vars, TypeOK, Shape, PopPos, PushPos, Contents, Stored, ReadInOrder,
     ReceivesInOrder
<1> QED
  BY <1>1, <1>2, <1>3, <1>4, <1>5, <1>6, <1>7 DEF Next, Push, Pop, PushFull, PopEmpty

\* The invariant holds of every behaviour.
THEOREM Invariance == Spec => []Inv
<1> QED
  BY InitInv, NextInv, PTL DEF Spec

\* The indices stay within a size_t, the slots hold pushed values or their initial content.
THEOREM TypeCorrect == Spec => []TypeOK
BY Invariance, PTL DEF Inv

\* "tail - head gives exact element count via unsigned wraparound arithmetic".
THEOREM CountIsExact == Spec => []ExactCount
BY Invariance, InvCounts, PTL

\* The plain accesses to the array need no lock: they never meet in one slot.
THEOREM RaceFree == Spec => []NoDataRace
BY Invariance, InvNoRace, PTL

\* assert(val == i) of the stress test never fails.
THEOREM InOrder == Spec => []ReceivesInOrder
BY Invariance, PTL DEF Inv

-----------------------------------------------------------------------------
(* The ring implements the bounded FIFO *)

\* The items of the FIFO: a sequence of consecutive numbers.
Run(first, n) == [i \in 1 .. n |-> first + i - 1]

\* A run grows at its end and shrinks at its head.
LEMMA RunGrows ==
  ASSUME NEW first \in Nat, NEW n \in Nat
  PROVE  /\ Run(first, n) \in Seq(Nat) /\ Len(Run(first, n)) = n
         /\ Append(Run(first, n), first + n) = Run(first, n + 1)
         /\ n > 0 => /\ Run(first, n) # <<>>
                     /\ Head(Run(first, n)) = first
                     /\ Tail(Run(first, n)) = Run(first + 1, n - 1)
<1>1. Run(first, n) \in Seq(Nat) /\ Len(Run(first, n)) = n
  BY DEF Run
<1>2. Append(Run(first, n), first + n) = Run(first, n + 1)
  BY <1>1 DEF Run
<1>3. ASSUME n > 0
      PROVE  /\ Run(first, n) # <<>>
             /\ Head(Run(first, n)) = first
             /\ Tail(Run(first, n)) = Run(first + 1, n - 1)
  <2> DEFINE s == Run(first, n)
             t == Run(first + 1, n - 1)
  <2>1. s # <<>> /\ Head(s) = first
    BY <1>1, <1>3 DEF Run
  <2>2. Len(Tail(s)) = n - 1 /\ Tail(s) \in Seq(Nat)
    BY <1>1, <1>3, <2>1
  <2>3. t \in Seq(Nat) /\ Len(t) = n - 1
    BY <1>3 DEF Run
  <2>4. ASSUME NEW i \in 1 .. n - 1 PROVE Tail(s)[i] = t[i]
    <3>1. Tail(s)[i] = s[i + 1]
      BY <1>1, <2>1
    <3>2. s[i + 1] = first + i /\ t[i] = first + i
      BY DEF Run
    <3> QED
      BY <3>1, <3>2
  <2>5. Tail(s) = t
    <3> HIDE DEF s, t
    <3> QED
      BY <2>2, <2>3, <2>4, SeqEqual
  <2> QED
    BY <2>1, <2>5
<1> QED
  BY <1>1, <1>2, <1>3

\* The FIFO starts empty.
LEMMA RefinesInit == Init => Abstract!Init
<1> SUFFICES ASSUME Init PROVE Abstract!Init
  OBVIOUS
<1>1. Items = <<>> /\ ~Reading /\ received = <<>>
  BY DEF Init, Items, First, Reading
<1> QED
  BY <1>1 DEF Abstract!Init

\* Storing tail enqueues, reading a slot dequeues, storing head returns the item;
\* no other step changes the FIFO.
LEMMA RefinesNext == Inv /\ [Next]_vars => [Abstract!Next]_(Abstract!vars)
<1> SUFFICES ASSUME Inv, [Next]_vars
             PROVE  Abstract!Next \/ UNCHANGED Abstract!vars
  OBVIOUS
<1> DEFINE n == Len(received)
<1>1. /\ n \in Nat /\ pushed \in 0 .. NUM_OPS /\ n <= pushed /\ pushed <= n + CAPACITY
      /\ CAPACITY \in Nat \ {0} /\ NUM_OPS \in Nat /\ None \notin Nat
      /\ Reading => n < pushed /\ val = n
  BY Positions, Ring, RingAssumption DEF Inv, TypeOK, Shape, ReadInOrder, Reading
<1>2. First \in Nat /\ pushed - First \in Nat /\ Items = Run(First, pushed - First)
  BY <1>1 DEF First, Items, Run
<1>3. CASE PushPublish
  <2>1. First' = First /\ Reading' = Reading /\ pushed' = pushed + 1
    BY <1>3 DEF PushPublish, First, Reading
  <2>2. Items' = Append(Items, pushed)
    <3>1. pushed' - First' = (pushed - First) + 1 /\ pushed = First + (pushed - First)
      BY <1>1, <1>2, <2>1
    <3>2. Items' = Run(First, (pushed - First) + 1)
      BY <2>1, <3>1 DEF Items, Run
    <3> QED
      BY <1>2, <3>1, <3>2, RunGrows
  <2>3. Len(Items) < CAPACITY /\ pushed \in 0 .. NUM_OPS - 1
    <3>1. pushed < n + CAPACITY /\ pushed < NUM_OPS /\ n <= First
      BY <1>1, <1>3 DEF PushPublish, Inv, Shape, First
    <3>2. Len(Items) = pushed - First
      BY <1>2, RunGrows
    <3> QED
      BY <1>1, <1>2, <3>1, <3>2
  <2>4. Abstract!Enq(pushed)
    BY <1>3, <2>1, <2>2, <2>3 DEF PushPublish, Abstract!Enq
  <2> QED
    BY <2>3, <2>4 DEF Abstract!Next
<1>4. CASE PopRead
  <2>1. ~Reading /\ Reading' /\ n < pushed /\ First = n /\ First' = n + 1 /\ val' = n
    <3>1. /\ ~Reading /\ Reading' /\ n < pushed /\ received' = received
          /\ Inv'
      BY <1>1, <1>4, NextInv DEF PopRead, Reading, Inv, Shape
    <3> QED
      BY <1>1, <3>1 DEF First, Inv, ReadInOrder, Reading
  <2>2. Items # <<>> /\ Head(Items) = n /\ Items' = Tail(Items)
    <3>1. pushed - First > 0 /\ pushed' - First' = (pushed - First) - 1 /\ First' = First + 1
      BY <1>1, <1>4, <2>1 DEF PopRead
    <3>2. Items' = Run(First + 1, (pushed - First) - 1)
      BY <3>1 DEF Items, Run
    <3> QED
      BY <1>2, <2>1, <3>1, <3>2, RunGrows
  <2>3. Abstract!Deq("consumer")
    BY <1>4, <2>1, <2>2 DEF PopRead, Abstract!Deq
  <2> QED
    BY <2>3 DEF Abstract!Next
<1>5. CASE PopRelease
  <2>1. Reading /\ ~Reading' /\ val = n /\ val # None
    BY <1>1, <1>5 DEF PopRelease, Reading
  <2>2. received' = Append(received, val) /\ Len(received') = n + 1
    BY <1>5 DEF PopRelease, Inv, TypeOK
  <2>3. Items' = Items
    BY <1>1, <1>5, <2>1, <2>2 DEF PopRelease, Items, First
  <2>4. Abstract!Return("consumer")
    BY <2>1, <2>2, <2>3 DEF Abstract!Return
  <2> QED
    BY <2>4 DEF Abstract!Next
<1>6. CASE PushCheck \/ PushWrite \/ PopCheck \/ UNCHANGED vars
  <2>1. Reading' = Reading /\ received' = received /\ pushed' = pushed /\ val' = val
    BY <1>6 DEF PushCheck, PushWrite, PopCheck, vars, Reading
  <2> QED
    BY <2>1 DEF Abstract!vars, Items, First
<1> QED
  BY <1>3, <1>4, <1>5, <1>6 DEF Next, Push, Pop, PushFull, PopEmpty

\* The ring is a bounded FIFO of CAPACITY items, also while its indices wrap.
THEOREM IsBoundedQueue == Spec => ImplementsBoundedQueue
<1>1. Init => Abstract!Init
  BY RefinesInit
<1>2. Inv /\ [Next]_vars => [Abstract!Next]_(Abstract!vars)
  BY RefinesNext
<1> QED
  BY <1>1, <1>2, Invariance, PTL DEF Spec, ImplementsBoundedQueue, Abstract!Spec

-----------------------------------------------------------------------------
(* Day 11: the reduced indices, with one slot kept free *)

WSlot(k) == k % WRAPPED_CAPACITY
WPopped  == Len(w_received)

\* SPSC.cpp's indices are the counts of pushes and pops, reduced; the counts are less
\* than a lap apart.
WShape ==
  /\ w_head = WSlot(WPopped) /\ w_tail = WSlot(w_pushed)
  /\ WPopped <= w_pushed /\ w_pushed < WPopped + WRAPPED_CAPACITY
  /\ w_producer # "check" => w_pushed + 1 < WPopped + WRAPPED_CAPACITY
  /\ w_consumer # "check" => WPopped < w_pushed

WStored(k) == k < w_pushed \/ (k = w_pushed /\ w_producer = "store")

\* Value k + 1 is pushed at position k.
WContents ==
  \A k \in WPopped .. w_pushed : WStored(k) => w_data[WSlot(k)] = k + 1

WReads == w_consumer = "store" => w_val = WPopped + 1

\* SPSC.c keeps its types only.
WrappedInv ==
  /\ Wrapped!TypeOK
  /\ w_producer # "check" => w_pushed < WRAPPED_OPS
  /\ program # "wrapped_c" => WShape /\ WContents /\ WReads /\ Wrapped!ReceivesInOrder

-----------------------------------------------------------------------------
(* Day 11 *)

LEMMA WrappedConstants ==
  /\ WRAPPED_CAPACITY \in Nat \ {0} /\ WRAPPED_CAPACITY >= 2
  /\ WRAPPED_OPS \in Nat /\ None \notin Nat
BY WrappedUsable DEF Wrapped!WrappedAssumption

LEMMA WSlots ==
  ASSUME NEW a \in Nat
  PROVE  /\ WSlot(a) \in Wrapped!Slots
         /\ Wrapped!Inc(WSlot(a)) = WSlot(a + 1)
<1>1. WSlot(a) \in 0 .. WRAPPED_CAPACITY - 1
  BY WrappedConstants, RemainderRange DEF WSlot
<1>2. ((a % WRAPPED_CAPACITY) + 1) % WRAPPED_CAPACITY = (a + 1) % WRAPPED_CAPACITY
  BY WrappedConstants, RemainderOfSum
<1> QED
  BY <1>1, <1>2 DEF Wrapped!Slots, Wrapped!Inc, WSlot

LEMMA WSameSlot ==
  ASSUME NEW a \in Nat, NEW b \in Nat, WSlot(a) = WSlot(b),
         a < b + WRAPPED_CAPACITY, b < a + WRAPPED_CAPACITY
  PROVE  a = b
BY WrappedConstants, SameRemainder DEF WSlot

\* What the tests of SPSC.cpp see: one slot is free, or an item is there.
LEMMA WTests ==
  ASSUME Wrapped!TypeOK, WShape
  PROVE  /\ WPopped \in Nat /\ w_pushed \in Nat
         /\ ~Wrapped!IsFull(w_tail, w_head) =>
              w_pushed + 1 < WPopped + WRAPPED_CAPACITY
         /\ ~Wrapped!IsEmpty(w_tail, w_head) => WPopped < w_pushed
<1>1. WPopped \in Nat /\ w_pushed \in Nat /\ w_pushed + 1 \in Nat
  BY WrappedConstants DEF Wrapped!TypeOK, WPopped
<1>2. ASSUME w_pushed + 1 >= WPopped + WRAPPED_CAPACITY
      PROVE  Wrapped!IsFull(w_tail, w_head)
  <2>1. w_pushed + 1 = WPopped + WRAPPED_CAPACITY
    BY <1>1, <1>2, WrappedConstants DEF WShape
  <2>2. WSlot(WPopped + WRAPPED_CAPACITY) = WSlot(WPopped)
    BY <1>1, WrappedConstants, NextLapRemainder DEF WSlot
  <2>3. Wrapped!Inc(w_tail) = WSlot(w_pushed + 1)
    BY <1>1, WSlots DEF WShape
  <2> QED
    BY <2>1, <2>2, <2>3 DEF WShape, Wrapped!IsFull
<1>3. ASSUME WPopped >= w_pushed PROVE Wrapped!IsEmpty(w_tail, w_head)
  BY <1>1, <1>3 DEF WShape, Wrapped!IsEmpty
<1> QED
  BY <1>1, <1>2, <1>3, WrappedConstants

LEMMA WrappedInitially == Wrapped!Init => WrappedInv
<1> SUFFICES ASSUME Wrapped!Init PROVE WrappedInv
  OBVIOUS
<1>1. WPopped = 0 /\ WSlot(0) = 0
  BY WrappedConstants DEF Wrapped!Init, WPopped, WSlot
<1>2. Wrapped!TypeOK
  BY WrappedConstants DEF Wrapped!Init, Wrapped!TypeOK, Wrapped!Slots
<1> QED
  BY <1>1, <1>2, WrappedConstants
     DEF Wrapped!Init, WrappedInv, WShape, WContents, WStored, WReads, Wrapped!ReceivesInOrder

\* SPSC.cpp's producer.
LEMMA CppPushKeeps ==
  ASSUME WrappedInv, program = "wrapped_cpp", program' = program, Wrapped!CppPush
  PROVE  WrappedInv'
<1> USE DEF WrappedInv
<1>0. /\ WPopped \in Nat /\ w_pushed \in Nat /\ WShape /\ WContents /\ WReads
      /\ Wrapped!ReceivesInOrder /\ Wrapped!TypeOK
  BY WTests
<1>1. WPopped' = WPopped /\ w_received' = w_received /\ w_consumer' = w_consumer
      /\ w_val' = w_val /\ w_head' = w_head
  BY DEF Wrapped!CppPush, Wrapped!CppPushCheck, Wrapped!PushFull, Wrapped!CppPushWrite,
         Wrapped!CppPushStore, Wrapped!vars, WPopped
<1>2. WReads' /\ Wrapped!ReceivesInOrder'
  BY <1>0, <1>1 DEF WReads, Wrapped!ReceivesInOrder
<1>3. CASE Wrapped!CppPushCheck
  BY <1>0, <1>1, <1>2, <1>3, WTests
     DEF Wrapped!CppPushCheck, Wrapped!TypeOK, WShape, WContents, WStored
<1>4. CASE Wrapped!CppPushWrite
  <2>1. /\ w_tail = WSlot(w_pushed) /\ w_tail \in Wrapped!Slots
        /\ w_data' = [w_data EXCEPT ![w_tail] = w_pushed + 1] /\ w_pushed' = w_pushed
        /\ w_tail' = w_tail /\ w_producer' = "store" /\ w_producer = "write"
    BY <1>0, <1>4, WSlots DEF Wrapped!CppPushWrite, WShape
  <2>2. Wrapped!TypeOK'
    BY <1>0, <1>1, <2>1 DEF Wrapped!TypeOK
  <2>3. ASSUME NEW k \in WPopped .. w_pushed PROVE w_data'[WSlot(k)] = k + 1
    <3>1. k \in Nat /\ WSlot(k) \in Wrapped!Slots
      BY <1>0, WSlots
    <3>2. CASE k = w_pushed
      BY <1>0, <2>1, <3>1, <3>2 DEF Wrapped!TypeOK
    <3>3. CASE k < w_pushed
      <4>1. WSlot(k) # w_tail
        BY <1>0, <2>1, <3>1, <3>3, WSameSlot, WrappedConstants DEF WShape
      <4> QED
        BY <1>0, <2>1, <3>1, <3>3, <4>1 DEF WContents, WStored, Wrapped!TypeOK
    <3> QED
      BY <1>0, <3>2, <3>3
  <2> QED
    BY <1>0, <1>1, <1>2, <2>1, <2>2, <2>3 DEF WShape, WContents
<1>5. CASE Wrapped!CppPushStore
  <2>1. /\ w_tail' = WSlot(w_pushed + 1) /\ w_tail' \in Wrapped!Slots
        /\ w_pushed' = w_pushed + 1 /\ w_data' = w_data /\ w_producer' = "check"
        /\ w_producer = "store" /\ w_pushed < WRAPPED_OPS
    BY <1>0, <1>5, WSlots DEF Wrapped!CppPushStore, WShape
  <2>2. Wrapped!TypeOK'
    BY <1>0, <1>1, <2>1, WrappedConstants DEF Wrapped!TypeOK
  <2> QED
    BY <1>0, <1>1, <1>2, <2>1, <2>2 DEF WShape, WContents, WStored
<1>6. CASE Wrapped!PushFull
  BY <1>0, <1>1, <1>2, <1>6
     DEF Wrapped!PushFull, Wrapped!vars, Wrapped!TypeOK, WShape, WContents, WStored
<1> QED
  BY <1>3, <1>4, <1>5, <1>6 DEF Wrapped!CppPush

\* SPSC.cpp's consumer.
LEMMA CppPopKeeps ==
  ASSUME WrappedInv, program = "wrapped_cpp", program' = program, Wrapped!CppPop
  PROVE  WrappedInv'
<1> USE DEF WrappedInv
<1>0. /\ WPopped \in Nat /\ w_pushed \in Nat /\ WShape /\ WContents /\ WReads
      /\ Wrapped!ReceivesInOrder /\ Wrapped!TypeOK
  BY WTests
<1>1. w_pushed' = w_pushed /\ w_tail' = w_tail /\ w_producer' = w_producer /\ w_data' = w_data
  BY DEF Wrapped!CppPop, Wrapped!CppPopCheck, Wrapped!PopEmpty, Wrapped!CppPopRead,
         Wrapped!CppPopStore, Wrapped!vars
<1>2. CASE Wrapped!CppPopCheck
  BY <1>0, <1>1, <1>2, WTests
     DEF Wrapped!CppPopCheck, Wrapped!TypeOK, WShape, WContents, WStored, WReads, WPopped,
         Wrapped!ReceivesInOrder
<1>3. CASE Wrapped!CppPopRead
  <2>1. w_val' = WPopped + 1
    <3>1. WPopped \in WPopped .. w_pushed /\ WStored(WPopped) /\ w_head = WSlot(WPopped)
      BY <1>0, <1>3 DEF Wrapped!CppPopRead, WShape, WStored
    <3> QED
      BY <1>0, <1>3, <3>1 DEF Wrapped!CppPopRead, WContents
  <2> QED
    BY <1>0, <1>1, <1>3, <2>1
       DEF Wrapped!CppPopRead, Wrapped!TypeOK, WShape, WContents, WStored, WReads, WPopped,
           Wrapped!ReceivesInOrder
<1>4. CASE Wrapped!CppPopStore
  <2>1. /\ w_received \in Seq(Nat \cup {None}) /\ w_val = WPopped + 1
        /\ w_received' = Append(w_received, w_val) /\ w_consumer' = "check" /\ w_val' = w_val
        /\ w_consumer = "store"
    BY <1>0, <1>4 DEF Wrapped!CppPopStore, Wrapped!TypeOK, WReads
  <2>2. /\ w_received' \in Seq(Nat \cup {None}) /\ WPopped' = WPopped + 1
        /\ DOMAIN w_received = 1 .. WPopped /\ DOMAIN w_received' = 1 .. WPopped + 1
        /\ \A i \in 1 .. WPopped : w_received'[i] = w_received[i]
        /\ w_received'[WPopped + 1] = WPopped + 1
    BY <1>0, <2>1 DEF WPopped
  <2>3. w_head' = WSlot(WPopped + 1) /\ w_head' \in Wrapped!Slots
    BY <1>0, <1>4, WSlots DEF Wrapped!CppPopStore, WShape
  <2>4. Wrapped!TypeOK'
    BY <1>0, <1>1, <2>1, <2>2, <2>3 DEF Wrapped!TypeOK
  <2>5. WShape'
    BY <1>0, <1>1, <2>1, <2>2, <2>3, WrappedConstants DEF WShape
  <2>6. Wrapped!ReceivesInOrder'
    BY <1>0, <2>2 DEF Wrapped!ReceivesInOrder
  <2>7. WContents'
    BY <1>0, <1>1, <2>2 DEF WContents, WStored
  <2> QED
    BY <1>0, <1>1, <2>1, <2>4, <2>5, <2>6, <2>7 DEF WReads
<1>5. CASE Wrapped!PopEmpty
  BY <1>0, <1>1, <1>5
     DEF Wrapped!PopEmpty, Wrapped!vars, Wrapped!TypeOK, WShape, WContents, WStored, WReads,
         WPopped, Wrapped!ReceivesInOrder
<1> QED
  BY <1>2, <1>3, <1>4, <1>5 DEF Wrapped!CppPop

\* SPSC.c keeps its types: its indices are reduced whatever the order of its stores.
LEMMA CKeeps ==
  ASSUME WrappedInv, program = "wrapped_c", program' = program, Wrapped!NextC
  PROVE  WrappedInv'
<1> USE DEF WrappedInv
<1>0. WRAPPED_CAPACITY \in Nat \ {0}
      /\ \A i \in Wrapped!Slots :
           Wrapped!Inc(i) \in Wrapped!Slots /\ Wrapped!Dec(i) \in Wrapped!Slots
  <2> SUFFICES ASSUME NEW i \in Wrapped!Slots
               PROVE  Wrapped!Inc(i) \in Wrapped!Slots /\ Wrapped!Dec(i) \in Wrapped!Slots
    BY WrappedConstants
  <2>1. i + 1 \in Nat /\ i + WRAPPED_CAPACITY - 1 \in Nat
    BY WrappedConstants DEF Wrapped!Slots
  <2> QED
    BY <2>1, WrappedConstants, RemainderRange DEF Wrapped!Slots, Wrapped!Inc, Wrapped!Dec
<1>1. CASE Wrapped!CPushClaim
  BY <1>0, <1>1 DEF Wrapped!CPushClaim, Wrapped!TypeOK
<1>2. CASE Wrapped!CPushWrite
  BY <1>0, <1>2, WrappedConstants DEF Wrapped!CPushWrite, Wrapped!TypeOK
<1>3. CASE Wrapped!CPopClaim
  BY <1>0, <1>3 DEF Wrapped!CPopClaim, Wrapped!TypeOK
<1>4. CASE Wrapped!CPopRead
  <2>1. w_data[Wrapped!Dec(w_head)] \in Nat \cup {None}
    BY <1>0 DEF Wrapped!TypeOK
  <2> QED
    BY <1>4, <2>1 DEF Wrapped!CPopRead, Wrapped!TypeOK
<1>5. CASE Wrapped!PushFull \/ Wrapped!PopEmpty
  BY <1>5 DEF Wrapped!PushFull, Wrapped!PopEmpty, Wrapped!vars, Wrapped!TypeOK
<1> QED
  BY <1>1, <1>2, <1>3, <1>4, <1>5 DEF Wrapped!NextC, Wrapped!CPush, Wrapped!CPop

LEMMA WrappedStep == WrappedInv /\ [MCNext]_allvars => WrappedInv'
<1> SUFFICES ASSUME WrappedInv, [MCNext]_allvars PROVE WrappedInv'
  OBVIOUS
<1>1. CASE UNCHANGED <<program, wvars>>
  BY <1>1 DEF wvars, WrappedInv, Wrapped!TypeOK, WShape, WContents, WStored, WReads, WPopped,
              Wrapped!ReceivesInOrder
<1>2. CASE Day11("wrapped_cpp", Wrapped!NextCpp)
  BY <1>2, CppPushKeeps, CppPopKeeps DEF Day11, Runs, Wrapped!NextCpp
<1>3. CASE Day11("wrapped_c", Wrapped!NextC)
  BY <1>3, CKeeps DEF Day11, Runs
<1> QED
  BY <1>1, <1>2, <1>3 DEF MCNext, Day22, Playing, Runs, allvars

THEOREM WrappedInvariance == MCSpec => []WrappedInv
<1>1. MCInit => WrappedInv
  BY WrappedInitially DEF MCInit
<1> QED
  BY <1>1, WrappedStep, PTL DEF MCSpec

\* The oldest item that the consumer has not read, and how many there are.
WFirst == WPopped + (IF Wrapped!Reading THEN 1 ELSE 0)
WItems == [i \in 1 .. w_pushed - WFirst |-> WFirst + i]

\* Storing tail enqueues, reading a slot dequeues, storing head returns the item; no
\* other step of SPSC.cpp changes the FIFO.
LEMMA WrappedRefines ==
  ASSUME WrappedInv, program = "wrapped_cpp", Wrapped!NextCpp
  PROVE  Wrapped!Abstract!Next \/ UNCHANGED Wrapped!Abstract!vars
<1> DEFINE n == WPopped
<1>1. /\ n \in Nat /\ w_pushed \in Nat /\ n <= w_pushed
      /\ w_pushed < n + WRAPPED_CAPACITY /\ WRAPPED_CAPACITY \in Nat
      /\ Wrapped!Reading => n < w_pushed /\ w_val = n + 1
      /\ WShape /\ WContents
  BY WTests, WrappedConstants DEF WrappedInv, WShape, WReads, Wrapped!Reading
<1>2. /\ WFirst \in Nat /\ w_pushed - WFirst \in Nat
      /\ WItems = Run(WFirst + 1, w_pushed - WFirst)
  <2>1. WFirst \in Nat /\ w_pushed - WFirst \in Nat
    BY <1>1 DEF WFirst
  <2> QED
    BY <2>1 DEF WItems, Run
<1>3. CASE Wrapped!CppPushStore
  <2>1. /\ WFirst' = WFirst /\ Wrapped!Reading' = Wrapped!Reading /\ w_pushed' = w_pushed + 1
        /\ w_received' = w_received /\ w_val' = w_val /\ w_producer = "store"
    BY <1>3 DEF Wrapped!CppPushStore, WFirst, WPopped, Wrapped!Reading
  <2>2. WItems' = Append(WItems, w_pushed + 1)
    <3>1. /\ w_pushed' - WFirst' = (w_pushed - WFirst) + 1 /\ WFirst + 1 \in Nat
          /\ w_pushed + 1 = (WFirst + 1) + (w_pushed - WFirst)
      BY <1>1, <1>2, <2>1
    <3>2. WItems' = Run(WFirst + 1, (w_pushed - WFirst) + 1)
      <4>1. WItems' = [i \in 1 .. w_pushed' - WFirst' |-> WFirst' + i]
        BY DEF WItems
      <4>2. WItems' = [i \in 1 .. (w_pushed - WFirst) + 1 |-> WFirst + i]
        BY <2>1, <3>1, <4>1
      <4> QED
        BY <1>2, <4>2 DEF Run
    <3> QED
      BY <1>2, <3>1, <3>2, RunGrows
  <2>3. Len(WItems) < WRAPPED_CAPACITY - 1 /\ w_pushed + 1 \in 1 .. WRAPPED_OPS
    <3>1. w_pushed + 1 < n + WRAPPED_CAPACITY /\ w_pushed < WRAPPED_OPS /\ n <= WFirst
      BY <1>1, <2>1 DEF WrappedInv, WShape, WFirst
    <3>2. Len(WItems) = w_pushed - WFirst
      BY <1>2, RunGrows
    <3> QED
      BY <1>1, <1>2, <3>1, <3>2, WrappedConstants
  <2>4. ASSUME NEW v, v = w_pushed + 1 PROVE Wrapped!Abstract!Enq(v)
    BY <2>1, <2>2, <2>3, <2>4 DEF Wrapped!Abstract!Enq, WItems, WFirst, WPopped
  <2> QED
    BY <2>3, <2>4 DEF Wrapped!Abstract!Next
<1>4. CASE Wrapped!CppPopRead
  <2>1. /\ ~Wrapped!Reading /\ Wrapped!Reading' /\ n < w_pushed /\ WFirst = n /\ WFirst' = n + 1
        /\ w_val' = n + 1 /\ w_received' = w_received /\ w_pushed' = w_pushed
    <3>1. /\ ~Wrapped!Reading /\ Wrapped!Reading' /\ n < w_pushed
          /\ w_received' = w_received /\ w_pushed' = w_pushed /\ w_val' = w_data[WSlot(n)]
      BY <1>1, <1>4 DEF Wrapped!CppPopRead, Wrapped!Reading, WShape
    <3>2. n \in WPopped .. w_pushed /\ WStored(n)
      BY <1>1, <3>1 DEF WStored
    <3> QED
      BY <1>1, <3>1, <3>2 DEF WContents, WFirst, WPopped
  <2>2. WItems # <<>> /\ Head(WItems) = n + 1 /\ WItems' = Tail(WItems)
    <3>1. /\ w_pushed - WFirst > 0 /\ w_pushed' - WFirst' = (w_pushed - WFirst) - 1
          /\ WFirst + 1 \in Nat
      BY <1>1, <1>2, <2>1
    <3>2. WItems' = Run((WFirst + 1) + 1, (w_pushed - WFirst) - 1)
      <4>1. WItems' = [i \in 1 .. w_pushed' - WFirst' |-> WFirst' + i]
        BY DEF WItems
      <4>2. WItems' = [i \in 1 .. (w_pushed - WFirst) - 1 |-> (WFirst + 1) + i]
        BY <2>1, <3>1, <4>1
      <4> QED
        BY <1>2, <4>2 DEF Run
    <3> QED
      BY <1>2, <2>1, <3>1, <3>2, RunGrows
  <2>3. Wrapped!Abstract!Deq("consumer")
    BY <2>1, <2>2 DEF Wrapped!Abstract!Deq, WItems, WFirst, WPopped
  <2> QED
    BY <2>3 DEF Wrapped!Abstract!Next
<1>5. CASE Wrapped!CppPopStore
  <2>1. /\ Wrapped!Reading /\ ~Wrapped!Reading' /\ w_val = n + 1 /\ w_val # None
        /\ w_pushed' = w_pushed
    BY <1>1, <1>5, WrappedConstants DEF Wrapped!CppPopStore, Wrapped!Reading
  <2>2. w_received' = Append(w_received, w_val) /\ WPopped' = n + 1
    BY <1>5 DEF Wrapped!CppPopStore, WrappedInv, Wrapped!TypeOK, WPopped
  <2>3. WItems' = WItems
    BY <1>1, <2>1, <2>2 DEF WItems, WFirst
  <2>4. Wrapped!Abstract!Return("consumer")
    BY <2>1, <2>2, <2>3 DEF Wrapped!Abstract!Return, WItems, WFirst, WPopped
  <2> QED
    BY <2>4 DEF Wrapped!Abstract!Next
<1>6. CASE Wrapped!CppPushCheck \/ Wrapped!CppPushWrite \/ Wrapped!CppPopCheck
           \/ Wrapped!PushFull \/ Wrapped!PopEmpty
  <2>1. /\ Wrapped!Reading' = Wrapped!Reading /\ w_received' = w_received
        /\ w_pushed' = w_pushed /\ w_val' = w_val
    BY <1>6 DEF Wrapped!CppPushCheck, Wrapped!CppPushWrite, Wrapped!CppPopCheck,
                Wrapped!PushFull, Wrapped!PopEmpty, Wrapped!vars, Wrapped!Reading
  <2> QED
    BY <2>1 DEF Wrapped!Abstract!vars
<1> QED
  BY <1>3, <1>4, <1>5, <1>6 DEF Wrapped!NextCpp, Wrapped!CppPush, Wrapped!CppPop

\* Day 11's SPSC.cpp is a bounded FIFO of CAPACITY - 1 items.
THEOREM WrappedIsBoundedQueue == MCSpec => WrappedImplementsBoundedQueue
<1>1. MCInit => Wrapped!Abstract!Init
  <2> SUFFICES ASSUME MCInit PROVE Wrapped!Abstract!Init
    OBVIOUS
  <2>1. w_received = <<>> /\ w_pushed = 0 /\ ~Wrapped!Reading
    BY DEF MCInit, Wrapped!Init, Wrapped!Reading
  <2> QED
    BY <2>1 DEF Wrapped!Abstract!Init
<1>2. WrappedInv /\ [MCNext]_allvars =>
        [program = "wrapped_cpp" =>
           Wrapped!Abstract!Next \/ UNCHANGED Wrapped!Abstract!vars]_allvars
  <2> SUFFICES ASSUME WrappedInv, MCNext, program = "wrapped_cpp"
               PROVE  Wrapped!Abstract!Next \/ UNCHANGED Wrapped!Abstract!vars
    OBVIOUS
  <2> QED
    BY WrappedRefines DEF MCNext, Day22, Day11, Playing, Runs
<1> QED
  BY <1>1, <1>2, WrappedInvariance, PTL DEF MCSpec, WrappedImplementsBoundedQueue

-----------------------------------------------------------------------------
(* The players of Day 22 *)

ASlot(k) == k % AUDIO_CAPACITY
ASlots   == 0 .. AUDIO_CAPACITY - 1

AudioTypeOK ==
  /\ lang \in {"C", "Cpp"} /\ running \in BOOLEAN
  /\ slots \in [ASlots -> Nat \cup {Raw}]
  /\ a_head \in Nat /\ a_tail \in Nat
  /\ a_producer \in [at : {"loop", "offer", "write", "publish", "ended"}, sample : Nat]
  /\ callback \in {"pull", "read", "release", "count", "join", "ended"}
  /\ heard \in Seq(Nat \cup {Silence})

\* The indices are at most a ring apart; a producer past its test has a slot, a
\* callback past its own a sample.  The producer offers the samples in order, until it
\* gives one up, after which it ends.
AudioShape ==
  /\ a_head <= a_tail /\ a_tail <= a_head + AUDIO_CAPACITY
  /\ a_producer.at \in {"write", "publish"} => a_tail < a_head + AUDIO_CAPACITY
  /\ callback \in {"read", "release"} => a_head < a_tail
  /\ \/ a_producer.sample = a_tail
     \/ a_producer.at \in {"loop", "ended"} /\ lang = "Cpp" /\ ~running

\* The samples in the ring, from the one the callback will read next to the one the
\* producer has written last.
AudioFirst == IF callback = "release" THEN a_head + 1 ELSE a_head
AudioLast  == IF a_producer.at = "publish" THEN a_tail ELSE a_tail - 1

AudioContents == \A k \in AudioFirst .. AudioLast : slots[ASlot(k)] = k

\* The samples among the first n frames heard.
Sounds(n) == {j \in 1 .. n : heard[j] # Silence}

AudioInv ==
  /\ AudioTypeOK
  /\ AudioShape
  /\ AudioContents
  /\ Cardinality(Sounds(Len(heard))) = AudioFirst
  /\ Audio!HeardInOrder
  /\ Audio!ObjectsLive

LEMMA AudioConstants ==
  /\ AUDIO_CAPACITY \in Nat \ {0} /\ SAMPLES \in Nat \ {0} /\ BLOCK \in Nat \ {0}
  /\ Silence \notin Nat /\ Raw \notin Nat /\ Silence # Raw
BY AudioUsable DEF Audio!AudioAssumption

LEMMA ASlotIn == \A a \in Nat : ASlot(a) \in ASlots
BY AudioConstants, RemainderRange DEF ASlot, ASlots

LEMMA ASameSlot ==
  ASSUME NEW a \in Nat, NEW b \in Nat, ASlot(a) = ASlot(b),
         a < b + AUDIO_CAPACITY, b < a + AUDIO_CAPACITY
  PROVE  a = b
BY AudioConstants, SameRemainder DEF ASlot

\* Audio!ObjectsLive and Audio!HeardInOrder in the words of this module.
Filled == {ASlot(k) : k \in AudioFirst .. AudioLast}

LEMMA ObjectsAre == Audio!ObjectsLive <=> (lang = "Cpp" => {i \in ASlots : slots[i] # Raw} = Filled)
BY DEF Audio!ObjectsLive, Filled, ASlot, ASlots, AudioFirst, AudioLast

LEMMA SameCardinality == \A S : Audio!Cardinality(S) = Cardinality(S)
BY DEF Audio!Cardinality, Cardinality

LEMMA HeardIs ==
  Audio!HeardInOrder <=>
    \A i \in 1 .. Len(heard) : heard[i] # Silence => heard[i] = Cardinality(Sounds(i - 1))
BY SameCardinality DEF Audio!HeardInOrder, Sounds

\* The indices of the ring are numbers, a lap apart at most.
LEMMA AudioNumbers ==
  ASSUME AudioTypeOK, AudioShape
  PROVE  /\ AudioFirst \in Nat /\ AudioLast \in Int /\ AudioLast < AudioFirst + AUDIO_CAPACITY
         /\ AudioLast < a_head + AUDIO_CAPACITY /\ a_head <= AudioFirst
BY AudioConstants DEF AudioTypeOK, AudioShape, AudioFirst, AudioLast

\* One more frame: silence, or the next sample.
LEMMA OneMoreFrame ==
  ASSUME heard \in Seq(Nat \cup {Silence}), NEW s \in Nat \cup {Silence},
         heard' = Append(heard, s), Audio!HeardInOrder,
         s # Silence => s = Cardinality(Sounds(Len(heard)))
  PROVE  /\ heard' \in Seq(Nat \cup {Silence})
         /\ Audio!HeardInOrder'
         /\ Cardinality(Sounds(Len(heard)))' =
              Cardinality(Sounds(Len(heard))) + (IF s = Silence THEN 0 ELSE 1)
<1> DEFINE n == Len(heard)
<1>1. /\ n \in Nat /\ heard' \in Seq(Nat \cup {Silence}) /\ Len(heard') = n + 1
      /\ \A i \in 1 .. n : heard'[i] = heard[i]
      /\ heard'[n + 1] = s
  OBVIOUS
<1> DEFINE New(k) == {j \in 1 .. k : heard'[j] # Silence}
<1> HIDE DEF n
<1>2. \A k \in 0 .. n : New(k) = Sounds(k)
  BY <1>1 DEF Sounds
<1>3. New(n + 1) = IF s = Silence THEN Sounds(n) ELSE Sounds(n) \cup {n + 1}
  BY <1>1 DEF Sounds
<1>4. IsFiniteSet(Sounds(n)) /\ n + 1 \notin Sounds(n) /\ Cardinality(Sounds(n)) \in Nat
  <2>1. IsFiniteSet(1 .. n)
    BY <1>1, FS_Interval
  <2>2. Sounds(n) \subseteq 1 .. n
    BY DEF Sounds
  <2> QED
    BY <1>1, <2>1, <2>2, FS_Subset, FS_CardinalityType
<1> HIDE DEF New
<1>5. Cardinality(New(n + 1)) = Cardinality(Sounds(n)) + (IF s = Silence THEN 0 ELSE 1)
  <2>1. CASE s = Silence
    BY <1>3, <1>4, <2>1
  <2>2. CASE s # Silence
    <3>1. Cardinality(Sounds(n) \cup {n + 1}) = Cardinality(Sounds(n)) + 1
      BY <1>4, FS_AddElement
    <3> QED
      BY <1>3, <2>2, <3>1
  <2> QED
    BY <2>1, <2>2
<1>6. \A i \in 1 .. n + 1 : heard'[i] # Silence => heard'[i] = Cardinality(New(i - 1))
  <2> SUFFICES ASSUME NEW i \in 1 .. n + 1, heard'[i] # Silence
               PROVE  heard'[i] = Cardinality(New(i - 1))
    OBVIOUS
  <2>1. i - 1 \in 0 .. n /\ New(i - 1) = Sounds(i - 1)
    BY <1>1, <1>2
  <2>2. CASE i = n + 1
    <3>1. heard'[i] = s /\ s # Silence /\ i - 1 = n
      BY <1>1, <2>2
    <3> QED
      BY <2>1, <3>1 DEF n
  <2>3. CASE i \in 1 .. n
    <3>1. heard[i] # Silence => heard[i] = Cardinality(Sounds(i - 1))
      BY <2>3, HeardIs DEF n
    <3> QED
      BY <1>1, <2>1, <2>3, <3>1
  <2> QED
    BY <1>1, <2>2, <2>3
<1>7. Audio!HeardInOrder'
  <2>1. \A i \in 1 .. n + 1 : heard'[i] # Silence =>
          heard'[i] = Cardinality({j \in 1 .. i - 1 : heard'[j] # Silence})
    BY <1>6 DEF New
  <2> QED
    BY <1>1, <2>1, SameCardinality DEF Audio!HeardInOrder
<1>8. Cardinality(Sounds(Len(heard)))' = Cardinality(New(n + 1))
  BY <1>1 DEF Sounds, New
<1> QED
  BY <1>1, <1>5, <1>7, <1>8 DEF n

LEMMA AudioInitially == Audio!Init => AudioInv
<1> SUFFICES ASSUME Audio!Init PROVE AudioInv
  OBVIOUS
<1>1. AudioTypeOK
  BY AudioConstants DEF Audio!Init, Audio!RingInit, AudioTypeOK, ASlots
<1>2. AudioFirst = 0 /\ AudioLast = -1 /\ AudioShape /\ Len(heard) = 0
  BY AudioConstants DEF Audio!Init, Audio!RingInit, AudioFirst, AudioLast, AudioShape
<1>3. AudioContents
  BY <1>2 DEF AudioContents
<1>4. Sounds(Len(heard)) = {}
  BY <1>2 DEF Sounds
<1>5. Filled = {} /\ \A i \in ASlots : slots[i] = Raw
  BY <1>2 DEF Filled, Audio!Init, Audio!RingInit, ASlots
<1>6. Audio!ObjectsLive
  BY <1>5, ObjectsAre
<1>7. Audio!HeardInOrder
  BY <1>2, HeardIs
<1> QED
  BY <1>1, <1>2, <1>3, <1>4, <1>6, <1>7, FS_EmptySet DEF AudioInv

\* A step that changes neither what is in the ring nor what was heard.
LEMMA AudioFrame ==
  ASSUME AudioInv, AudioTypeOK', AudioShape', lang' = lang, slots' = slots, heard' = heard,
         AudioFirst' = AudioFirst, AudioLast' = AudioLast
  PROVE  AudioInv'
<1>1. AudioContents' /\ Cardinality(Sounds(Len(heard)))' = AudioFirst'
  BY DEF AudioInv, AudioContents, Sounds
<1>2. Audio!HeardInOrder'
  BY DEF AudioInv, Audio!HeardInOrder
<1>3. Audio!ObjectsLive'
  BY DEF AudioInv, Audio!ObjectsLive, AudioFirst, AudioLast
<1> QED
  BY <1>1, <1>2, <1>3 DEF AudioInv

\* The producer puts the next sample into a slot that holds none.
LEMMA WriteKeeps ==
  ASSUME AudioInv, Audio!Write
  PROVE  AudioInv'
<1>1. /\ AudioTypeOK /\ AudioShape /\ a_head \in Nat /\ a_tail \in Nat
      /\ slots \in [ASlots -> Nat \cup {Raw}] /\ ASlot(a_tail) \in ASlots
      /\ AudioFirst \in Nat /\ AudioLast \in Int /\ a_head <= AudioFirst
      /\ AudioFirst <= a_tail /\ a_tail < a_head + AUDIO_CAPACITY /\ AudioLast = a_tail - 1
  BY ASlotIn, AudioNumbers DEF AudioInv, AudioTypeOK, AudioShape, Audio!Write, AudioFirst, AudioLast
<1>2. /\ slots' = [slots EXCEPT ![ASlot(a_tail)] = a_tail]
      /\ a_producer'.at = "publish" /\ AudioLast' = a_tail /\ AudioFirst' = AudioFirst
      /\ heard' = heard /\ lang' = lang
  BY <1>1 DEF AudioInv, AudioShape, AudioTypeOK, Audio!Write, AudioFirst, AudioLast, ASlot
<1>3. AudioTypeOK' /\ AudioShape'
  BY <1>1, <1>2 DEF AudioTypeOK, AudioShape, Audio!Write
<1>4. \A k \in AudioFirst .. a_tail - 1 :
        ASlot(k) \in ASlots /\ ASlot(k) # ASlot(a_tail) /\ slots[ASlot(k)] = k
  <2> SUFFICES ASSUME NEW k \in AudioFirst .. a_tail - 1
               PROVE  ASlot(k) \in ASlots /\ ASlot(k) # ASlot(a_tail) /\ slots[ASlot(k)] = k
    OBVIOUS
  <2>1. k \in Nat /\ k # a_tail /\ k < a_tail + AUDIO_CAPACITY /\ a_tail < k + AUDIO_CAPACITY
    BY <1>1, AudioConstants
  <2> QED
    BY <1>1, <2>1, ASlotIn, ASameSlot DEF AudioInv, AudioContents
<1>5. AudioContents'
  <2> SUFFICES ASSUME NEW k \in AudioFirst .. a_tail PROVE slots'[ASlot(k)] = k
    BY <1>2 DEF AudioContents, ASlot
  <2>1. k = a_tail \/ k \in AudioFirst .. a_tail - 1
    BY <1>1
  <2> QED
    BY <1>1, <1>2, <1>4, <2>1
<1>6. lang = "Cpp" => {i \in ASlots : slots'[i] # Raw} = {ASlot(k) : k \in AudioFirst .. a_tail}
  <2> SUFFICES ASSUME lang = "Cpp", NEW i \in ASlots
               PROVE  slots'[i] # Raw <=> \E k \in AudioFirst .. a_tail : i = ASlot(k)
    <3>1. \A k \in AudioFirst .. a_tail : ASlot(k) \in ASlots
      BY <1>1, ASlotIn
    <3> QED
      BY <3>1
  <2>1. slots[i] # Raw <=> \E k \in AudioFirst .. a_tail - 1 : i = ASlot(k)
    BY <1>1, ObjectsAre DEF AudioInv, Filled
  <2>2. slots'[i] # Raw <=> slots[i] # Raw \/ i = ASlot(a_tail)
    BY <1>1, <1>2, AudioConstants
  <2>3. AudioFirst .. a_tail = (AudioFirst .. a_tail - 1) \cup {a_tail}
    BY <1>1
  <2> QED
    BY <2>1, <2>2, <2>3
<1>7. Audio!ObjectsLive'
  BY <1>2, <1>6 DEF Audio!ObjectsLive, ASlot, ASlots, AudioFirst, AudioLast
<1>8. Cardinality(Sounds(Len(heard)))' = AudioFirst' /\ Audio!HeardInOrder'
  BY <1>2 DEF AudioInv, Audio!HeardInOrder, Sounds
<1> QED
  BY <1>3, <1>5, <1>7, <1>8 DEF AudioInv

\* The callback hears the next sample, and in C++ destroys the object.
LEMMA ReadKeeps ==
  ASSUME AudioInv, Audio!Read
  PROVE  AudioInv'
<1>1. /\ AudioTypeOK /\ AudioShape /\ a_head \in Nat /\ a_tail \in Nat
      /\ slots \in [ASlots -> Nat \cup {Raw}] /\ ASlot(a_head) \in ASlots
      /\ AudioFirst = a_head /\ AudioLast \in Int /\ a_head <= AudioLast
      /\ AudioLast < a_head + AUDIO_CAPACITY
  BY ASlotIn, AudioNumbers DEF AudioInv, AudioTypeOK, AudioShape, Audio!Read, AudioFirst, AudioLast
<1>2. slots[ASlot(a_head)] = a_head
  BY <1>1 DEF AudioInv, AudioContents
<1>3. /\ heard' = Append(heard, a_head) /\ lang' = lang /\ a_head' = a_head
      /\ slots' = IF lang = "Cpp" THEN [slots EXCEPT ![ASlot(a_head)] = Raw] ELSE slots
      /\ callback' = "release" /\ AudioLast' = AudioLast /\ AudioFirst' = a_head + 1
  BY <1>2 DEF Audio!Read, Audio!Hear, ASlot, AudioLast, AudioFirst
<1>4. /\ heard' \in Seq(Nat \cup {Silence}) /\ Audio!HeardInOrder'
      /\ Cardinality(Sounds(Len(heard)))' = a_head + 1
  BY <1>1, <1>3, OneMoreFrame, AudioConstants DEF AudioInv, AudioTypeOK
<1>5. AudioTypeOK' /\ AudioShape'
  <2>1. slots' \in [ASlots -> Nat \cup {Raw}]
    BY <1>1, <1>3
  <2> QED
    BY <1>1, <1>3, <1>4, <2>1 DEF AudioTypeOK, AudioShape, Audio!Read
<1>6. \A k \in a_head + 1 .. AudioLast :
        ASlot(k) \in ASlots /\ ASlot(k) # ASlot(a_head) /\ slots[ASlot(k)] = k
  <2> SUFFICES ASSUME NEW k \in a_head + 1 .. AudioLast
               PROVE  ASlot(k) \in ASlots /\ ASlot(k) # ASlot(a_head) /\ slots[ASlot(k)] = k
    OBVIOUS
  <2>1. k \in Nat /\ k # a_head /\ k < a_head + AUDIO_CAPACITY /\ a_head < k + AUDIO_CAPACITY
    BY <1>1, AudioConstants
  <2> QED
    BY <1>1, <2>1, ASlotIn, ASameSlot DEF AudioInv, AudioContents
<1>7. AudioContents'
  <2> SUFFICES ASSUME NEW k \in a_head + 1 .. AudioLast PROVE slots'[ASlot(k)] = k
    BY <1>3 DEF AudioContents, ASlot
  <2> QED
    BY <1>1, <1>3, <1>6
<1>8. lang = "Cpp" => {i \in ASlots : slots'[i] # Raw} = {ASlot(k) : k \in a_head + 1 .. AudioLast}
  <2> SUFFICES ASSUME lang = "Cpp", NEW i \in ASlots
               PROVE  slots'[i] # Raw <=> \E k \in a_head + 1 .. AudioLast : i = ASlot(k)
    BY <1>6
  <2>1. slots[i] # Raw <=> \E k \in a_head .. AudioLast : i = ASlot(k)
    BY <1>1, ObjectsAre DEF AudioInv, Filled
  <2>2. slots'[i] # Raw <=> slots[i] # Raw /\ i # ASlot(a_head)
    BY <1>1, <1>3
  <2>3. a_head .. AudioLast = (a_head + 1 .. AudioLast) \cup {a_head}
    BY <1>1
  <2> QED
    BY <1>6, <2>1, <2>2, <2>3
<1>9. Audio!ObjectsLive'
  BY <1>3, <1>8 DEF Audio!ObjectsLive, ASlot, ASlots, AudioFirst, AudioLast
<1> QED
  BY <1>3, <1>4, <1>5, <1>7, <1>9 DEF AudioInv

\* An empty ring is heard as silence; otherwise the callback goes on to read.
LEMMA PullKeeps ==
  ASSUME AudioInv, Audio!Pull
  PROVE  AudioInv'
<1>1. AudioTypeOK /\ AudioShape /\ a_head \in Nat /\ a_tail \in Nat /\ callback = "pull"
  BY DEF AudioInv, AudioTypeOK, Audio!Pull
<1>2. /\ slots' = slots /\ lang' = lang /\ AudioFirst' = AudioFirst /\ AudioLast' = AudioLast
      /\ AudioFirst = a_head
  BY DEF Audio!Pull, AudioFirst, AudioLast
<1>3. CASE a_head = a_tail
  <2>1. heard' = Append(heard, Silence) /\ callback' = "count"
    BY <1>3 DEF Audio!Pull, Audio!Hear
  <2>2. /\ heard' \in Seq(Nat \cup {Silence}) /\ Audio!HeardInOrder'
        /\ Cardinality(Sounds(Len(heard)))' = AudioFirst'
    <3>1. heard \in Seq(Nat \cup {Silence}) /\ Silence \in Nat \cup {Silence}
      BY <1>1 DEF AudioTypeOK
    <3>2. /\ heard' \in Seq(Nat \cup {Silence}) /\ Audio!HeardInOrder'
          /\ Cardinality(Sounds(Len(heard)))' = Cardinality(Sounds(Len(heard))) + 0
      BY <2>1, <3>1, OneMoreFrame DEF AudioInv
    <3> QED
      BY <1>1, <1>2, <3>2 DEF AudioInv
  <2>3. AudioTypeOK' /\ AudioShape'
    BY <1>1, <2>1, <2>2 DEF AudioTypeOK, AudioShape, Audio!Pull
  <2>4. AudioContents' /\ Audio!ObjectsLive'
    BY <1>2 DEF AudioInv, AudioContents, Audio!ObjectsLive, AudioFirst, AudioLast
  <2> QED
    BY <2>2, <2>3, <2>4 DEF AudioInv
<1>4. CASE a_head # a_tail
  <2>1. AudioTypeOK' /\ AudioShape' /\ heard' = heard
    BY <1>1, <1>4 DEF AudioTypeOK, AudioShape, Audio!Pull
  <2> QED
    BY <1>2, <2>1, AudioFrame
<1> QED
  BY <1>3, <1>4

\* The other steps change neither the ring's content nor what was heard: publishing and
\* releasing only move on what counts as inside.
LEMMA AudioOthersKeep ==
  ASSUME AudioInv,
         \/ Audio!Loop \/ Audio!Offer \/ Audio!Publish
         \/ Audio!Release \/ Audio!Count \/ Audio!Join
  PROVE  AudioInv'
<1>1. AudioTypeOK /\ AudioShape /\ a_head \in Nat /\ a_tail \in Nat /\ AUDIO_CAPACITY \in Nat
  BY AudioConstants DEF AudioInv, AudioTypeOK
<1>2. slots' = slots /\ lang' = lang /\ heard' = heard
  BY DEF Audio!Loop, Audio!Offer, Audio!Publish, Audio!Release, Audio!Count, Audio!Join
<1>3. AudioTypeOK' /\ AudioFirst' = AudioFirst /\ AudioLast' = AudioLast
  <2>1. CASE Audio!Loop
    BY <1>1, <2>1 DEF Audio!Loop, AudioTypeOK, AudioFirst, AudioLast
  <2>2. CASE Audio!Offer
    BY <1>1, <2>2 DEF Audio!Offer, AudioTypeOK, AudioFirst, AudioLast
  <2>3. CASE Audio!Publish
    BY <1>1, <2>3 DEF Audio!Publish, AudioTypeOK, AudioFirst, AudioLast
  <2>4. CASE Audio!Release
    BY <1>1, <2>4 DEF Audio!Release, AudioTypeOK, AudioFirst, AudioLast
  <2>5. CASE Audio!Count \/ Audio!Join
    BY <1>1, <2>5 DEF Audio!Count, Audio!Join, AudioTypeOK, AudioFirst, AudioLast
  <2> QED
    BY <2>1, <2>2, <2>3, <2>4, <2>5
<1>4. AudioShape'
  <2>1. CASE Audio!Loop
    BY <1>1, <2>1 DEF Audio!Loop, AudioTypeOK, AudioShape
  <2>2. CASE Audio!Offer
    BY <1>1, <2>2 DEF Audio!Offer, Audio!Room, AudioTypeOK, AudioShape
  <2>3. CASE Audio!Publish
    BY <1>1, <2>3 DEF Audio!Publish, AudioTypeOK, AudioShape
  <2>4. CASE Audio!Release
    BY <1>1, <2>4 DEF Audio!Release, AudioTypeOK, AudioShape
  <2>5. CASE Audio!Count \/ Audio!Join
    BY <1>1, <2>5 DEF Audio!Count, Audio!Join, AudioTypeOK, AudioShape
  <2> QED
    BY <2>1, <2>2, <2>3, <2>4, <2>5
<1> QED
  BY <1>2, <1>3, <1>4, AudioFrame

LEMMA AudioStep == AudioInv /\ [MCNext]_allvars => AudioInv'
<1> SUFFICES ASSUME AudioInv, [MCNext]_allvars PROVE AudioInv'
  OBVIOUS
<1>1. CASE Audio!Next
  BY <1>1, WriteKeeps, ReadKeeps, PullKeeps, AudioOthersKeep
     DEF Audio!Next, Audio!ProducerStep, Audio!CallbackStep
<1>2. CASE UNCHANGED avars
  <2>1. AudioTypeOK' /\ AudioShape' /\ AudioFirst' = AudioFirst /\ AudioLast' = AudioLast
    BY <1>2 DEF avars, AudioInv, AudioTypeOK, AudioShape, AudioFirst, AudioLast
  <2> QED
    BY <1>2, <2>1, AudioFrame DEF avars
<1> QED
  BY <1>1, <1>2 DEF MCNext, Day22, Day11, Playing, Runs, allvars

THEOREM AudioInvariance == MCSpec => []AudioInv
<1>1. MCInit => AudioInv
  BY AudioInitially DEF MCInit
<1> QED
  BY <1>1, AudioStep, PTL DEF MCSpec

-----------------------------------------------------------------------------
\* All four programs with one producer and one consumer: what is popped is what was
\* pushed, in order, and the players hear the sound from its start.
THEOREM ArrivalInOrder == MCSpec => []ArrivesInOrder
<1>1. MCInit => Inv
  BY InitInv DEF MCInit
<1>2. Inv /\ [MCNext]_allvars => Inv'
  <2> SUFFICES ASSUME Inv, [MCNext]_allvars PROVE Inv'
    OBVIOUS
  <2>1. Next \/ UNCHANGED vars
    BY DEF MCNext, Day22, Day11, Playing, Runs, allvars
  <2> QED
    BY <2>1, NextInv
<1>3. Inv /\ WrappedInv /\ AudioInv => ArrivesInOrder
  BY DEF Inv, WrappedInv, AudioInv, ArrivesInOrder
<1> QED
  BY <1>1, <1>2, <1>3, WrappedInvariance, AudioInvariance, PTL DEF MCSpec
=============================================================================
