----------------------------- MODULE MPMCQueue ------------------------------
(***************************************************************************)
(* The bounded lock-free multi-producer multi-consumer queue of Day 11     *)
(* (MPMC.c; MPMC.cpp and the copy inside Day 37's ActorModel.c run the     *)
(* same steps), driven by the threads of its stress test MPMC_test.c:      *)
(* every producer pushes ItemsPerThread distinct values, retrying while    *)
(* the queue is full, every consumer pops until it has ItemsPerThread.     *)
(*                                                                         *)
(* Each atomic operation of queue_push and queue_pop is one step, and so   *)
(* is the plain access to slot->data, so that a second thread can be       *)
(* scheduled between any two of them.  Positions are unbounded naturals:   *)
(* size_t wraps only after 2^64 operations.                                *)
(***************************************************************************)
EXTENDS Naturals, Sequences, FiniteSets

CONSTANTS Producers, Consumers,   \* the two sets of threads
          CAPACITY,               \* slots in the ring
          ItemsPerThread,         \* ITEMS_PER_THREAD of the stress test
          None                    \* the initial content of a slot or a local

\* With a single slot the mark "published at k" and the mark "free for k + 1"
\* are the same number, so the algorithm needs two slots.
ASSUME QueueAssumption ==
  /\ Producers \cap Consumers = {}
  /\ CAPACITY \in Nat /\ CAPACITY >= 2
  /\ ItemsPerThread \in Nat
  /\ None \notin Producers \X Nat

VARIABLES head, tail,   \* q->head, q->tail
          sequence,     \* slots[i].sequence
          data,         \* slots[i].data
          pc,           \* where each thread is inside queue_push / queue_pop
          pos,          \* the local pos of that call
          val,          \* a consumer's local val
          sent,         \* a producer's loop counter i
          popped,       \* the values each consumer has received, in order
          log           \* history: the values by the position they claimed

vars == <<head, tail, sequence, data, pc, pos, val, sent, popped, log>>

Threads == Producers \cup Consumers
Slots   == 0 .. CAPACITY - 1
Values  == Producers \X Nat
Slot(k) == k % CAPACITY

\* The value producer p is pushing: thread_id * ITEMS_PER_THREAD + i + 1.
Item(p) == <<p, sent[p]>>

Init ==
  /\ head = 0
  /\ tail = 0
  /\ sequence = [i \in Slots |-> i]
  /\ data = [i \in Slots |-> None]
  /\ pc = [t \in Threads |-> "load_pos"]
  /\ pos = [t \in Threads |-> 0]
  /\ val = [c \in Consumers |-> None]
  /\ sent = [p \in Producers |-> 0]
  /\ popped = [c \in Consumers |-> <<>>]
  /\ log = <<>>

Goto(t, label) == pc' = [pc EXCEPT ![t] = label]
SetPos(t, k)   == pos' = [pos EXCEPT ![t] = k]

-----------------------------------------------------------------------------
(* Slips: faulty forms of steps defined below.  Each breaks one of the      *)
(* properties at the end of the module; none is part of Next.               *)

PushStoreTail(p) ==                     \* tail stored without a compare
  /\ pc[p] = "cas"
  /\ tail' = pos[p] + 1
  /\ log' = Append(log, Item(p))
  /\ Goto(p, "access")
  /\ UNCHANGED <<head, sequence, data, pos, val, sent, popped>>

PushCasPublishes(p) ==                  \* sequence published before the write
  /\ pc[p] = "cas"
  /\ tail = pos[p]
  /\ tail' = pos[p] + 1
  /\ sequence' = [sequence EXCEPT ![Slot(pos[p])] = pos[p] + 1]
  /\ log' = Append(log, Item(p))
  /\ Goto(p, "access")
  /\ UNCHANGED <<head, data, pos, val, sent, popped>>

PushFullOnReady(p) ==                   \* diff <= 0 taken for full
  /\ pc[p] = "load_seq"
  /\ sequence[Slot(pos[p])] <= pos[p]
  /\ Goto(p, "load_pos")
  /\ UNCHANGED <<head, tail, sequence, data, pos, val, sent, popped, log>>

PopReleaseEarly(c) ==                   \* the slot is never freed for the next lap
  /\ pc[c] = "publish"
  /\ sequence' = [sequence EXCEPT ![Slot(pos[c])] = pos[c] + 1]
  /\ popped' = [popped EXCEPT ![c] = Append(@, val[c])]
  /\ Goto(c, "load_pos")
  /\ UNCHANGED <<head, tail, data, pos, val, sent, log>>

-----------------------------------------------------------------------------
(* queue_push *)

\* pos = load(tail): on entry, and again when the slot turned out stale.
PushLoadPos(p) ==
  /\ pc[p] = "load_pos"
  /\ sent[p] < ItemsPerThread
  /\ SetPos(p, tail)
  /\ Goto(p, "load_seq")
  /\ UNCHANGED <<head, tail, sequence, data, val, sent, popped, log>>

\* seq = load(slot->sequence), diff = seq - pos.
PushReady(p) ==                         \* diff == 0
  /\ pc[p] = "load_seq"
  /\ sequence[Slot(pos[p])] = pos[p]
  /\ Goto(p, "cas")
  /\ UNCHANGED <<head, tail, sequence, data, pos, val, sent, popped, log>>

PushFull(p) ==                          \* diff < 0: return false, caller retries
  /\ pc[p] = "load_seq"
  /\ sequence[Slot(pos[p])] < pos[p]
  /\ Goto(p, "load_pos")
  /\ UNCHANGED <<head, tail, sequence, data, pos, val, sent, popped, log>>

PushStale(p) ==                         \* diff > 0: reload pos
  /\ pc[p] = "load_seq"
  /\ sequence[Slot(pos[p])] > pos[p]
  /\ Goto(p, "load_pos")
  /\ UNCHANGED <<head, tail, sequence, data, pos, val, sent, popped, log>>

PushCasOk(p) ==
  /\ pc[p] = "cas"
  /\ tail = pos[p]
  /\ tail' = pos[p] + 1
  /\ log' = Append(log, Item(p))
  /\ Goto(p, "access")
  /\ UNCHANGED <<head, sequence, data, pos, val, sent, popped>>

\* The weak CAS fails when tail has moved, and may fail when it has not; either
\* way it leaves the current tail in pos.
PushCasFail(p) ==
  /\ pc[p] = "cas"
  /\ SetPos(p, tail)
  /\ Goto(p, "load_seq")
  /\ UNCHANGED <<head, tail, sequence, data, val, sent, popped, log>>

PushWrite(p) ==                         \* slot->data = val
  /\ pc[p] = "access"
  /\ data' = [data EXCEPT ![Slot(pos[p])] = Item(p)]
  /\ Goto(p, "publish")
  /\ UNCHANGED <<head, tail, sequence, pos, val, sent, popped, log>>

PushPublish(p) ==                       \* store(slot->sequence, pos + 1); return true
  /\ pc[p] = "publish"
  /\ sequence' = [sequence EXCEPT ![Slot(pos[p])] = pos[p] + 1]
  /\ sent' = [sent EXCEPT ![p] = @ + 1]
  /\ Goto(p, "load_pos")
  /\ UNCHANGED <<head, tail, data, pos, val, popped, log>>

-----------------------------------------------------------------------------
(* queue_pop *)

PopLoadPos(c) ==
  /\ pc[c] = "load_pos"
  /\ Len(popped[c]) < ItemsPerThread
  /\ SetPos(c, head)
  /\ Goto(c, "load_seq")
  /\ UNCHANGED <<head, tail, sequence, data, val, sent, popped, log>>

PopReady(c) ==                          \* diff == 0
  /\ pc[c] = "load_seq"
  /\ sequence[Slot(pos[c])] = pos[c] + 1
  /\ Goto(c, "cas")
  /\ UNCHANGED <<head, tail, sequence, data, pos, val, sent, popped, log>>

PopEmpty(c) ==                          \* diff < 0: return false, caller retries
  /\ pc[c] = "load_seq"
  /\ sequence[Slot(pos[c])] < pos[c] + 1
  /\ Goto(c, "load_pos")
  /\ UNCHANGED <<head, tail, sequence, data, pos, val, sent, popped, log>>

PopStale(c) ==                          \* diff > 0: reload pos
  /\ pc[c] = "load_seq"
  /\ sequence[Slot(pos[c])] > pos[c] + 1
  /\ Goto(c, "load_pos")
  /\ UNCHANGED <<head, tail, sequence, data, pos, val, sent, popped, log>>

PopCasOk(c) ==
  /\ pc[c] = "cas"
  /\ head = pos[c]
  /\ head' = pos[c] + 1
  /\ Goto(c, "access")
  /\ UNCHANGED <<tail, sequence, data, pos, val, sent, popped, log>>

PopCasFail(c) ==
  /\ pc[c] = "cas"
  /\ SetPos(c, head)
  /\ Goto(c, "load_seq")
  /\ UNCHANGED <<head, tail, sequence, data, val, sent, popped, log>>

PopRead(c) ==                           \* *val = slot->data
  /\ pc[c] = "access"
  /\ val' = [val EXCEPT ![c] = data[Slot(pos[c])]]
  /\ Goto(c, "publish")
  /\ UNCHANGED <<head, tail, sequence, data, pos, sent, popped, log>>

PopRelease(c) ==                        \* store(slot->sequence, pos + CAPACITY); return true
  /\ pc[c] = "publish"
  /\ sequence' = [sequence EXCEPT ![Slot(pos[c])] = pos[c] + CAPACITY]
  /\ popped' = [popped EXCEPT ![c] = Append(@, val[c])]
  /\ Goto(c, "load_pos")
  /\ UNCHANGED <<head, tail, data, pos, val, sent, log>>

-----------------------------------------------------------------------------
Push(p) ==
  \/ PushLoadPos(p) \/ PushReady(p) \/ PushFull(p) \/ PushStale(p)
  \/ PushCasOk(p) \/ PushCasFail(p) \/ PushWrite(p) \/ PushPublish(p)

Pop(c) ==
  \/ PopLoadPos(c) \/ PopReady(c) \/ PopEmpty(c) \/ PopStale(c)
  \/ PopCasOk(c) \/ PopCasFail(c) \/ PopRead(c) \/ PopRelease(c)

Next == (\E p \in Producers : Push(p)) \/ (\E c \in Consumers : Pop(c))

Spec == Init /\ [][Next]_vars

\* Every thread keeps running, and a CAS that can succeed again and again does
\* in the end: a weak CAS may fail spuriously, but not for ever.
Fairness ==
  /\ \A p \in Producers : WF_vars(Push(p)) /\ SF_vars(PushCasOk(p))
  /\ \A c \in Consumers : WF_vars(Pop(c)) /\ SF_vars(PopCasOk(c))

FairSpec == Spec /\ Fairness
-----------------------------------------------------------------------------
(* Properties *)

Accessing(t) == pc[t] \in {"access", "publish"}   \* owns the slot of pos[t]

\* The types of the queue, of the locals and of the harness; the harness never
\* runs past its loop bounds.
TypeOK ==
  /\ head \in Nat
  /\ tail \in Nat
  /\ sequence \in [Slots -> Nat]
  /\ data \in [Slots -> Values \cup {None}]
  /\ pc \in [Threads -> {"load_pos", "load_seq", "cas", "access", "publish"}]
  /\ pos \in [Threads -> Nat]
  /\ val \in [Consumers -> Values \cup {None}]
  /\ sent \in [Producers -> 0 .. ItemsPerThread]
  /\ popped \in [Consumers -> Seq(Values \cup {None})]
  /\ log \in Seq(Values)

\* No two threads are ever inside the same slot between winning their CAS and
\* publishing it, so the plain accesses to slot->data never race.
SlotExclusive ==
  \A t, u \in Threads :
    t # u /\ Accessing(t) /\ Accessing(u) => Slot(pos[t]) # Slot(pos[u])

\* What a consumer has read from its slot is the value whose producer claimed
\* that position: never the value of an earlier lap, nor an unwritten slot.
ReadsWhatWasPushed ==
  \A c \in Consumers :
    pc[c] = "publish" => pos[c] < Len(log) /\ val[c] = log[pos[c] + 1]

\* queue_push returns false only when the slot it needs is still taken: all
\* CAPACITY slots hold unclaimed items, or the consumer that claimed the item of
\* the previous lap has not released it yet.
FullMeansFull ==
  [][\A p \in Producers : PushFull(p) =>
       LET k == pos[p] - CAPACITY
       IN  \/ head <= k /\ k < tail
           \/ \E c \in Consumers : Accessing(c) /\ pos[c] = k]_vars

\* queue_pop returns false only when nothing is unclaimed, or the producer that
\* claimed the oldest position has not published it yet.
EmptyMeansEmpty ==
  [][\A c \in Consumers : PopEmpty(c) =>
       \/ head = tail
       \/ \E p \in Producers : Accessing(p) /\ pos[p] = head]_vars

\* Both answers are right whenever they are given.
AnswersAreRight == FullMeansFull /\ EmptyMeansEmpty

\* The queue behaves as the abstract bounded FIFO: the linearisation points are
\* the two successful CASes.
Claimed(c) == IF Accessing(c) THEN log[pos[c] + 1] ELSE None

Abstract == INSTANCE BoundedQueue
  WITH Values <- Producers \X (0 .. ItemsPerThread - 1), Capacity <- CAPACITY,
       items <- SubSeq(log, head + 1, tail),
       claimed <- [c \in Consumers |-> Claimed(c)],
       delivered <- popped

ImplementsBoundedQueue == Abstract!Spec

\* The stress test ends: every value pushed is received ("0 dropped").
Received == UNION {{popped[c][i] : i \in DOMAIN popped[c]} : c \in Consumers}

AllDelivered == <>(Received = Producers \X (0 .. ItemsPerThread - 1))
=============================================================================
