---------------------------- MODULE TreiberStack ----------------------------
(***************************************************************************)
(* The lock-free stack of Day 33 (TrieberStack.c): a tagged head changed   *)
(* by compare-and-swap, one hazard pointer per popping thread, a retire    *)
(* list for popped nodes that are still somebody's hazard; driven by the   *)
(* producers and consumers of its stress test.                             *)
(*                                                                         *)
(* One step is one access to shared memory: a load or CAS of the head, a   *)
(* load of node->next, a store to or a load of a hazard slot.  A node is   *)
(* an address of the allocator, which may hand out again any address that  *)
(* was freed.                                                              *)
(*                                                                         *)
(* A hazard is published by a release store and the head is loaded again   *)
(* with acquire.  That order lets the load be satisfied before the store   *)
(* is visible to other threads (C11, and x86 store buffers): with          *)
(* StoreBuffered the stores of a thread wait in pending[c] until they are  *)
(* flushed, at the latest by the thread's next atomic read-modify-write or *)
(* mutex operation; without it they are visible at once.                   *)
(***************************************************************************)
EXTENDS Naturals, Sequences, FiniteSets

CONSTANTS Producers, Consumers,
          Nodes,                \* the addresses malloc can return
          MSGS_PER_PRODUCER,
          SWEEP_PERIOD,         \* 256: a sweep every so many pops
          TAG_MODULUS,          \* the tag is a uint64_t
          StoreBuffered,        \* may a hazard store be delayed?
          NULL

ASSUME StackAssumption ==
  /\ Producers \cap Consumers = {} /\ IsFiniteSet(Producers)
  /\ NULL \notin Nodes \cup Consumers
  /\ MSGS_PER_PRODUCER \in Nat
  /\ SWEEP_PERIOD \in Nat \ {0}
  /\ TAG_MODULUS \in Nat \ {0}
  /\ StoreBuffered \in BOOLEAN
  /\ NULL \notin Nodes

VARIABLES head,      \* s->head: the pair (ptr, tag)
          next,      \* node->next
          live,      \* the allocated nodes
          hazard,    \* g_hazard, by consumer, as other threads see it
          pending,   \* hazard stores not yet visible to other threads
          retired,   \* g_retire_list, front first
          lock,      \* who holds g_retire_lock
          active,    \* g_active_producers
          pc,        \* where each thread is
          old,       \* the locals raw1 / old_raw
          node,      \* a producer's node, the local next or the popped node
          toScan,    \* hazard slots node_is_hazardous has still to look at
          cur,       \* the sweep's position in retired
          made,      \* a producer's loop counter j
          count,     \* a consumer's local_count
          draining,  \* in the pop after the "no producer, empty" test
          stack      \* history: the nodes on the stack, top first

shared == <<head, next, live, hazard, pending, retired, lock, active, stack>>
locals == <<pc, old, node, toScan, cur, made, count, draining>>
vars   == <<shared, locals>>

Threads == Producers \cup Consumers
Heads   == [ptr : Nodes \cup {NULL}, tag : 0 .. TAG_MODULUS - 1]
Bump(k) == (k + 1) % TAG_MODULUS

Init ==
  /\ head = [ptr |-> NULL, tag |-> 0]
  /\ next = [n \in Nodes |-> NULL]
  /\ live = {}
  /\ hazard = [c \in Consumers |-> NULL]
  /\ pending = [c \in Consumers |-> <<>>]
  /\ retired = <<>>
  /\ lock = NULL
  /\ active = Cardinality(Producers)
  /\ pc = [t \in Threads |-> IF t \in Producers THEN "malloc" ELSE "load"]
  /\ old = [t \in Threads |-> [ptr |-> NULL, tag |-> 0]]
  /\ node = [t \in Threads |-> NULL]
  /\ toScan = [c \in Consumers |-> {}]
  /\ cur = [c \in Consumers |-> 1]
  /\ made = [p \in Producers |-> 0]
  /\ count = [c \in Consumers |-> 0]
  /\ draining = [c \in Consumers |-> FALSE]
  /\ stack = <<>>

Goto(t, label) == pc' = [pc EXCEPT ![t] = label]
SetNode(t, n)  == node' = [node EXCEPT ![t] = n]

\* A store to this thread's hazard slot.
StoreHazard(c, n) ==
  IF StoreBuffered
  THEN pending' = [pending EXCEPT ![c] = Append(@, n)] /\ UNCHANGED hazard
  ELSE hazard' = [hazard EXCEPT ![c] = n] /\ UNCHANGED pending

\* A locked instruction or a mutex operation waits for the thread's own stores.
Flushed(c) == pending[c] = <<>>

\* A CAS on the whole (ptr, tag) word finds what the thread expects.
HeadIs(t) == head = old[t]
-----------------------------------------------------------------------------
(* Slips: faulty forms of definitions below; none is part of Next.          *)

PushCasFailKeepsLink(p) ==              \* retries without linking to the new head
  /\ pc[p] = "push_cas"
  /\ old' = [old EXCEPT ![p] = head]
  /\ UNCHANGED <<shared, pc, node, toScan, cur, made, count, draining>>

PopRecheckSkipped(c) ==                 \* the head is not loaded a second time
  /\ pc[c] = "recheck"
  /\ Goto(c, "read")
  /\ UNCHANGED <<shared, old, node, toScan, cur, made, count, draining>>

SweepFreeKeepsLink(c) ==                \* freed but left on the retire list
  /\ pc[c] = "sweep_scan"
  /\ toScan[c] = {}
  /\ live' = live \ {node[c]}
  /\ cur' = [cur EXCEPT ![c] = @ + 1]
  /\ SetNode(c, NULL)
  /\ Goto(c, "sweep_next")
  /\ UNCHANGED <<head, next, hazard, pending, retired, lock, active, stack,
                 old, toScan, made, count, draining>>

EmptyDrainEarly(c) ==                   \* does not look at g_active_producers
  /\ pc[c] = "empty" /\ ~draining[c]
  /\ head.ptr = NULL
  /\ draining' = [draining EXCEPT ![c] = TRUE]
  /\ Goto(c, "load")
  /\ UNCHANGED <<shared, old, node, toScan, cur, made, count>>

-----------------------------------------------------------------------------
(* stack_push and the producer thread *)

Malloc(p) ==
  /\ pc[p] = "malloc"
  /\ made[p] < MSGS_PER_PRODUCER
  /\ \E n \in Nodes \ live : live' = live \cup {n} /\ SetNode(p, n)
  /\ Goto(p, "push")
  /\ UNCHANGED <<head, next, hazard, pending, retired, lock, active, stack,
                 old, toScan, cur, made, count, draining>>

\* Load the head (or take the value a failed CAS left) and link the node, which
\* no other thread can see yet, in front of it.
PushLink(p) ==
  /\ pc[p] = "push"
  /\ old' = [old EXCEPT ![p] = head]
  /\ next' = [next EXCEPT ![node[p]] = head.ptr]
  /\ Goto(p, "push_cas")
  /\ UNCHANGED <<head, live, hazard, pending, retired, lock, active, stack,
                 node, toScan, cur, made, count, draining>>

PushCasOk(p) ==
  /\ pc[p] = "push_cas"
  /\ HeadIs(p)
  /\ head' = [ptr |-> node[p], tag |-> Bump(old[p].tag)]
  /\ stack' = <<node[p]>> \o stack
  /\ made' = [made EXCEPT ![p] = @ + 1]
  /\ SetNode(p, NULL)
  /\ Goto(p, "malloc")
  /\ UNCHANGED <<next, live, hazard, pending, retired, lock, active,
                 old, toScan, cur, count, draining>>

PushCasFail(p) ==
  /\ pc[p] = "push_cas"
  /\ Goto(p, "push")
  /\ UNCHANGED <<shared, old, node, toScan, cur, made, count, draining>>

ProducerDone(p) ==                      \* fetch_sub(g_active_producers)
  /\ pc[p] = "malloc"
  /\ made[p] = MSGS_PER_PRODUCER
  /\ active' = active - 1
  /\ Goto(p, "done")
  /\ UNCHANGED <<head, next, live, hazard, pending, retired, lock, stack,
                 old, node, toScan, cur, made, count, draining>>

-----------------------------------------------------------------------------
(* stack_pop *)

\* Load the head; an empty stack clears the hazard and returns NULL.
PopLoad(c) ==
  /\ pc[c] = "load"
  /\ old' = [old EXCEPT ![c] = head]
  /\ IF head.ptr = NULL
     THEN StoreHazard(c, NULL) /\ Goto(c, "empty")
     ELSE UNCHANGED <<hazard, pending>> /\ Goto(c, "publish")
  /\ UNCHANGED <<head, next, live, retired, lock, active, stack,
                 node, toScan, cur, made, count, draining>>

PopPublish(c) ==                        \* g_hazard[slot] = tp1.ptr
  /\ pc[c] = "publish"
  /\ StoreHazard(c, old[c].ptr)
  /\ Goto(c, "recheck")
  /\ UNCHANGED <<head, next, live, retired, lock, active, stack,
                 old, node, toScan, cur, made, count, draining>>

PopRecheck(c) ==                        \* raw2 = load(head); raw2 != raw1: retry
  /\ pc[c] = "recheck"
  /\ Goto(c, IF HeadIs(c) THEN "read" ELSE "load")
  /\ UNCHANGED <<shared, old, node, toScan, cur, made, count, draining>>

PopReadNext(c) ==                       \* next = tp1.ptr->next
  /\ pc[c] = "read"
  /\ SetNode(c, next[old[c].ptr])
  /\ Goto(c, "cas")
  /\ UNCHANGED <<shared, old, toScan, cur, made, count, draining>>

PopCasOk(c) ==
  /\ pc[c] = "cas"
  /\ Flushed(c)
  /\ HeadIs(c)
  /\ head' = [ptr |-> node[c], tag |-> Bump(old[c].tag)]
  /\ stack' = Tail(stack)
  /\ SetNode(c, old[c].ptr)
  /\ Goto(c, "clear")
  /\ UNCHANGED <<next, live, hazard, pending, retired, lock, active,
                 old, toScan, cur, made, count, draining>>

PopCasFail(c) ==                        \* also spuriously: a weak CAS
  /\ pc[c] = "cas"
  /\ Flushed(c)
  /\ Goto(c, "load")
  /\ UNCHANGED <<shared, old, node, toScan, cur, made, count, draining>>

\* g_hazard[slot] = NULL, return the node; the consumer counts it and calls
\* retire_node, which starts to look at the hazard slots.  The thread's own slot
\* holds NULL, so only the others matter.
PopClear(c) ==
  /\ pc[c] = "clear"
  /\ StoreHazard(c, NULL)
  /\ count' = [count EXCEPT ![c] = @ + 1]
  /\ draining' = [draining EXCEPT ![c] = FALSE]
  /\ toScan' = [toScan EXCEPT ![c] = Consumers \ {c}]
  /\ Goto(c, "retire")
  /\ UNCHANGED <<head, next, live, retired, lock, active, stack, old, node, cur, made>>

-----------------------------------------------------------------------------
(* node_is_hazardous, retire_node, retire_sweep *)

\* One slot that does not hold the node: look at the next one.
ScanSlot(c) ==
  /\ pc[c] \in {"retire", "sweep_scan"}
  /\ \E d \in toScan[c] :
       /\ hazard[d] # node[c]
       /\ toScan' = [toScan EXCEPT ![c] = @ \ {d}]
  /\ UNCHANGED <<shared, pc, old, node, cur, made, count, draining>>

SlotHolds(c) == \E d \in toScan[c] : hazard[d] = node[c]

\* After retire_node: every SWEEP_PERIOD pops the retire list is swept.
AfterRetire(c) == IF count[c] % SWEEP_PERIOD = 0 THEN "sweep" ELSE "load"

RetireFree(c) ==                        \* no slot held the node: free it
  /\ pc[c] = "retire"
  /\ toScan[c] = {}
  /\ live' = live \ {node[c]}
  /\ SetNode(c, NULL)
  /\ Goto(c, AfterRetire(c))
  /\ UNCHANGED <<head, next, hazard, pending, retired, lock, active, stack,
                 old, toScan, cur, made, count, draining>>

RetireHazardous(c) ==                   \* some slot holds it: take the lock ...
  /\ pc[c] = "retire"
  /\ SlotHolds(c)
  /\ toScan' = [toScan EXCEPT ![c] = {}]
  /\ Goto(c, "defer")
  /\ UNCHANGED <<shared, old, node, cur, made, count, draining>>

RetireDefer(c) ==                       \* ... and put it on the retire list
  /\ pc[c] = "defer"
  /\ Flushed(c)
  /\ lock = NULL
  /\ retired' = <<node[c]>> \o retired
  /\ SetNode(c, NULL)
  /\ Goto(c, AfterRetire(c))
  /\ UNCHANGED <<head, next, live, hazard, pending, lock, active, stack,
                 old, toScan, cur, made, count, draining>>

SweepLock(c) ==
  /\ pc[c] = "sweep"
  /\ Flushed(c)
  /\ lock = NULL
  /\ lock' = c
  /\ cur' = [cur EXCEPT ![c] = 1]
  /\ Goto(c, "sweep_next")
  /\ UNCHANGED <<head, next, live, hazard, pending, retired, active, stack,
                 old, node, toScan, made, count, draining>>

SweepNext(c) ==                         \* cur: the next node of the list
  /\ pc[c] = "sweep_next"
  /\ cur[c] <= Len(retired)
  /\ SetNode(c, retired[cur[c]])
  /\ toScan' = [toScan EXCEPT ![c] = Consumers \ {c}]
  /\ Goto(c, "sweep_scan")
  /\ UNCHANGED <<shared, old, cur, made, count, draining>>

Without(s, i) == SubSeq(s, 1, i - 1) \o SubSeq(s, i + 1, Len(s))

SweepFree(c) ==                         \* unlink and free
  /\ pc[c] = "sweep_scan"
  /\ toScan[c] = {}
  /\ retired' = Without(retired, cur[c])
  /\ live' = live \ {node[c]}
  /\ SetNode(c, NULL)
  /\ Goto(c, "sweep_next")
  /\ UNCHANGED <<head, next, hazard, pending, lock, active, stack,
                 old, toScan, cur, made, count, draining>>

SweepKeep(c) ==                         \* still hazardous
  /\ pc[c] = "sweep_scan"
  /\ SlotHolds(c)
  /\ cur' = [cur EXCEPT ![c] = @ + 1]
  /\ toScan' = [toScan EXCEPT ![c] = {}]
  /\ SetNode(c, NULL)
  /\ Goto(c, "sweep_next")
  /\ UNCHANGED <<shared, old, made, count, draining>>

SweepUnlock(c) ==                       \* the thread's last sweep ends it
  /\ pc[c] = "sweep_next"
  /\ cur[c] > Len(retired)
  /\ lock' = NULL
  /\ Goto(c, IF draining[c] THEN "done" ELSE "load")
  /\ UNCHANGED <<head, next, live, hazard, pending, retired, active, stack,
                 old, node, toScan, cur, made, count, draining>>

-----------------------------------------------------------------------------
(* The consumer loop on an empty stack *)

EmptyRetry(c) ==                        \* producers active or stack not empty: yield
  /\ pc[c] = "empty" /\ ~draining[c]
  /\ active > 0 \/ head.ptr # NULL
  /\ Goto(c, "load")
  /\ UNCHANGED <<shared, old, node, toScan, cur, made, count, draining>>

EmptyDrain(c) ==                        \* no producer left and empty: pop once more
  /\ pc[c] = "empty" /\ ~draining[c]
  /\ active = 0 /\ head.ptr = NULL
  /\ draining' = [draining EXCEPT ![c] = TRUE]
  /\ Goto(c, "load")
  /\ UNCHANGED <<shared, old, node, toScan, cur, made, count>>

EmptyFinish(c) ==                       \* nothing came: last sweep, then done
  /\ pc[c] = "empty" /\ draining[c]
  /\ Goto(c, "sweep")
  /\ UNCHANGED <<shared, old, node, toScan, cur, made, count, draining>>

Flush(c) ==                             \* a delayed store becomes visible
  /\ pending[c] # <<>>
  /\ hazard' = [hazard EXCEPT ![c] = Head(pending[c])]
  /\ pending' = [pending EXCEPT ![c] = Tail(@)]
  /\ UNCHANGED <<head, next, live, retired, lock, active, stack, locals>>

-----------------------------------------------------------------------------
Produce(p) == Malloc(p) \/ PushLink(p) \/ PushCasOk(p) \/ PushCasFail(p) \/ ProducerDone(p)

PopStep(c) ==
  \/ PopLoad(c) \/ PopPublish(c) \/ PopRecheck(c) \/ PopReadNext(c)
  \/ PopCasOk(c) \/ PopCasFail(c) \/ PopClear(c)

RetireStep(c) ==
  \/ ScanSlot(c) \/ RetireFree(c) \/ RetireHazardous(c) \/ RetireDefer(c)
  \/ SweepLock(c) \/ SweepNext(c) \/ SweepFree(c) \/ SweepKeep(c) \/ SweepUnlock(c)

EmptyStep(c) == EmptyRetry(c) \/ EmptyDrain(c) \/ EmptyFinish(c)

Consume(c) == PopStep(c) \/ RetireStep(c) \/ EmptyStep(c)

Next ==
  \/ \E p \in Producers : Produce(p)
  \/ \E c \in Consumers : Consume(c)

\* With delayed hazard stores.
NextBuffered == Next \/ \E c \in Consumers : Flush(c)

Spec == Init /\ [][Next]_vars

\* Every thread is scheduled; a compare-and-swap that could succeed again and
\* again succeeds once; a delayed store is not delayed for ever.
Fairness ==
  /\ \A p \in Producers : WF_vars(Produce(p)) /\ SF_vars(PushCasOk(p))
  /\ \A c \in Consumers : WF_vars(Consume(c)) /\ SF_vars(PopCasOk(c))

FairSpec     == Spec /\ Fairness
SpecBuffered == Init /\ [][NextBuffered]_vars /\ Fairness
                  /\ \A c \in Consumers : WF_vars(Flush(c))
-----------------------------------------------------------------------------
(* Properties *)

InSeq(n, s) == \E i \in DOMAIN s : s[i] = n
Popped(c)   == pc[c] \in {"clear", "retire", "defer"}     \* c owns node[c]

TypeOK ==
  /\ head \in Heads
  /\ next \in [Nodes -> Nodes \cup {NULL}]
  /\ live \subseteq Nodes
  /\ hazard \in [Consumers -> Nodes \cup {NULL}]
  /\ pending \in [Consumers -> Seq(Nodes \cup {NULL})]
  /\ retired \in Seq(Nodes) /\ stack \in Seq(Nodes)
  /\ lock \in Consumers \cup {NULL}
  /\ active \in 0 .. Cardinality(Producers)
  /\ pc \in [Threads -> {"malloc", "push", "push_cas", "load", "publish", "recheck",
                         "read", "cas", "clear", "retire", "defer", "sweep",
                         "sweep_next", "sweep_scan", "empty", "done"}]
  /\ old \in [Threads -> Heads]
  /\ node \in [Threads -> Nodes \cup {NULL}]
  /\ toScan \in [Consumers -> SUBSET Consumers]
  /\ cur \in [Consumers -> Nat] /\ count \in [Consumers -> Nat]
  /\ made \in [Producers -> 0 .. MSGS_PER_PRODUCER]
  /\ draining \in [Consumers -> BOOLEAN]

\* "Now safe: no one will free tp1.ptr while our hazard is set."  From the
\* second look at the head to the CAS, no other thread frees the node.
HazardProtects ==
  [][\A c \in Consumers :
       pc[c] \in {"read", "cas"} => old[c].ptr \in live /\ old[c].ptr \in live']_vars

\* The chain of next pointers from the head is exactly the stack of nodes pushed
\* and not yet popped: no CAS installs a stale successor (ABA).
ChainIsStack ==
  /\ stack = <<>> => head.ptr = NULL
  /\ stack # <<>> => head.ptr = stack[1] /\ next[stack[Len(stack)]] = NULL
  /\ \A i \in 1 .. Len(stack) - 1 : next[stack[i]] = stack[i + 1]

\* Every allocated node has exactly one owner: the producer about to push it, the
\* stack, the consumer that popped it, or the retire list.  So no node is popped
\* twice, freed twice, or lost.
Owners(n) ==
  {p \in Producers : node[p] = n}
    \cup {c \in Consumers : Popped(c) /\ node[c] = n}
    \cup {s \in {"stack"} : InSeq(n, stack)}
    \cup {s \in {"retired"} : InSeq(n, retired)}

OneOwner ==
  \A n \in Nodes : Cardinality(Owners(n)) = (IF n \in live THEN 1 ELSE 0)

\* The program has ended with all the nodes consumed: the "MISMATCH -- lost or
\* duplicated nodes" test of main never fires.
Total[S \in SUBSET Consumers] ==
  IF S = {} THEN 0 ELSE LET c == CHOOSE x \in S : TRUE IN count[c] + Total[S \ {c}]

Complete ==
  /\ \A t \in Threads : pc[t] = "done"
  /\ live = {}
  /\ Total[Consumers] = Cardinality(Producers) * MSGS_PER_PRODUCER
=============================================================================
