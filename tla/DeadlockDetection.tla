------------------------- MODULE DeadlockDetection --------------------------
(***************************************************************************)
(* The lock wrapper of Day 40 (my_mutex_t of DeadlockDetection.c and       *)
(* DeadlockDetectorMutex of DeadlockDetection.cpp).  A graph records who   *)
(* waits for a mutex (an edge from thread to mutex) and who holds one (an  *)
(* edge from mutex to thread).  A request that would close a cycle is      *)
(* refused before the native mutex is touched; otherwise the caller blocks *)
(* on the native mutex and tells the graph afterwards.                     *)
(*                                                                         *)
(* The graph has a lock of its own, held across each section that touches  *)
(* it, so each such section is one step; the native lock and unlock are    *)
(* steps of their own, and between them and the graph's update the graph   *)
(* is out of date.  A worker takes the mutexes of Order[t] one inside the  *)
(* other and then, or as soon as a request is refused, gives back what it  *)
(* holds, last first.                                                      *)
(***************************************************************************)
EXTENDS Naturals, Sequences

CONSTANTS Threads, Mutexes,
          Order,     \* Order[t]: the mutexes worker t locks, in order
          None       \* "no thread"

ASSUME LockAssumption ==
  /\ Threads \cap Mutexes = {}
  /\ None \notin Threads
  /\ Order \in [Threads -> Seq(Mutexes)]
  /\ \A t \in Threads : \A i, j \in DOMAIN Order[t] :
       Order[t][i] = Order[t][j] => i = j

VARIABLES native,    \* native[m]: the thread that holds the native mutex
          edges,     \* the edges of the graph
          pc,        \* where each worker is inside lock / unlock
          depth,     \* how many mutexes of Order[t] worker t holds
          refused    \* the workers whose request was refused

vars == <<native, edges, pc, depth, refused>>

Requests == Threads \X Mutexes
Holdings == Mutexes \X Threads
Graph    == Requests \cup Holdings

Wanted(t) == Order[t][depth[t] + 1]     \* the mutex asked for, or just taken
Last(t)   == Order[t][depth[t]]         \* the mutex taken last

\* detect_cycle: some nodes each have an edge to another one of them.  (Module
\* CycleSearch compares the search the code runs with this definition.)
HasCycle(g) ==
  \E S \in SUBSET (Threads \cup Mutexes) :
    S # {} /\ \A a \in S : \E b \in S : <<a, b>> \in g

Init ==
  /\ native = [m \in Mutexes |-> None]
  /\ edges = {}
  /\ pc = [t \in Threads |-> "lock"]
  /\ depth = [t \in Threads |-> 0]
  /\ refused = {}

Goto(t, label) == pc' = [pc EXCEPT ![t] = label]
-----------------------------------------------------------------------------
(* Slips: faulty forms of steps defined below; none is part of Next.        *)

RequestUnchecked(t) ==                  \* the edge is added after the check
  /\ pc[t] = "lock"
  /\ depth[t] < Len(Order[t])
  /\ ~HasCycle(edges)
  /\ edges' = edges \cup {<<t, Wanted(t)>>}
  /\ Goto(t, "native")
  /\ UNCHANGED <<native, depth, refused>>

RefuseAndReturn(t) ==                   \* the mutexes held are not given back
  /\ pc[t] = "lock"
  /\ depth[t] < Len(Order[t])
  /\ HasCycle(edges \cup {<<t, Wanted(t)>>})
  /\ refused' = refused \cup {t}
  /\ Goto(t, "done")
  /\ UNCHANGED <<native, edges, depth>>

AcquiredKeepsRequest(t) ==              \* the waiting edge stays
  /\ pc[t] = "acquired"
  /\ edges' = edges \cup {<<Wanted(t), t>>}
  /\ depth' = [depth EXCEPT ![t] = @ + 1]
  /\ Goto(t, "lock")
  /\ UNCHANGED <<native, refused>>

ReleasedKeepsHolder(t) ==               \* the holding edge stays
  /\ pc[t] = "released"
  /\ depth' = [depth EXCEPT ![t] = @ - 1]
  /\ Goto(t, "unlock")
  /\ UNCHANGED <<native, edges, refused>>

-----------------------------------------------------------------------------
(* my_mutex_lock *)

\* Under the graph's lock: add the waiting edge and look for a cycle.
Request(t) ==
  /\ pc[t] = "lock"
  /\ depth[t] < Len(Order[t])
  /\ ~HasCycle(edges \cup {<<t, Wanted(t)>>})
  /\ edges' = edges \cup {<<t, Wanted(t)>>}
  /\ Goto(t, "native")
  /\ UNCHANGED <<native, depth, refused>>

\* The edge would close a cycle: take it back and return -1.  The worker goes on
\* to unlock what it holds.
Refuse(t) ==
  /\ pc[t] = "lock"
  /\ depth[t] < Len(Order[t])
  /\ HasCycle(edges \cup {<<t, Wanted(t)>>})
  /\ refused' = refused \cup {t}
  /\ Goto(t, "unlock")
  /\ UNCHANGED <<native, edges, depth>>

LockNative(t) ==                        \* pthread_mutex_lock(&m->native) returns
  /\ pc[t] = "native"
  /\ native[Wanted(t)] = None
  /\ native' = [native EXCEPT ![Wanted(t)] = t]
  /\ Goto(t, "acquired")
  /\ UNCHANGED <<edges, depth, refused>>

Acquired(t) ==                          \* waiting edge out, holding edge in
  /\ pc[t] = "acquired"
  /\ edges' = (edges \ {<<t, Wanted(t)>>}) \cup {<<Wanted(t), t>>}
  /\ depth' = [depth EXCEPT ![t] = @ + 1]
  /\ Goto(t, "lock")
  /\ UNCHANGED <<native, refused>>

-----------------------------------------------------------------------------
(* my_mutex_unlock and the end of a worker *)

AllTaken(t) ==                          \* the innermost body: nothing left to lock
  /\ pc[t] = "lock"
  /\ depth[t] = Len(Order[t])
  /\ Goto(t, "unlock")
  /\ UNCHANGED <<native, edges, depth, refused>>

UnlockNative(t) ==                      \* pthread_mutex_unlock(&m->native)
  /\ pc[t] = "unlock"
  /\ depth[t] > 0
  /\ native' = [native EXCEPT ![Last(t)] = None]
  /\ Goto(t, "released")
  /\ UNCHANGED <<edges, depth, refused>>

Released(t) ==                          \* holding edge out
  /\ pc[t] = "released"
  /\ edges' = edges \ {<<Last(t), t>>}
  /\ depth' = [depth EXCEPT ![t] = @ - 1]
  /\ Goto(t, "unlock")
  /\ UNCHANGED <<native, refused>>

Return(t) ==
  /\ pc[t] = "unlock"
  /\ depth[t] = 0
  /\ Goto(t, "done")
  /\ UNCHANGED <<native, edges, depth, refused>>

-----------------------------------------------------------------------------
Work(t) ==
  \/ Request(t) \/ Refuse(t) \/ LockNative(t) \/ Acquired(t) \/ AllTaken(t)
  \/ UnlockNative(t) \/ Released(t) \/ Return(t)

Next == \E t \in Threads : Work(t)

Spec == Init /\ [][Next]_vars

\* Every worker runs when it can; a mutex that is released is given to a waiter.
FairSpec == Spec /\ \A t \in Threads : WF_vars(Work(t))
-----------------------------------------------------------------------------
(* Properties *)

TypeOK ==
  /\ native \in [Mutexes -> Threads \cup {None}]
  /\ edges \subseteq Graph
  /\ pc \in [Threads -> {"lock", "native", "acquired", "unlock", "released", "done"}]
  /\ depth \in [Threads -> Nat]
  /\ \A t \in Threads : depth[t] \in 0 .. Len(Order[t])
  /\ refused \subseteq Threads

\* Worker t is blocked on a native mutex that worker u holds.
BlockedOn(t, u) == pc[t] = "native" /\ native[Wanted(t)] = u

\* No set of workers ever waits for each other, however far the graph lags
\* behind the native mutexes: detection comes before the native lock.
NoDeadlock ==
  ~ \E S \in SUBSET Threads : S # {} /\ \A t \in S : \E u \in S : BlockedOn(t, u)

\* A request is refused only when granting it would have been a deadlock: the
\* mutex is held, along a chain of blocked workers, by the one that asks.  Edges
\* of mutexes released natively but not yet in the graph never add a cycle.
RefusedOnlyInDeadlock ==
  [][\A t \in Threads : Refuse(t) =>
       \E S \in SUBSET Threads :
         /\ t \in S
         /\ \A v \in S : \E u \in S :
              BlockedOn(v, u) \/ (v = t /\ native[Wanted(t)] = u)]_vars

\* The graph knows the holder of a mutex except between a native call and the
\* update that follows it, and it never forgets a waiter.
GraphAgrees ==
  /\ \A m \in Mutexes, t \in Threads :
       <<m, t>> \in edges <=>
         \/ native[m] = t /\ ~(pc[t] = "acquired" /\ Wanted(t) = m)
         \/ pc[t] = "released" /\ Last(t) = m
  /\ \A m \in Mutexes, t \in Threads :
       <<t, m>> \in edges <=> pc[t] \in {"native", "acquired"} /\ Wanted(t) = m

\* Every worker has returned, with nothing in its hands.
AllReturned == \A t \in Threads : pc[t] = "done" /\ depth[t] = 0
=============================================================================
