----------------------------- MODULE LockGraph ------------------------------
(***************************************************************************)
(* DeadlockDetection.cpp of Day 40, whole: LockGraph keeps the graph in a  *)
(* map from every node to the set of its successors, a refused request     *)
(* throws, and the three workers of main take two mutexes of a ring each   *)
(* and unlock in a catch block what they then hold.  The static mutex of   *)
(* the graph makes each of its calls one step.  The program is shown to    *)
(* implement DeadlockDetection, the wrapper as its users see it.           *)
(***************************************************************************)
EXTENDS Naturals

CONSTANT Nobody

Workers == 1 .. 3                       \* thread ids
Natives == 101 .. 103                   \* the ids of m1, m2, m3

outer(w) == 100 + w
inner(w) == IF w = 3 THEN 101 ELSE 101 + w

VARIABLES native_mutex, adj,
          line,        \* the statement each worker is in
          stage,       \* how far it is in the lock() or unlock() of that line
          m1_acquired, \* local of worker_1
          printed      \* the workers whose catch block has run

vars == <<native_mutex, adj, line, stage, m1_acquired, printed>>

\* detect_cycle: some nodes each have a successor among them (CycleSearch
\* compares the depth-first search with this).
detect_cycle(g) ==
  \E S \in SUBSET (Workers \cup Natives) :
    S # {} /\ \A a \in S : g[a] \cap S # {}

Init ==
  /\ native_mutex = [m \in Natives |-> Nobody]
  /\ adj = [n \in Workers \cup Natives |-> {}]
  /\ line = [w \in Workers |-> "lock_outer"]
  /\ stage = [w \in Workers |-> "call"]
  /\ m1_acquired = FALSE
  /\ printed = {}

Locks   == [w \in Workers |-> IF line[w] = "lock_inner" THEN inner(w) ELSE outer(w)]
Unlocks == [w \in Workers |-> IF line[w] = "unlock_inner" THEN inner(w) ELSE outer(w)]

InLock(w)   == line[w] \in {"lock_outer", "lock_inner"}
InUnlock(w) == line[w] \in {"unlock_inner", "unlock_outer", "catch"}

At(w, here) == stage[w] = here
Within(w, next) == stage' = [stage EXCEPT ![w] = next] /\ UNCHANGED <<line, printed>>
Goto(w, next) ==
  /\ line' = [line EXCEPT ![w] = next]
  /\ stage' = [stage EXCEPT ![w] = "call"]

Requesting(w) == [adj EXCEPT ![w] = @ \cup {Locks[w]}]

-----------------------------------------------------------------------------
\* Slip: a faulty form of Throw, which follows; not part of Next.
ThrowKeepsRequest(w) ==                 \* the edge is not erased
  /\ InLock(w) /\ At(w, "call") /\ detect_cycle(Requesting(w))
  /\ adj' = Requesting(w)
  /\ printed' = printed \cup {w}
  /\ Goto(w, IF w = 1 /\ ~m1_acquired THEN "return" ELSE "catch")
  /\ UNCHANGED <<native_mutex, m1_acquired>>

-----------------------------------------------------------------------------
(* DeadlockDetectorMutex::lock *)

add_request(w) ==
  /\ InLock(w) /\ At(w, "call")
  /\ ~detect_cycle(Requesting(w))
  /\ adj' = Requesting(w)
  /\ Within(w, "native")
  /\ UNCHANGED <<native_mutex, m1_acquired>>

\* DeadlockException: the edge is erased; the catch block unlocks the outer mutex,
\* worker_1's only when it has it.
Throw(w) ==
  /\ InLock(w) /\ At(w, "call") /\ detect_cycle(Requesting(w))
  /\ printed' = printed \cup {w}
  /\ Goto(w, IF w = 1 /\ ~m1_acquired THEN "return" ELSE "catch")
  /\ UNCHANGED <<native_mutex, adj, m1_acquired>>

lock(w) ==                              \* native_mutex_.lock() returns
  /\ InLock(w) /\ At(w, "native")
  /\ native_mutex[Locks[w]] = Nobody
  /\ native_mutex' = [native_mutex EXCEPT ![Locks[w]] = w]
  /\ Within(w, "graph")
  /\ UNCHANGED <<adj, m1_acquired>>

acquire(w) ==
  /\ InLock(w) /\ At(w, "graph")
  /\ adj' = [adj EXCEPT ![w] = @ \ {Locks[w]}, ![Locks[w]] = @ \cup {w}]
  /\ m1_acquired' = (m1_acquired \/ w = 1)
  /\ Goto(w, IF line[w] = "lock_outer" THEN "lock_inner" ELSE "got_both")
  /\ UNCHANGED <<native_mutex, printed>>

(* DeadlockDetectorMutex::unlock *)

unlock(w) ==
  /\ InUnlock(w) /\ At(w, "call")
  /\ native_mutex' = [native_mutex EXCEPT ![Unlocks[w]] = Nobody]
  /\ Within(w, "graph")
  /\ UNCHANGED <<adj, m1_acquired>>

release(w) ==
  /\ InUnlock(w) /\ At(w, "graph")
  /\ adj' = [adj EXCEPT ![Unlocks[w]] = @ \ {w}]
  /\ Goto(w, IF line[w] = "unlock_inner" THEN "unlock_outer" ELSE "return")
  /\ UNCHANGED <<native_mutex, m1_acquired, printed>>

\* What a worker does with both mutexes, and its return.
Proceed(w) ==
  /\ \/ line[w] = "got_both" /\ Goto(w, "unlock_inner")
     \/ line[w] = "return" /\ Goto(w, "done")
  /\ UNCHANGED <<native_mutex, adj, m1_acquired, printed>>

worker(w) == \/ add_request(w) \/ Throw(w) \/ lock(w) \/ acquire(w)
             \/ unlock(w) \/ release(w) \/ Proceed(w)

Next == \E w \in Workers : worker(w)
Spec == Init /\ [][Next]_vars /\ \A w \in Workers : WF_vars(worker(w))
-----------------------------------------------------------------------------
(* Properties *)

Ended == \A w \in Workers : line[w] = "done"

DepthAt == [lock_outer |-> 0, lock_inner |-> 1, got_both |-> 2, unlock_inner |-> 2,
            unlock_outer |-> 1, catch |-> 1, return |-> 0, done |-> 0]

\* The users' view: each worker nests two mutexes and gives back what it holds.
Nested == [w \in Workers |-> <<outer(w), inner(w)>>]
Edges  == {e \in (DOMAIN adj) \X (DOMAIN adj) : e[2] \in adj[e[1]]}
Held   == [w \in Workers |-> DepthAt[line[w]]]
Place  == [w \in Workers |->
  IF InLock(w) THEN [call |-> "lock", native |-> "native", graph |-> "acquired"][stage[w]]
  ELSE IF InUnlock(w) THEN [call |-> "unlock", graph |-> "released"][stage[w]]
  ELSE [got_both |-> "lock", return |-> "unlock", done |-> "done"][line[w]]]

Detector == INSTANCE DeadlockDetection WITH
  Threads <- Workers, Mutexes <- Natives, Order <- Nested, None <- Nobody,
  native <- native_mutex, edges <- Edges, pc <- Place, depth <- Held, refused <- printed

\* Every step of the C++ program is one of the wrapper's or none: in particular a catch
\* block unlocks exactly what its worker holds, and a refused edge leaves no trace.
ImplementsDetection == Detector!Init /\ [][Detector!Next]_(Detector!vars)
=============================================================================
