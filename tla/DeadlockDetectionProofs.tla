---------------------- MODULE DeadlockDetectionProofs -----------------------
(***************************************************************************)
(* For any threads, any mutexes and any orders in which they are taken:    *)
(* no set of workers ever deadlocks, and a request is refused only when    *)
(* granting it would have been a deadlock.                                 *)
(*                                                                         *)
(* The argument: the graph lags behind the native mutexes, but only in two *)
(* places (GraphAgrees), and in both of them the thread concerned has no   *)
(* edge that could be part of a cycle.  So the graph never has a cycle,    *)
(* although Acquired adds an edge without looking for one, and a deadlock  *)
(* would be a cycle of the graph.                                          *)
(*                                                                         *)
(* Behind that, each with an invariant of its own: the depth-first search  *)
(* finds exactly the graphs with a cycle (SearchInv); the order book and   *)
(* the price ticker are whole (OrdersInv, PricesInv); and the C++ program  *)
(* implements the wrapper (RingInv).                                       *)
(***************************************************************************)
EXTENDS MCDeadlockDetection, SequenceTheorems, FiniteSetTheorems, TLAPS

\* The native mutexes a worker holds are those of the first depth[t] places of its
\* order, one more between LockNative and Acquired, one less between UnlockNative
\* and Released.
HoldsPrefix ==
  \A t \in Threads :
    /\ pc[t] \in {"native", "acquired"} => depth[t] < Len(Order[t])
    /\ pc[t] = "released" => depth[t] > 0 /\ native[Last(t)] # t
    /\ pc[t] = "acquired" => native[Wanted(t)] = t
    /\ \A i \in 1 .. depth[t] :
         (pc[t] = "released" => i < depth[t]) => native[Order[t][i]] = t

Acyclic == ~HasCycle(edges)

Inv == TypeOK /\ HoldsPrefix /\ GraphAgrees /\ Acyclic

-----------------------------------------------------------------------------
\* What a worker locks or holds is a mutex, and different places of its order are
\* different mutexes.
LEMMA OrderFacts ==
  ASSUME NEW t \in Threads
  PROVE  /\ Len(Order[t]) \in Nat
         /\ \A i \in 1 .. Len(Order[t]) : Order[t][i] \in Mutexes
         /\ \A i, j \in 1 .. Len(Order[t]) : Order[t][i] = Order[t][j] => i = j
<1>1. Order[t] \in Seq(Mutexes)
  BY LockAssumption
<1>2. DOMAIN Order[t] = 1 .. Len(Order[t])
  BY <1>1
<1> QED
  BY <1>1, <1>2, LockAssumption

\* The typing of lock and unlock: every step keeps the types.
LEMMA TypeStep == TypeOK /\ HoldsPrefix /\ [Next]_vars => TypeOK'
<1> SUFFICES ASSUME TypeOK, HoldsPrefix, [Next]_vars PROVE TypeOK'
  OBVIOUS
<1> USE DEF TypeOK, Goto
<1>1. CASE UNCHANGED vars
  BY <1>1 DEF vars
<1>2. ASSUME NEW t \in Threads, Work(t) PROVE TypeOK'
  <2> /\ Len(Order[t]) \in Nat
      /\ depth[t] \in Nat
      /\ depth[t] < Len(Order[t]) => Wanted(t) \in Mutexes
      /\ depth[t] > 0 => Last(t) \in Mutexes
    BY OrderFacts DEF Wanted, Last
  <2>1. CASE Request(t)
    BY <2>1 DEF Request, Graph, Requests
  <2>2. CASE Refuse(t)
    BY <2>2 DEF Refuse
  <2>3. CASE LockNative(t)
    BY <2>3 DEF LockNative, HoldsPrefix
  <2>4. CASE Acquired(t)
    <3>1. depth[t] < Len(Order[t])
      BY <2>4 DEF Acquired, HoldsPrefix
    <3>2. edges' \subseteq Graph
      BY <2>4, <3>1 DEF Acquired, Graph, Holdings
    <3>3. depth' \in [Threads -> Nat] /\ \A u \in Threads : depth'[u] \in 0 .. Len(Order[u])
      BY <2>4, <3>1 DEF Acquired
    <3> QED
      BY <2>4, <3>2, <3>3 DEF Acquired
  <2>5. CASE AllTaken(t)
    BY <2>5 DEF AllTaken
  <2>6. CASE UnlockNative(t)
    BY <2>6 DEF UnlockNative
  <2>7. CASE Released(t)
    <3>1. depth[t] > 0
      BY <2>7 DEF Released, HoldsPrefix
    <3>2. depth' \in [Threads -> Nat] /\ \A u \in Threads : depth'[u] \in 0 .. Len(Order[u])
      BY <2>7, <3>1 DEF Released
    <3> QED
      BY <2>7, <3>2 DEF Released
  <2>8. CASE Return(t)
    BY <2>8 DEF Return
  <2> QED
    BY <1>2, <2>1, <2>2, <2>3, <2>4, <2>5, <2>6, <2>7, <2>8 DEF Work
<1> QED
  BY <1>1, <1>2 DEF Next

\* The native mutexes follow depth and pc through every step.
LEMMA PrefixStep == TypeOK /\ HoldsPrefix /\ [Next]_vars => HoldsPrefix'
<1> SUFFICES ASSUME TypeOK, HoldsPrefix, [Next]_vars PROVE HoldsPrefix'
  OBVIOUS
<1> USE DEF TypeOK
<1>1. CASE UNCHANGED vars
  BY <1>1 DEF vars, HoldsPrefix, Wanted, Last
<1>2. ASSUME NEW t \in Threads, Work(t) PROVE HoldsPrefix'
  <2> SUFFICES ASSUME NEW u \in Threads
               PROVE  /\ pc'[u] \in {"native", "acquired"} => depth'[u] < Len(Order[u])
                      /\ pc'[u] = "released" => depth'[u] > 0 /\ native'[Last(u)'] # u
                      /\ pc'[u] = "acquired" => native'[Wanted(u)'] = u
                      /\ \A i \in 1 .. depth'[u] :
                           (pc'[u] = "released" => i < depth'[u]) => native'[Order[u][i]] = u
    BY DEF HoldsPrefix, Wanted, Last
  <2> /\ Len(Order[u]) \in Nat /\ depth[u] \in 0 .. Len(Order[u])
      /\ \A i \in 1 .. Len(Order[u]) : Order[u][i] \in Mutexes
      /\ \A i, j \in 1 .. Len(Order[u]) : Order[u][i] = Order[u][j] => i = j
    BY OrderFacts
  <2> /\ Len(Order[t]) \in Nat /\ depth[t] \in 0 .. Len(Order[t])
      /\ \A i \in 1 .. Len(Order[t]) : Order[t][i] \in Mutexes
    BY OrderFacts
  <2> USE DEF HoldsPrefix, Wanted, Last, Goto
  <2>1. CASE Request(t)
    BY <2>1 DEF Request
  <2>2. CASE Refuse(t)
    BY <2>2 DEF Refuse
  <2>3. CASE LockNative(t)
    BY <2>3, LockAssumption DEF LockNative
  <2>4. CASE Acquired(t)
    BY <2>4 DEF Acquired
  <2>5. CASE AllTaken(t)
    BY <2>5 DEF AllTaken
  <2>6. CASE UnlockNative(t)
    BY <2>6, LockAssumption DEF UnlockNative
  <2>7. CASE Released(t)
    BY <2>7 DEF Released
  <2>8. CASE Return(t)
    BY <2>8 DEF Return
  <2> QED
    BY <1>2, <2>1, <2>2, <2>3, <2>4, <2>5, <2>6, <2>7, <2>8 DEF Work
<1> QED
  BY <1>1, <1>2 DEF Next

-----------------------------------------------------------------------------
\* Requests are not holdings, so an edge of the one kind is never mistaken for one
\* of the other.
LEMMA EdgeKinds ==
  ASSUME NEW t \in Threads, NEW m \in Mutexes, NEW u \in Threads, NEW n \in Mutexes
  PROVE  <<t, m>> # <<n, u>>
BY LockAssumption

\* The graph lags behind the native mutexes nowhere but where GraphAgrees says.
LEMMA GraphStep == TypeOK /\ HoldsPrefix /\ GraphAgrees /\ [Next]_vars => GraphAgrees'
<1> SUFFICES ASSUME TypeOK, HoldsPrefix, GraphAgrees, [Next]_vars PROVE GraphAgrees'
  OBVIOUS
<1> USE DEF TypeOK
<1>1. CASE UNCHANGED vars
  BY <1>1 DEF vars, GraphAgrees, Wanted, Last
<1>2. ASSUME NEW t \in Threads, Work(t) PROVE GraphAgrees'
  <2> SUFFICES ASSUME NEW u \in Threads, NEW m \in Mutexes
               PROVE  /\ <<m, u>> \in edges' <=>
                           \/ native'[m] = u /\ ~(pc'[u] = "acquired" /\ Wanted(u)' = m)
                           \/ pc'[u] = "released" /\ Last(u)' = m
                      /\ <<u, m>> \in edges' <=>
                           pc'[u] \in {"native", "acquired"} /\ Wanted(u)' = m
    BY DEF GraphAgrees
  <2>0. /\ <<m, u>> \in edges <=>
              \/ native[m] = u /\ ~(pc[u] = "acquired" /\ Wanted(u) = m)
              \/ pc[u] = "released" /\ Last(u) = m
        /\ <<u, m>> \in edges <=> pc[u] \in {"native", "acquired"} /\ Wanted(u) = m
    BY DEF GraphAgrees
  <2>o. /\ Len(Order[t]) \in Nat /\ depth[t] \in 0 .. Len(Order[t])
        /\ \A i \in 1 .. Len(Order[t]) : Order[t][i] \in Mutexes
        /\ \A i, j \in 1 .. Len(Order[t]) : Order[t][i] = Order[t][j] => i = j
    BY OrderFacts
  <2>k. /\ depth[t] < Len(Order[t]) =>
             Wanted(t) \in Mutexes /\ <<t, Wanted(t)>> # <<m, u>>
        /\ depth[t] < Len(Order[t]) => <<Wanted(t), t>> # <<u, m>>
        /\ depth[t] > 0 => Last(t) \in Mutexes /\ <<Last(t), t>> # <<u, m>>
    BY <2>o, EdgeKinds DEF Wanted, Last
  <2> USE DEF Goto
  <2>1. CASE Request(t)
    BY <2>0, <2>1, <2>k DEF Request, Wanted, Last
  <2>2. CASE Refuse(t)
    BY <2>0, <2>2 DEF Refuse, Wanted, Last
  <2>3. CASE LockNative(t)
    BY <2>0, <2>3, <2>k, LockAssumption DEF LockNative, Wanted, Last, HoldsPrefix
  <2>4. CASE Acquired(t)
    BY <2>0, <2>4, <2>k, <2>o DEF Acquired, Wanted, Last, HoldsPrefix
  <2>5. CASE AllTaken(t)
    BY <2>0, <2>5 DEF AllTaken, Wanted, Last
  <2>6. CASE UnlockNative(t)
    <3>1. native[Last(t)] = t
      BY <2>6, <2>o DEF UnlockNative, HoldsPrefix, Last
    <3> QED
      BY <2>0, <2>6, <2>k, <3>1, LockAssumption DEF UnlockNative, Wanted, Last
  <2>7. CASE Released(t)
    BY <2>0, <2>7, <2>k, <2>o DEF Released, Wanted, Last, HoldsPrefix
  <2>8. CASE Return(t)
    BY <2>0, <2>8 DEF Return, Wanted, Last
  <2> QED
    BY <1>2, <2>1, <2>2, <2>3, <2>4, <2>5, <2>6, <2>7, <2>8 DEF Work
<1> QED
  BY <1>1, <1>2 DEF Next

-----------------------------------------------------------------------------
\* Fewer edges make no cycle.
LEMMA FewerEdges ==
  ASSUME NEW g, NEW h, g \subseteq h, ~HasCycle(h)
  PROVE  ~HasCycle(g)
BY DEF HasCycle

\* A node without an outgoing edge is on no cycle: an edge into it adds none.
LEMMA EdgeIntoSink ==
  ASSUME NEW g, NEW m, NEW t, ~HasCycle(g),
         \A b \in Threads \cup Mutexes : <<t, b>> \notin g /\ <<t, b>> # <<m, t>>
  PROVE  ~HasCycle(g \cup {<<m, t>>})
<1> SUFFICES ASSUME NEW S \in SUBSET (Threads \cup Mutexes), S # {},
                    \A a \in S : \E b \in S : <<a, b>> \in g \cup {<<m, t>>}
             PROVE  FALSE
  BY DEF HasCycle
<1>1. t \notin S
  OBVIOUS
<1>2. \A a \in S : \E b \in S : <<a, b>> \in g
  BY <1>1
<1> QED
  BY <1>2 DEF HasCycle

\* The graph has no cycle, although only Request looks for one.
LEMMA AcyclicStep ==
  TypeOK /\ HoldsPrefix /\ GraphAgrees /\ Acyclic /\ [Next]_vars => Acyclic'
<1> SUFFICES ASSUME TypeOK, HoldsPrefix, GraphAgrees, Acyclic, [Next]_vars
             PROVE  ~HasCycle(edges')
  BY DEF Acyclic, HasCycle
<1>0. ~HasCycle(edges)
  BY DEF Acyclic
<1>1. CASE UNCHANGED vars
  BY <1>0, <1>1 DEF vars
<1>2. ASSUME NEW t \in Threads, Work(t) PROVE ~HasCycle(edges')
  <2>1. CASE Request(t)
    BY <2>1 DEF Request
  <2>2. CASE Acquired(t)
    <3> DEFINE m == Wanted(t)
               g == edges \ {<<t, m>>}
    <3>1. m \in Mutexes
      BY <2>2, OrderFacts DEF Acquired, HoldsPrefix, Wanted, TypeOK
    <3>2. ~HasCycle(g)
      BY <1>0, FewerEdges
    <3>3. ASSUME NEW b \in Threads \cup Mutexes
          PROVE  <<t, b>> \notin g /\ <<t, b>> # <<m, t>>
      <4>1. CASE b \in Mutexes
        BY <2>2, <3>1, <4>1, LockAssumption DEF Acquired, GraphAgrees
      <4>2. CASE b \in Threads
        BY <3>1, <4>2, LockAssumption DEF TypeOK, Graph, Requests, Holdings
      <4> QED
        BY <3>3, <4>1, <4>2
    <3>4. ~HasCycle(g \cup {<<m, t>>})
      BY <3>2, <3>3, EdgeIntoSink
    <3>5. edges' = g \cup {<<m, t>>}
      BY <2>2 DEF Acquired
    <3> QED
      BY <3>4, <3>5
  <2>3. CASE edges' \subseteq edges
    BY <1>0, <2>3, FewerEdges
  <2> QED
    BY <1>2, <2>1, <2>2, <2>3
       DEF Work, Refuse, LockNative, AllTaken, UnlockNative, Released, Return
<1> QED
  BY <1>1, <1>2 DEF Next

-----------------------------------------------------------------------------
\* At the start no mutex is held, and the graph has no edge.
LEMMA InitInv == Init => Inv
<1> SUFFICES ASSUME Init PROVE Inv
  OBVIOUS
<1> USE DEF Init
<1>1. TypeOK
  BY OrderFacts DEF TypeOK
<1>2. HoldsPrefix
  <2> SUFFICES ASSUME NEW t \in Threads
               PROVE  pc[t] = "lock" /\ depth[t] = 0 /\ 1 .. depth[t] = {}
                      /\ (pc[t] \in {"native", "acquired"} => depth[t] < Len(Order[t]))
    BY DEF HoldsPrefix
  <2> QED
    OBVIOUS
<1>3. GraphAgrees
  BY LockAssumption DEF GraphAgrees
<1>4. Acyclic
  BY DEF Acyclic, HasCycle
<1> QED
  BY <1>1, <1>2, <1>3, <1>4 DEF Inv

\* No step of lock or unlock, of any worker, breaks the invariant.
LEMMA InvStep == Inv /\ [Next]_vars => Inv'
BY TypeStep, PrefixStep, GraphStep, AcyclicStep DEF Inv

\* The invariant holds in every state, however the workers interleave.
THEOREM Invariance == Spec => []Inv
BY InitInv, InvStep, PTL DEF Spec

\* The types hold for any threads, mutexes and orders; in particular no worker
\* counts more mutexes than it has asked for.
THEOREM TypeCorrect == Spec => []TypeOK
BY Invariance, PTL DEF Inv

\* The graph is never further behind the native mutexes than by the one call each
\* thread is in.
THEOREM GraphCorrect == Spec => []GraphAgrees
BY Invariance, PTL DEF Inv

-----------------------------------------------------------------------------
\* A deadlock is a cycle of the graph: the workers in it and the mutexes they
\* wait for.
LEMMA DeadlockIsCycle == Inv => NoDeadlock
<1> SUFFICES ASSUME Inv, NEW S \in SUBSET Threads, S # {},
                    \A t \in S : \E u \in S : BlockedOn(t, u)
             PROVE  FALSE
  BY DEF NoDeadlock
<1> DEFINE C == S \cup {Wanted(t) : t \in S}
<1>1. ASSUME NEW t \in S PROVE Wanted(t) \in Mutexes
  <2>1. t \in Threads /\ pc[t] = "native"
    BY DEF BlockedOn
  <2>2. depth[t] \in Nat /\ depth[t] < Len(Order[t])
    BY <2>1 DEF Inv, TypeOK, HoldsPrefix
  <2> QED
    BY <2>1, <2>2, OrderFacts DEF Wanted
<1>2. ASSUME NEW t \in S PROVE <<t, Wanted(t)>> \in edges
  BY <1>1, <1>2 DEF Inv, GraphAgrees, BlockedOn
<1>3. ASSUME NEW t \in S PROVE \E u \in S : <<Wanted(t), u>> \in edges
  <2>1. PICK u \in S : BlockedOn(t, u)
    BY <1>3
  <2>2. pc[u] = "native"
    BY DEF BlockedOn
  <2>3. <<Wanted(t), u>> \in edges
    BY <1>1, <2>1, <2>2 DEF Inv, GraphAgrees, BlockedOn
  <2> QED
    BY <2>3
<1>4. C \in SUBSET (Threads \cup Mutexes) /\ C # {}
  BY <1>1
<1>5. /\ S \subseteq C
      /\ \A t \in S : Wanted(t) \in C
      /\ \A a \in C : a \in S \/ \E t \in S : a = Wanted(t)
  OBVIOUS
<1>6. \A a \in C : \E b \in C : <<a, b>> \in edges
  <2> HIDE DEF C
  <2> QED
    BY <1>2, <1>3, <1>5
<1> QED
  BY <1>4, <1>6 DEF Inv, Acyclic, HasCycle

\* No set of workers ever waits for each other.
THEOREM DeadlockFree == Spec => []NoDeadlock
BY Invariance, DeadlockIsCycle, PTL

\* A cycle that a request would close consists of the requesting worker and of
\* workers that are blocked: one that already holds its mutex, or has just given
\* one back, is never on it.
LEMMA CycleIsDeadlock ==
  ASSUME Inv, NEW t \in Threads, Refuse(t)
  PROVE  \E S \in SUBSET Threads :
           /\ t \in S
           /\ \A v \in S : \E u \in S :
                BlockedOn(v, u) \/ (v = t /\ native[Wanted(t)] = u)
<1> DEFINE m == Wanted(t)
           g == edges \cup {<<t, m>>}
<1>1. PICK C \in SUBSET (Threads \cup Mutexes) :
         C # {} /\ \A a \in C : \E b \in C : <<a, b>> \in g
  BY DEF Refuse, HasCycle
<1>2. pc[t] = "lock" /\ m \in Mutexes
  BY OrderFacts DEF Refuse, Inv, TypeOK, Wanted
<1>3. t \in C
  <2> SUFFICES ASSUME t \notin C PROVE FALSE
    OBVIOUS
  <2>1. \A a \in C : \E b \in C : <<a, b>> \in edges
    BY <1>1
  <2> QED
    BY <1>1, <2>1 DEF Inv, Acyclic, HasCycle
<1>4. ASSUME NEW v \in C \cap Threads
      PROVE  /\ v = t \/ pc[v] \in {"native", "acquired"}
             /\ Wanted(v) \in C \cap Mutexes
  <2>1. PICK b \in C : <<v, b>> \in g
    BY <1>1
  <2>2. b \in Mutexes
    BY <1>2, <2>1, LockAssumption DEF Inv, TypeOK, Graph, Requests, Holdings
  <2>3. CASE <<v, b>> \in edges
    BY <2>2, <2>3 DEF Inv, GraphAgrees
  <2>4. CASE <<v, b>> = <<t, m>>
    BY <2>2, <2>4
  <2> QED
    BY <2>1, <2>3, <2>4
<1>5. ASSUME NEW n \in C \cap Mutexes
      PROVE  \E u \in C \cap Threads : native[n] = u /\ ~(pc[u] = "acquired" /\ Wanted(u) = n)
  <2>1. PICK u \in C : <<n, u>> \in g
    BY <1>1
  <2>2. <<n, u>> \in edges
    BY <1>2, <2>1, LockAssumption
  <2>3. u \in Threads
    BY <2>2, LockAssumption DEF Inv, TypeOK, Graph, Requests, Holdings
  <2>4. pc[u] # "released"
    BY <1>2, <1>4, <2>3
  <2> QED
    BY <2>2, <2>3, <2>4 DEF Inv, GraphAgrees
<1>6. ASSUME NEW v \in C \cap Threads
      PROVE  \E u \in C \cap Threads : BlockedOn(v, u) \/ (v = t /\ native[Wanted(t)] = u)
  <2>1. PICK u \in C \cap Threads :
           native[Wanted(v)] = u /\ ~(pc[u] = "acquired" /\ Wanted(u) = Wanted(v))
    BY <1>4, <1>5
  <2>2. pc[v] # "acquired"
    BY <2>1 DEF Inv, HoldsPrefix
  <2> QED
    BY <1>4, <2>1, <2>2 DEF BlockedOn
<1> QED
  BY <1>3, <1>6

\* A request is refused only when granting it would have been a deadlock.
THEOREM RefusalsJustified == Spec => RefusedOnlyInDeadlock
<1> DEFINE Justified ==
      \A t \in Threads : Refuse(t) =>
        \E S \in SUBSET Threads :
          /\ t \in S
          /\ \A v \in S : \E u \in S :
               BlockedOn(v, u) \/ (v = t /\ native[Wanted(t)] = u)
<1>1. Inv /\ [Next]_vars => [Justified]_vars
  BY CycleIsDeadlock
<1>2. Spec => [][Justified]_vars
  BY <1>1, Invariance, PTL DEF Spec
<1> QED
  BY <1>2 DEF RefusedOnlyInDeadlock

-----------------------------------------------------------------------------
(* The search for cycles, on every graph *)

\* Every dfs of the node has returned.
Black == visited \ stack

Cyclic(S) == S # {} /\ \A a \in S : \E b \in S : <<a, b>> \in adj

SearchTypeOK ==
  /\ adj \subseteq Search!Nodes \X Search!Nodes
  /\ root \in 0 .. Size
  /\ visited \subseteq Search!Nodes
  /\ calls \in Seq([curr : Search!Nodes, next : 0 .. Size])
  /\ answer \in {"none", "cycle", "acyclic"}

\* stack[] marks the nodes of the calls in progress, and these are a path.
IsPath ==
  /\ stack \subseteq visited
  /\ \A n \in Search!Nodes : n \in stack <=> \E k \in 1 .. Len(calls) : calls[k].curr = n
  /\ \A j, k \in 1 .. Len(calls) : calls[j].curr = calls[k].curr => j = k
  /\ \A k \in 1 .. Len(calls) - 1 : <<calls[k].curr, calls[k + 1].curr>> \in adj

\* What the search has left behind leads to no cycle: from a black node edges go to
\* black nodes only, and so they do from a call in progress as far as its loop has come,
\* but for the call that it waits for.
Explored ==
  /\ \A n \in Search!Nodes : n < root => n \in visited
  /\ \A a \in Black, b \in Search!Nodes : <<a, b>> \in adj => b \in Black
  /\ \A k \in 1 .. Len(calls) : \A n \in Search!Nodes :
       n < calls[k].next /\ <<calls[k].curr, n>> \in adj =>
         n \in Black \/ (k < Len(calls) /\ n = calls[k + 1].curr)
  /\ \A S \in SUBSET Black : ~Cyclic(S)

SearchInv ==
  /\ SearchTypeOK
  /\ answer = "none" => IsPath /\ Explored
  /\ Search!FindsExactlyCycles

LEMMA SearchSize == Size \in Nat
BY SearchUsable DEF Search!SearchAssumption

\* The innermost call and the nodes of the path.
LEMMA Innermost ==
  ASSUME SearchTypeOK, IsPath
  PROVE  /\ Search!Depth \in Nat
         /\ \A k \in 1 .. Len(calls) :
              /\ calls[k] \in [curr : Search!Nodes, next : 0 .. Size]
              /\ calls[k].curr \in Search!Nodes /\ calls[k].curr \in stack
              /\ calls[k].next \in 0 .. Size
         /\ calls # <<>> =>
              /\ Search!Depth \in 1 .. Len(calls)
              /\ Search!Curr \in Search!Nodes /\ Search!Curr \in stack
              /\ Search!Succ \in 0 .. Size
              /\ Search!Succ < Size => Search!Succ \in Search!Nodes
<1> DEFINE C == [curr : Search!Nodes, next : 0 .. Size]
<1>0. calls \in Seq(C)
  BY DEF SearchTypeOK
<1> HIDE DEF C
<1>1. /\ Len(calls) \in Nat
      /\ \A k \in 1 .. Len(calls) : calls[k] \in C
      /\ calls # <<>> => Len(calls) > 0
  BY <1>0
<1> USE DEF C
<1>2. \A k \in 1 .. Len(calls) :
        /\ calls[k].curr \in Search!Nodes /\ calls[k].curr \in stack
        /\ calls[k].next \in 0 .. Size
  BY <1>1 DEF IsPath
<1> QED
  BY <1>1, <1>2, SearchSize DEF Search!Depth, Search!Curr, Search!Succ, Search!Nodes

\* The caller's loop goes on: only next of the innermost call changes.
LEMMA StepIs ==
  ASSUME SearchTypeOK, IsPath, Search!Searching
  PROVE  /\ Search!Step \in Seq([curr : Search!Nodes, next : 0 .. Size])
         /\ Len(Search!Step) = Len(calls)
         /\ \A k \in 1 .. Len(calls) : Search!Step[k].curr = calls[k].curr
         /\ \A k \in 1 .. Len(calls) - 1 : Search!Step[k] = calls[k]
         /\ Search!Step[Len(calls)].next = Search!Succ + 1
<1> DEFINE d == Search!Depth
<1>1. /\ d \in 1 .. Len(calls) /\ d = Len(calls) /\ Len(calls) \in Nat
      /\ calls[d] \in [curr : Search!Nodes, next : 0 .. Size]
      /\ Search!Succ = calls[d].next /\ Search!Succ \in 0 .. Size /\ Search!Succ < Size
  BY Innermost DEF Search!Searching, Search!Depth, Search!Succ
<1>2. /\ Search!Step = [calls EXCEPT ![d] = [calls[d] EXCEPT !.next = Search!Succ + 1]]
      /\ Search!Succ + 1 \in 0 .. Size
  BY <1>1, SearchSize DEF Search!Step
<1> DEFINE c == [calls[d] EXCEPT !.next = Search!Succ + 1]
<1>3. /\ c \in [curr : Search!Nodes, next : 0 .. Size]
      /\ c.curr = calls[d].curr /\ c.next = Search!Succ + 1
  BY <1>1, <1>2
<1> HIDE DEF c, d
<1> QED
  BY <1>1, <1>2, <1>3 DEF SearchTypeOK, c

LEMMA SearchInitially == Search!Init => SearchInv
<1> SUFFICES ASSUME Search!Init PROVE SearchInv
  OBVIOUS
<1>1. SearchTypeOK
  BY SearchSize DEF Search!Init, SearchTypeOK
<1>2. IsPath
  BY DEF Search!Init, IsPath
<1>3. Explored
  BY SearchSize DEF Search!Init, Explored, Black, Cyclic, Search!Nodes
<1> QED
  BY <1>1, <1>2, <1>3 DEF SearchInv, Search!FindsExactlyCycles, Search!Init

\* A dfs begins: its node is marked, and no node becomes black.
LEMMA CallKeeps ==
  ASSUME SearchTypeOK, IsPath, Explored,
         NEW n \in Search!Nodes, n \notin visited,
         NEW callers \in Seq([curr : Search!Nodes, next : 0 .. Size]),
         Len(callers) = Len(calls),
         \A k \in 1 .. Len(calls) : callers[k].curr = calls[k].curr,
         \A k \in 1 .. Len(calls) - 1 : callers[k] = calls[k],
         calls # <<>> =>
           /\ callers[Len(calls)].next = n + 1 /\ Search!Succ = n
           /\ <<Search!Curr, n>> \in adj,
         Search!Call(n, callers), adj' = adj, root' = root, answer' = answer
  PROVE  SearchTypeOK' /\ IsPath' /\ Explored'
<1> DEFINE d == Len(calls)
           c == [curr |-> n, next |-> 0]
<1>0. d \in Nat
  BY DEF SearchTypeOK
<1>1. /\ d \in Nat /\ Len(callers) = d
      /\ visited' = visited \cup {n} /\ stack' = stack \cup {n}
      /\ calls' = Append(callers, c) /\ c \in [curr : Search!Nodes, next : 0 .. Size]
  BY SearchSize DEF Search!Call, SearchTypeOK
<1>2. /\ calls' \in Seq([curr : Search!Nodes, next : 0 .. Size])
      /\ Len(calls') = d + 1
      /\ \A k \in 1 .. d : calls'[k] = callers[k]
      /\ calls'[d + 1] = c
  BY <1>1
<1> HIDE DEF d
<1>3. SearchTypeOK'
  BY <1>1, <1>2 DEF SearchTypeOK
<1>4. Black' = Black
  BY <1>1 DEF Black, IsPath
<1>5. \A k \in 1 .. d : calls'[k].curr = calls[k].curr /\ calls[k].curr # n
  <2>1. \A k \in 1 .. d : calls[k].curr \in visited
    BY Innermost DEF IsPath, d
  <2> QED
    BY <1>2, <2>1 DEF d
<1>6. calls'[d + 1].curr = n /\ calls'[d + 1].next = 0
  BY <1>2
<1>7. IsPath'
  <2>1. stack' \subseteq visited'
    BY <1>1 DEF IsPath
  <2>2. ASSUME NEW x \in Search!Nodes
        PROVE  x \in stack' <=> \E k \in 1 .. d + 1 : calls'[k].curr = x
    <3>1. x \in stack <=> \E k \in 1 .. d : calls[k].curr = x
      BY DEF IsPath, d
    <3>2. ASSUME NEW k \in 1 .. d + 1, calls'[k].curr = x PROVE x \in stack'
      <4>1. k \in 1 .. d => calls[k].curr = x
        BY <1>5, <3>2
      <4>2. k \in 1 .. d \/ k = d + 1
        BY <1>0
      <4> QED
        BY <1>1, <1>6, <3>1, <3>2, <4>1, <4>2
    <3>3. ASSUME x \in stack' PROVE \E k \in 1 .. d + 1 : calls'[k].curr = x
      <4>1. CASE x = n
        BY <1>0, <1>6, <4>1
      <4>2. CASE x # n
        <5>1. PICK k \in 1 .. d : calls[k].curr = x
          BY <1>1, <3>1, <3>3, <4>2
        <5>2. k \in 1 .. d + 1 /\ calls'[k].curr = x
          BY <1>0, <1>5, <5>1
        <5> QED
          BY <5>2
      <4> QED
        BY <4>1, <4>2
    <3> QED
      BY <3>2, <3>3
  <2>3. ASSUME NEW j \in 1 .. d + 1, NEW k \in 1 .. d + 1, calls'[j].curr = calls'[k].curr
        PROVE  j = k
    <3>1. CASE j \in 1 .. d /\ k \in 1 .. d
      BY <1>5, <2>3, <3>1 DEF IsPath, d
    <3> QED
      BY <1>1, <1>5, <1>6, <2>3, <3>1
  <2>4. ASSUME NEW k \in 1 .. d PROVE <<calls'[k].curr, calls'[k + 1].curr>> \in adj
    <3>1. CASE k = d
      <4>1. calls # <<>> /\ Search!Curr = calls[d].curr
        BY <1>1, <3>1 DEF Search!Curr, Search!Depth, d
      <4> QED
        BY <1>5, <1>6, <3>1, <4>1
    <3>2. CASE k \in 1 .. d - 1
      BY <1>1, <1>5, <3>2 DEF IsPath, d
    <3> QED
      BY <1>0, <3>1, <3>2
  <2> QED
    BY <1>1, <1>2, <2>1, <2>2, <2>3, <2>4 DEF IsPath
<1>8. Explored'
  <2>1. ASSUME NEW k \in 1 .. d + 1, NEW x \in Search!Nodes,
               x < calls'[k].next, <<calls'[k].curr, x>> \in adj
        PROVE  x \in Black \/ (k < d + 1 /\ x = calls'[k + 1].curr)
    <3>1. CASE k = d + 1
      BY <1>6, <2>1, <3>1 DEF Search!Nodes
    <3>2. CASE k \in 1 .. d - 1
      <4>1. calls'[k] = calls[k] /\ k \in 1 .. d /\ k + 1 \in 1 .. d
        BY <1>1, <1>2, <3>2 DEF d
      <4> QED
        BY <1>1, <1>5, <2>1, <3>2, <4>1 DEF Explored, d
    <3>3. CASE k = d
      <4>1. calls # <<>> /\ k \in 1 .. d
        BY <1>1, <3>3 DEF d
      <4>2. /\ calls[d].next = n /\ calls'[d].next = n + 1 /\ calls'[d].curr = calls[d].curr
        BY <1>2, <1>5, <3>3, <4>1 DEF Search!Succ, Search!Depth, d
      <4>3. x = n \/ x < n
        BY <2>1, <3>3, <4>2 DEF Search!Nodes
      <4>4. x < n => x \in Black
        BY <1>1, <2>1, <3>3, <4>1, <4>2 DEF Explored, d
      <4> QED
        BY <1>1, <1>6, <3>3, <4>3, <4>4
    <3> QED
      BY <1>1, <3>1, <3>2, <3>3
  <2>2. \A x \in Search!Nodes : x < root => x \in visited'
    BY <1>1 DEF Explored
  <2>3. \A S \in SUBSET Black : ~Cyclic(S)'
    BY DEF Explored, Cyclic
  <2>4. \A a \in Black, b \in Search!Nodes : <<a, b>> \in adj => b \in Black
    BY DEF Explored
  <2> QED
    BY <1>1, <1>2, <1>4, <2>1, <2>2, <2>3, <2>4 DEF Explored
<1> QED
  BY <1>3, <1>7, <1>8

\* The loop of the innermost call passes a node it has no edge to, or a black one.
LEMMA SkipKeeps ==
  ASSUME SearchTypeOK, IsPath, Explored, Search!Skip
  PROVE  SearchTypeOK' /\ IsPath' /\ Explored'
<1> DEFINE d == Len(calls)
<1>1. /\ d \in Nat /\ calls # <<>> /\ d \in 1 .. d
      /\ Search!Curr = calls[d].curr /\ Search!Succ = calls[d].next
      /\ Search!Succ \in Search!Nodes
  BY Innermost DEF Search!Skip, Search!Searching, Search!Curr, Search!Succ, Search!Depth
<1>2. /\ adj' = adj /\ root' = root /\ visited' = visited /\ stack' = stack /\ answer' = answer
      /\ calls' = Search!Step /\ Search!Searching
      /\ <<Search!Curr, Search!Succ>> \in adj => Search!Succ \in Black
  BY DEF Search!Skip, Black
<1>3. /\ calls' \in Seq([curr : Search!Nodes, next : 0 .. Size])
      /\ Len(calls') = d
      /\ \A k \in 1 .. d : calls'[k].curr = calls[k].curr
      /\ \A k \in 1 .. d - 1 : calls'[k] = calls[k]
      /\ calls'[d].next = Search!Succ + 1
  BY <1>2, StepIs
<1> HIDE DEF d
<1>4. SearchTypeOK'
  BY <1>2, <1>3 DEF SearchTypeOK
<1>5. IsPath'
  <2>1. \A k \in 1 .. d - 1 : k \in 1 .. d /\ k + 1 \in 1 .. d
    BY <1>1
  <2>2. ASSUME NEW n \in Search!Nodes
        PROVE  n \in stack' <=> \E k \in 1 .. d : calls'[k].curr = n
    <3>1. n \in stack <=> \E k \in 1 .. d : calls[k].curr = n
      BY DEF IsPath, d
    <3> QED
      BY <1>2, <1>3, <3>1
  <2>3. \A j, k \in 1 .. d : calls'[j].curr = calls'[k].curr => j = k
    BY <1>3 DEF IsPath, d
  <2>4. \A k \in 1 .. d - 1 : <<calls'[k].curr, calls'[k + 1].curr>> \in adj
    BY <1>3, <2>1 DEF IsPath, d
  <2>5. stack' \subseteq visited'
    BY <1>2 DEF IsPath
  <2> QED
    BY <1>2, <1>3, <2>2, <2>3, <2>4, <2>5 DEF IsPath
<1>6. Explored'
  <2>1. Black' = Black
    BY <1>2 DEF Black
  <2>2. ASSUME NEW k \in 1 .. d, NEW x \in Search!Nodes,
               x < calls'[k].next, <<calls'[k].curr, x>> \in adj
        PROVE  x \in Black \/ (k < d /\ x = calls'[k + 1].curr)
    <3>1. CASE k \in 1 .. d - 1
      <4>1. k + 1 \in 1 .. d /\ calls'[k] = calls[k]
        BY <1>1, <1>3, <3>1
      <4> QED
        BY <1>3, <2>2, <4>1 DEF Explored, d
    <3>2. CASE k = d
      <4>1. x = Search!Succ \/ x < Search!Succ
        BY <1>1, <1>3, <2>2, <3>2 DEF Search!Nodes
      <4>2. <<Search!Curr, x>> \in adj
        BY <1>1, <1>3, <2>2, <3>2
      <4>3. x < Search!Succ => x \in Black
        BY <1>1, <4>2 DEF Explored, d
      <4> QED
        BY <1>2, <4>1, <4>2, <4>3
    <3> QED
      BY <1>1, <3>1, <3>2
  <2>3. \A S \in SUBSET Black : ~Cyclic(S)'
    BY <1>2 DEF Explored, Cyclic
  <2> QED
    BY <1>2, <1>3, <2>1, <2>2, <2>3 DEF Explored
<1> QED
  BY <1>4, <1>5, <1>6

\* A node that has only edges to black ones can be made black: a cycle through it
\* would have been a cycle without it.
LEMMA BlackGrows ==
  ASSUME NEW c,
         \A a \in Black, b \in Search!Nodes : <<a, b>> \in adj => b \in Black,
         \A b \in Search!Nodes : <<c, b>> \in adj => b \in Black,
         \A S \in SUBSET Black : ~Cyclic(S),
         SearchTypeOK
  PROVE  \A S \in SUBSET (Black \cup {c}) : ~Cyclic(S)
<1> SUFFICES ASSUME NEW S \in SUBSET (Black \cup {c}), Cyclic(S) PROVE FALSE
  OBVIOUS
<1>1. \A a \in S : \E b \in S \cap Black : <<a, b>> \in adj
  BY DEF Cyclic, SearchTypeOK
<1>2. Cyclic(S \cap Black)
  BY <1>1 DEF Cyclic
<1> QED
  BY <1>2

\* A call that returns false leaves its node black.
LEMMA LeaveKeeps ==
  ASSUME SearchTypeOK, IsPath, Explored, Search!Leave
  PROVE  SearchTypeOK' /\ IsPath' /\ Explored'
<1> DEFINE d == Len(calls)
           c == calls[d].curr
<1>1. /\ d \in Nat /\ calls # <<>> /\ d \in 1 .. d
      /\ c \in Search!Nodes /\ c \in stack /\ calls[d].next = Size
      /\ \A k \in 1 .. d : calls[k].curr \in Search!Nodes
  BY Innermost DEF Search!Leave, Search!Curr, Search!Succ, Search!Depth
<1>2. /\ adj' = adj /\ root' = root /\ visited' = visited /\ answer' = answer
      /\ stack' = stack \ {c} /\ calls' = SubSeq(calls, 1, d - 1)
  BY DEF Search!Leave, Search!Curr, Search!Depth
<1>3. /\ calls' \in Seq([curr : Search!Nodes, next : 0 .. Size])
      /\ Len(calls') = d - 1
      /\ \A k \in 1 .. d - 1 : calls'[k] = calls[k]
  <2> DEFINE C == [curr : Search!Nodes, next : 0 .. Size]
  <2>1. calls \in Seq(C)
    BY DEF SearchTypeOK
  <2> HIDE DEF C, d
  <2>2. /\ SubSeq(calls, 1, d - 1) \in Seq(C)
        /\ Len(SubSeq(calls, 1, d - 1)) = d - 1
        /\ \A k \in 1 .. d - 1 : SubSeq(calls, 1, d - 1)[k] = calls[k]
    <3>1. 1 \in Int /\ d - 1 \in Int /\ \A k \in 1 .. d - 1 : calls[k] \in C
      BY <1>1, <2>1 DEF d
    <3>2. \A k \in 1 .. d - 1 : 1 + k - 1 = k /\ k \in 1 .. (d - 1) - 1 + 1
      BY <1>1
    <3>3. (IF 1 <= d - 1 THEN (d - 1) - 1 + 1 ELSE 0) = d - 1
      BY <1>1
    <3> QED
      BY <3>1, <3>2, <3>3, SubSeqProperties
  <2> QED
    BY <1>2, <2>2 DEF C
<1> HIDE DEF d, c
<1>4. SearchTypeOK'
  BY <1>2, <1>3 DEF SearchTypeOK
<1>5. \A k \in 1 .. d - 1 : k \in 1 .. d /\ k + 1 \in 1 .. d /\ k # d
  BY <1>1
<1>6. IsPath'
  <2>1. ASSUME NEW x \in Search!Nodes
        PROVE  x \in stack' <=> \E k \in 1 .. d - 1 : calls'[k].curr = x
    <3>1. x \in stack <=> \E k \in 1 .. d : calls[k].curr = x
      BY DEF IsPath, d
    <3>2. \A k \in 1 .. d - 1 : calls[k].curr # c
      BY <1>1, <1>5 DEF IsPath, c, d
    <3>3. \A k \in 1 .. d : k \in 1 .. d - 1 \/ k = d
      BY <1>1
    <3>4. CASE x = c
      BY <1>2, <1>3, <3>2, <3>4
    <3>5. CASE x # c
      BY <1>2, <1>3, <1>5, <3>1, <3>3, <3>5 DEF c
    <3> QED
      BY <3>4, <3>5
  <2>2. stack' \subseteq visited'
    BY <1>2 DEF IsPath
  <2>3. \A j, k \in 1 .. d - 1 : calls'[j].curr = calls'[k].curr => j = k
    BY <1>3, <1>5 DEF IsPath, d
  <2>4. ASSUME NEW k \in 1 .. (d - 1) - 1 PROVE <<calls'[k].curr, calls'[k + 1].curr>> \in adj
    <3>1. k \in 1 .. d - 1 /\ k + 1 \in 1 .. d - 1
      BY <1>1
    <3> QED
      BY <1>3, <3>1 DEF IsPath, d
  <2> QED
    BY <1>2, <1>3, <2>1, <2>2, <2>3, <2>4 DEF IsPath
<1>7. Explored'
  <2>1. Black' = Black \cup {c}
    BY <1>1, <1>2 DEF Black, IsPath
  <2>2. \A b \in Search!Nodes : <<c, b>> \in adj => b \in Black
    <3>1. \A b \in Search!Nodes : b < calls[d].next
      BY <1>1, SearchSize DEF Search!Nodes
    <3> QED
      BY <1>1, <3>1 DEF Explored, c, d
  <2>3. \A a \in Black', b \in Search!Nodes : <<a, b>> \in adj => b \in Black'
    BY <2>1, <2>2 DEF Explored
  <2>4. \A S \in SUBSET (Black') : ~Cyclic(S)
    BY <2>1, <2>2, BlackGrows DEF Explored
  <2>5. \A S \in SUBSET (Black') : ~Cyclic(S)'
    BY <1>2, <2>4 DEF Cyclic
  <2>6. ASSUME NEW k \in 1 .. d - 1, NEW x \in Search!Nodes,
               x < calls'[k].next, <<calls'[k].curr, x>> \in adj
        PROVE  x \in Black' \/ (k < d - 1 /\ x = calls'[k + 1].curr)
    <3>1. x \in Black \/ (k < d /\ x = calls[k + 1].curr)
      BY <1>3, <1>5, <2>6 DEF Explored, d
    <3>2. CASE k + 1 = d
      BY <2>1, <3>1, <3>2 DEF c
    <3>3. CASE k + 1 \in 1 .. d - 1
      BY <1>1, <1>3, <2>1, <3>1, <3>3
    <3> QED
      BY <1>1, <3>2, <3>3
  <2> QED
    BY <1>2, <1>3, <2>3, <2>5, <2>6 DEF Explored
<1> QED
  BY <1>4, <1>6, <1>7

\* The path from the node that is met again to the innermost call is a cycle.
LEMMA FoundIsCycle ==
  ASSUME SearchTypeOK, IsPath, Search!Found
  PROVE  Search!HasCycle
<1> DEFINE d == Len(calls)
<1>1. /\ d \in Nat /\ d \in 1 .. d
      /\ Search!Curr = calls[d].curr
      /\ Search!Succ \in Search!Nodes /\ Search!Succ \in stack
      /\ <<calls[d].curr, Search!Succ>> \in adj
      /\ \A k \in 1 .. d : calls[k].curr \in Search!Nodes
  BY Innermost DEF Search!Found, Search!Searching, Search!Curr, Search!Succ, Search!Depth
<1>2. PICK j \in 1 .. d : calls[j].curr = Search!Succ
  BY <1>1 DEF IsPath
<1> HIDE DEF d
<1> DEFINE S == {calls[k].curr : k \in j .. d}
<1>3. S \in SUBSET Search!Nodes
  BY <1>1
<1>4. j \in j .. d /\ S # {}
  BY <1>1
<1>5. ASSUME NEW k \in j .. d PROVE \E b \in S : <<calls[k].curr, b>> \in adj
  <2>1. CASE k = d
    BY <1>1, <1>2, <1>4, <2>1
  <2>2. CASE k # d
    <3>1. k \in 1 .. d - 1 /\ k + 1 \in j .. d
      BY <1>1, <2>2
    <3>2. <<calls[k].curr, calls[k + 1].curr>> \in adj
      BY <3>1 DEF IsPath, d
    <3> QED
      BY <3>1, <3>2
  <2> QED
    BY <2>1, <2>2
<1>6. \A a \in S : \E b \in S : <<a, b>> \in adj
  BY <1>5
<1> QED
  BY <1>3, <1>4, <1>6 DEF Search!HasCycle

\* When detect_cycle has tried every node, all of them are black.
LEMMA AllBlack ==
  ASSUME SearchTypeOK, IsPath, Explored, Search!NoneFound
  PROVE  ~Search!HasCycle
<1>1. Len(calls) = 0 /\ root = Size
  BY DEF Search!NoneFound
<1>2. stack = {}
  BY <1>1 DEF IsPath, SearchTypeOK
<1>3. Search!Nodes \subseteq visited
  BY <1>1, SearchSize DEF Explored, Search!Nodes
<1>4. Search!Nodes \subseteq Black
  BY <1>2, <1>3 DEF Black
<1> QED
  BY <1>4 DEF Explored, Cyclic, Search!HasCycle

\* Every step of the search.
LEMMA SearchKept ==
  ASSUME SearchInv, Search!detect_cycle
  PROVE  SearchInv'
<1>0. SearchTypeOK /\ IsPath /\ Explored /\ answer = "none"
  BY DEF SearchInv, Search!detect_cycle
<1> DEFINE Kept == SearchTypeOK' /\ IsPath' /\ Explored'
<1>1. Kept /\ answer' = "none" => SearchInv'
  BY DEF SearchInv, Search!FindsExactlyCycles
<1>2. CASE Search!SearchFrom
  <2>1. /\ calls = <<>> /\ root \in Search!Nodes /\ root \notin visited
        /\ Search!Call(root, calls) /\ adj' = adj /\ root' = root /\ answer' = answer
        /\ calls \in Seq([curr : Search!Nodes, next : 0 .. Size])
    BY <1>0, <1>2, SearchSize DEF Search!SearchFrom, SearchTypeOK, Search!Nodes
  <2>2. Kept
    BY <1>0, <2>1, CallKeeps
  <2> QED
    BY <1>0, <1>1, <2>1, <2>2
<1>3. CASE Search!SkipRoot
  <2>1. /\ calls = <<>> /\ root < Size /\ root \in visited /\ root' = root + 1
        /\ adj' = adj /\ visited' = visited /\ stack' = stack /\ calls' = calls /\ answer' = answer
    BY <1>3 DEF Search!SkipRoot
  <2>2. SearchTypeOK'
    BY <1>0, <2>1, SearchSize DEF SearchTypeOK
  <2>3. IsPath'
    BY <1>0, <2>1 DEF IsPath
  <2>4. \A n \in Search!Nodes : n < root' => n \in visited'
    <3>1. \A n \in Search!Nodes : n < root + 1 => n < root \/ n = root
      BY <1>0, SearchSize DEF SearchTypeOK, Search!Nodes
    <3> QED
      BY <1>0, <2>1, <3>1 DEF Explored
  <2>5. Explored'
    BY <1>0, <2>1, <2>4 DEF Explored, Black, Cyclic
  <2> QED
    BY <1>0, <1>1, <2>1, <2>2, <2>3, <2>5
<1>4. CASE Search!NoneFound
  <2>1. ~Search!HasCycle
    BY <1>0, <1>4, AllBlack
  <2> QED
    BY <1>0, <1>4, <2>1
       DEF Search!NoneFound, SearchInv, SearchTypeOK, Search!FindsExactlyCycles, Search!HasCycle
<1>5. CASE Search!Skip
  BY <1>0, <1>1, <1>5, SkipKeeps DEF Search!Skip
<1>6. CASE Search!Dfs
  <2>1. /\ Search!Searching /\ Search!Succ \in Search!Nodes /\ Search!Succ \notin visited
        /\ <<Search!Curr, Search!Succ>> \in adj
        /\ Search!Call(Search!Succ, Search!Step)
        /\ adj' = adj /\ root' = root /\ answer' = answer
    BY <1>0, <1>6, Innermost DEF Search!Dfs, Search!Searching
  <2>2. Kept
    BY <1>0, <2>1, StepIs, CallKeeps
  <2> QED
    BY <1>0, <1>1, <2>1, <2>2
<1>7. CASE Search!Found
  <2>1. Search!HasCycle
    BY <1>0, <1>7, FoundIsCycle
  <2> QED
    BY <1>0, <1>7, <2>1
       DEF Search!Found, SearchInv, SearchTypeOK, Search!FindsExactlyCycles, Search!HasCycle
<1>8. CASE Search!Leave
  BY <1>0, <1>1, <1>8, LeaveKeeps DEF Search!Leave
<1> QED
  BY <1>2, <1>3, <1>4, <1>5, <1>6, <1>7, <1>8 DEF Search!detect_cycle

\* The invariant of the search, for any number of nodes and any graph.
THEOREM SearchInvariance == MCSpec => []SearchInv
<1>1. MCInit => SearchInv
  BY SearchInitially DEF MCInit
<1>2. SearchInv /\ [MCNext]_allvars => SearchInv'
  <2> SUFFICES ASSUME SearchInv, [MCNext]_allvars PROVE SearchInv'
    OBVIOUS
  <2>1. CASE UNCHANGED svars
    BY <2>1 DEF svars, SearchInv, SearchTypeOK, IsPath, Explored, Black, Cyclic,
                Search!FindsExactlyCycles, Search!HasCycle
  <2>2. CASE Search!detect_cycle
    BY <2>2, SearchKept
  <2> QED
    BY <2>1, <2>2 DEF MCNext, allvars, Deep, OnRing, Looking, Trading, Ticking, Runs
<1> QED
  BY <1>1, <1>2, PTL DEF MCSpec

\* The search answers "cycle" exactly for the graphs that have a cycle: of any size,
\* and from whichever node the search came to it first.
THEOREM SearchCorrect == MCSpec => []SearchFindsExactlyCycles
<1>1. SearchInv => SearchFindsExactlyCycles
  BY DEF SearchInv, SearchFindsExactlyCycles
<1> QED
  BY <1>1, SearchInvariance, PTL
-----------------------------------------------------------------------------
(* Day 39: the order book *)

Inside == {"prices", "load_volume", "store_volume", "load_quantity", "store_quantity", "release"}

OrdersTypeOK ==
  /\ flag \in Traders \cup {0}
  /\ book \in [bid_price : Nat, price : Nat, volume : Nat, quantity : Nat]
  /\ reg \in [Traders -> Nat]
  /\ at \in [Traders -> Inside \cup {"acquire", "done"}]
  /\ round \in [Traders -> 1 .. UPDATES + 1]
  /\ spins \in [Traders -> BOOLEAN]

\* Who is between lock and unlock holds the flag; so at most one thread is.
Exclusive == \A t \in Traders : at[t] \in Inside <=> flag = t

\* What the holder has loaded is what the book still says.
Carried ==
  \A t \in Traders :
    /\ at[t] = "store_volume" => reg[t] = book.volume
    /\ at[t] = "store_quantity" => reg[t] = book.quantity

RoundsLeft == \A t \in Traders : at[t] = "done" <=> round[t] = UPDATES + 1

\* The quantity is behind the volume while the holder is between the two stores.
QuantityFollows ==
  LET between(t) == at[t] \in {"load_quantity", "store_quantity"}
  IN  /\ (\A t \in Traders : ~between(t)) => book.quantity = 5 * book.volume
      /\ \A t \in Traders : between(t) => book.quantity + 5 = 5 * book.volume

OrdersInv ==
  /\ OrdersTypeOK /\ Exclusive /\ Carried /\ RoundsLeft /\ QuantityFollows
  /\ book.volume = Cardinality(Orders!VolumeStored)

\* The instance's own copies of the two operators
LEMMA SameCardinality ==
  \A S : (Orders!IsFiniteSet(S) <=> IsFiniteSet(S)) /\ Orders!Cardinality(S) = Cardinality(S)
BY DEF Orders!IsFiniteSet, IsFiniteSet, Orders!Cardinality, Cardinality

LEMMA OrdersFacts ==
  /\ IsFiniteSet(Traders) /\ 0 \notin Traders /\ UPDATES \in Nat /\ UPDATES > 0
  /\ IsFiniteSet(1 .. UPDATES) /\ Cardinality(1 .. UPDATES) = UPDATES
  /\ IsFiniteSet(Traders \X (1 .. UPDATES))
  /\ Cardinality(Traders \X (1 .. UPDATES)) = Cardinality(Traders) * UPDATES
<1>1. IsFiniteSet(Traders) /\ 0 \notin Traders /\ UPDATES \in Nat /\ UPDATES > 0
  BY OrdersUsable, SameCardinality DEF Orders!OrderAssumption
<1>2. IsFiniteSet(1 .. UPDATES) /\ Cardinality(1 .. UPDATES) = UPDATES
  BY <1>1, FS_Interval
<1> QED
  BY <1>1, <1>2, FS_Product

LEMMA OrdersInitially == Orders!Init => OrdersInv
<1> SUFFICES ASSUME Orders!Init PROVE OrdersInv
  OBVIOUS
<1>1. OrdersTypeOK /\ Exclusive /\ Carried /\ RoundsLeft /\ QuantityFollows
  BY OrdersFacts DEF Orders!Init, OrdersTypeOK, Exclusive, Carried, RoundsLeft, QuantityFollows, Inside
<1>2. Orders!VolumeStored = {}
  BY OrdersFacts DEF Orders!Init, Orders!VolumeStored, Orders!Stored
<1>3. Cardinality({}) = 0
  BY FS_EmptySet
<1> QED
  BY <1>1, <1>2, <1>3 DEF Orders!Init, OrdersInv

\* A store of the volume adds one update to those stored; no other step adds or loses one.
LEMMA VolumeCounts ==
  ASSUME OrdersInv, NEW t \in Traders, Orders!updateOrder(t)
  PROVE  Cardinality(Orders!VolumeStored') =
           Cardinality(Orders!VolumeStored) + (IF at[t] = "store_volume" THEN 1 ELSE 0)
<1> DEFINE V == Orders!VolumeStored
<1>0. /\ V \subseteq Traders \X (1 .. UPDATES) /\ IsFiniteSet(V) /\ Cardinality(V) \in Nat
      /\ OrdersTypeOK /\ RoundsLeft
  <2>1. V \subseteq Traders \X (1 .. UPDATES)
    BY DEF Orders!VolumeStored
  <2> QED
    BY <2>1, OrdersFacts, FS_Subset, FS_CardinalityType DEF OrdersInv
<1>1. CASE at[t] = "store_volume"
  <2>1. /\ at' = [at EXCEPT ![t] = "load_quantity"] /\ round' = round
        /\ round[t] \in 1 .. UPDATES
    BY <1>0, <1>1, OrdersFacts
       DEF Orders!updateOrder, Orders!acquire, Orders!lock_spin, Orders!SetPrices, Orders!Load,
           Orders!Store, Orders!release, Orders!Go, OrdersTypeOK, RoundsLeft
  <2>2. <<t, round[t]>> \notin V
    BY <1>1 DEF Orders!VolumeStored, Orders!Stored
  <2>3. V' = V \cup {<<t, round[t]>>}
    <3>1. ASSUME NEW u \in Traders, NEW k \in 1 .. UPDATES
          PROVE  (k < round'[u] \/ (k = round'[u] /\ at'[u] \in Orders!Stored))
                   <=> (k < round[u] \/ (k = round[u] /\ at[u] \in Orders!Stored))
                         \/ (u = t /\ k = round[t])
      BY <1>0, <1>1, <2>1 DEF OrdersTypeOK, Orders!Stored
    <3> QED
      BY <2>1, <3>1 DEF Orders!VolumeStored
  <2>4. Cardinality(V \cup {<<t, round[t]>>}) = Cardinality(V) + 1
    BY <1>0, <2>2, FS_AddElement
  <2> QED
    BY <1>1, <2>3, <2>4
<1>2. CASE at[t] # "store_volume"
  <2>1. ASSUME NEW u \in Traders, NEW k \in 1 .. UPDATES
        PROVE  (k < round'[u] \/ (k = round'[u] /\ at'[u] \in Orders!Stored))
                 <=> (k < round[u] \/ (k = round[u] /\ at[u] \in Orders!Stored))
    <3>1. CASE Orders!release(t)
      BY <1>0, <3>1, OrdersFacts DEF Orders!release, Orders!Go, OrdersTypeOK, Orders!Stored
    <3>2. CASE ~Orders!release(t)
      BY <1>0, <1>2, <3>2
         DEF Orders!updateOrder, Orders!acquire, Orders!lock_spin, Orders!SetPrices, Orders!Load,
             Orders!Store, Orders!Go, OrdersTypeOK, Orders!Stored
    <3> QED
      BY <3>1, <3>2
  <2>2. V' = V
    BY <2>1 DEF Orders!VolumeStored
  <2> QED
    BY <1>0, <1>2, <2>2
<1> QED
  BY <1>1, <1>2

\* Every step of a trader.
LEMMA OrdersKept ==
  ASSUME OrdersInv, NEW t \in Traders, Orders!updateOrder(t)
  PROVE  OrdersInv'
<1> DEFINE Others == OrdersTypeOK /\ Exclusive /\ Carried /\ RoundsLeft /\ QuantityFollows
<1> USE DEF Orders!Go, Inside
<1>0. Others /\ book.volume = Cardinality(Orders!VolumeStored)
  BY DEF OrdersInv
<1>1. Others' /\ book'.volume = book.volume + (IF at[t] = "store_volume" THEN 1 ELSE 0)
  <2>1. CASE Orders!acquire(t)
    <3>1. /\ at[t] = "acquire" /\ flag = 0 /\ flag' = t /\ at' = [at EXCEPT ![t] = "prices"]
          /\ book' = book /\ reg' = reg /\ round' = round /\ spins' \in [Traders -> BOOLEAN]
      BY <1>0, <2>1 DEF Orders!acquire, OrdersTypeOK
    <3>2. OrdersTypeOK'
      BY <1>0, <3>1, OrdersFacts DEF OrdersTypeOK
    <3>3. Exclusive'
      BY <1>0, <3>1, OrdersFacts DEF OrdersTypeOK, Exclusive
    <3>4. Carried'
      BY <1>0, <3>1 DEF OrdersTypeOK, Exclusive, Carried
    <3>5. RoundsLeft'
      BY <1>0, <3>1 DEF OrdersTypeOK, RoundsLeft
    <3>6. QuantityFollows'
      BY <1>0, <3>1 DEF OrdersTypeOK, Exclusive, QuantityFollows
    <3> QED
      BY <1>0, <3>1, <3>2, <3>3, <3>4, <3>5, <3>6 DEF OrdersTypeOK, Carried
  <2>2. CASE Orders!lock_spin(t)
    BY <1>0, <2>2, OrdersFacts
       DEF Orders!lock_spin, OrdersTypeOK, Exclusive, Carried, RoundsLeft, QuantityFollows
  <2>3. CASE Orders!SetPrices(t)
    <3>1. /\ at[t] = "prices" /\ flag' = flag /\ at' = [at EXCEPT ![t] = "load_volume"]
          /\ book' \in [bid_price : Nat, price : Nat, volume : Nat, quantity : Nat]
          /\ book'.volume = book.volume /\ book'.quantity = book.quantity
          /\ reg' = reg /\ round' = round /\ spins' = spins
      BY <1>0, <2>3 DEF Orders!SetPrices, OrdersTypeOK
    <3>2. OrdersTypeOK'
      BY <1>0, <3>1, OrdersFacts DEF OrdersTypeOK
    <3>3. Exclusive'
      BY <1>0, <3>1, OrdersFacts DEF OrdersTypeOK, Exclusive
    <3>4. Carried'
      BY <1>0, <3>1 DEF OrdersTypeOK, Exclusive, Carried
    <3>5. RoundsLeft'
      BY <1>0, <3>1 DEF OrdersTypeOK, RoundsLeft
    <3>6. QuantityFollows'
      BY <1>0, <3>1 DEF OrdersTypeOK, Exclusive, QuantityFollows
    <3> QED
      BY <1>0, <3>1, <3>2, <3>3, <3>4, <3>5, <3>6 DEF OrdersTypeOK, Carried
  <2>4. CASE Orders!Load(t, "volume", "load_volume", "store_volume")
    BY <1>0, <2>4, OrdersFacts
       DEF Orders!Load, OrdersTypeOK, Exclusive, Carried, RoundsLeft, QuantityFollows
  <2>5. CASE Orders!Store(t, "volume", 1, "store_volume", "load_quantity")
    <3>1. /\ at[t] = "store_volume" /\ flag' = flag /\ at' = [at EXCEPT ![t] = "load_quantity"]
          /\ book' \in [bid_price : Nat, price : Nat, volume : Nat, quantity : Nat]
          /\ book'.volume = reg[t] + 1 /\ book'.quantity = book.quantity
          /\ reg' = reg /\ round' = round /\ spins' = spins
      BY <1>0, <2>5 DEF Orders!Store, OrdersTypeOK
    <3>2. OrdersTypeOK'
      BY <1>0, <3>1, OrdersFacts DEF OrdersTypeOK
    <3>3. Exclusive'
      BY <1>0, <3>1, OrdersFacts DEF OrdersTypeOK, Exclusive
    <3>4. Carried'
      BY <1>0, <3>1 DEF OrdersTypeOK, Exclusive, Carried
    <3>5. RoundsLeft'
      BY <1>0, <3>1 DEF OrdersTypeOK, RoundsLeft
    <3>6. QuantityFollows'
      <4>1. \A u \in Traders : at[u] \in {"load_quantity", "store_quantity"} => u = t
        BY <1>0, <3>1 DEF Exclusive
      <4>2. book.quantity = 5 * book.volume /\ reg[t] = book.volume /\ book.volume \in Nat
        BY <1>0, <3>1, <4>1 DEF QuantityFollows, Carried, OrdersTypeOK
      <4>3. book'.quantity + 5 = 5 * book'.volume /\ at'[t] = "load_quantity"
        BY <1>0, <3>1, <4>2 DEF OrdersTypeOK
      <4> QED
        BY <4>3 DEF QuantityFollows
    <3> QED
      BY <1>0, <3>1, <3>2, <3>3, <3>4, <3>5, <3>6 DEF OrdersTypeOK, Carried
  <2>6. CASE Orders!Load(t, "quantity", "load_quantity", "store_quantity")
    BY <1>0, <2>6, OrdersFacts
       DEF Orders!Load, OrdersTypeOK, Exclusive, Carried, RoundsLeft, QuantityFollows
  <2>7. CASE Orders!Store(t, "quantity", 5, "store_quantity", "release")
    <3>1. /\ at[t] = "store_quantity" /\ flag' = flag /\ at' = [at EXCEPT ![t] = "release"]
          /\ book' \in [bid_price : Nat, price : Nat, volume : Nat, quantity : Nat]
          /\ book'.volume = book.volume /\ book'.quantity = reg[t] + 5
          /\ reg' = reg /\ round' = round /\ spins' = spins
      BY <1>0, <2>7 DEF Orders!Store, OrdersTypeOK
    <3>2. OrdersTypeOK'
      BY <1>0, <3>1, OrdersFacts DEF OrdersTypeOK
    <3>3. Exclusive'
      BY <1>0, <3>1, OrdersFacts DEF OrdersTypeOK, Exclusive
    <3>4. Carried'
      BY <1>0, <3>1 DEF OrdersTypeOK, Exclusive, Carried
    <3>5. RoundsLeft'
      BY <1>0, <3>1 DEF OrdersTypeOK, RoundsLeft
    <3>6. QuantityFollows'
      <4>1. \A u \in Traders : at[u] \in Inside => u = t
        BY <1>0, <3>1 DEF Exclusive
      <4>2. \A u \in Traders : at'[u] \notin {"load_quantity", "store_quantity"}
        BY <1>0, <3>1, <4>1 DEF OrdersTypeOK
      <4>3. book.quantity + 5 = 5 * book.volume /\ reg[t] = book.quantity
        BY <1>0, <3>1 DEF QuantityFollows, Carried
      <4>4. book'.quantity = 5 * book'.volume
        BY <3>1, <4>3
      <4> QED
        BY <4>2, <4>4 DEF QuantityFollows
    <3> QED
      BY <1>0, <3>1, <3>2, <3>3, <3>4, <3>5, <3>6 DEF OrdersTypeOK, Carried
  <2>8. CASE Orders!release(t)
    BY <1>0, <2>8, OrdersFacts
       DEF Orders!release, OrdersTypeOK, Exclusive, Carried, RoundsLeft, QuantityFollows
  <2> QED
    BY <2>1, <2>2, <2>3, <2>4, <2>5, <2>6, <2>7, <2>8 DEF Orders!updateOrder
<1> QED
  BY <1>0, <1>1, VolumeCounts DEF OrdersInv

\* The invariant says what main counts on.
LEMMA OrdersCounted == OrdersInv => Orders!UpdatesCounted
<1> SUFFICES ASSUME OrdersInv PROVE Orders!UpdatesCounted
  OBVIOUS
<1>1. flag = 0 => book.quantity = 5 * book.volume
  BY OrdersFacts DEF OrdersInv, Exclusive, QuantityFollows, Inside
<1>2. ASSUME Orders!Ended PROVE Orders!VolumeStored = Traders \X (1 .. UPDATES)
  <2>1. \A t \in Traders : round[t] = UPDATES + 1
    BY <1>2 DEF OrdersInv, RoundsLeft, Orders!Ended
  <2> QED
    BY <2>1, OrdersFacts DEF Orders!VolumeStored
<1> QED
  BY <1>1, <1>2, OrdersFacts, SameCardinality DEF OrdersInv, Orders!UpdatesCounted

-----------------------------------------------------------------------------
(* Day 32: the price ticker and update_if_higher *)

PricesTypeOK ==
  /\ ticker \in [price : Nat, volume : Nat, seq : Nat]
  /\ stop_flag \in BOOLEAN
  /\ reader \in {"poll", "seq", "payload", "price", "volume", "count", "done"}
  /\ seen \in [price : Nat, volume : Nat, seq : Nat]
  /\ last_seq \in Nat
  /\ best_price \in Nat
  /\ current \in [Prices!Callers -> Nat]
  /\ result \in [Prices!Callers -> {"load", "loop", "yes", "no"}]

\* The payload is never behind seq, and the reader never ahead of it; a field that the
\* reader has loaded behind its seq is at least as new.
BehindSeq ==
  /\ ticker.price >= ticker.seq /\ ticker.volume >= ticker.seq
  /\ seen.seq <= ticker.seq /\ last_seq <= ticker.seq
  /\ reader \in {"volume", "count"} => seen.price >= seen.seq
  /\ reader \in {"price", "count"} => seen.volume >= seen.seq
  /\ reader \in {"payload", "price", "volume", "count"} => seen.seq > last_seq

\* No caller's copy is above best_price, which is one of the candidates taken.
BestTaken ==
  /\ best_price = 0 \/ \E c \in Prices!Callers : result[c] = "yes" /\ best_price = c[1]
  /\ \A c \in Prices!Callers :
       /\ result[c] = "loop" => current[c] <= best_price
       /\ result[c] \in {"yes", "no"} => c[1] <= best_price

PricesInv == PricesTypeOK /\ BehindSeq /\ BestTaken

LEMMA CallerFacts == \A c \in Prices!Callers : c[1] \in Nat
BY PricesUsable DEF Prices!Callers, Prices!PriceAssumption

LEMMA OtherField ==
  /\ (CHOOSE other \in Prices!Payload : other # "price") = "volume"
  /\ (CHOOSE other \in Prices!Payload : other # "volume") = "price"
BY DEF Prices!Payload

LEMMA PricesInitially == Prices!Init => PricesInv
<1> SUFFICES ASSUME Prices!Init PROVE PricesInv
  OBVIOUS
<1>1. PricesTypeOK
  BY DEF Prices!Init, PricesTypeOK
<1>2. BehindSeq /\ BestTaken
  BY DEF Prices!Init, BehindSeq, BestTaken
<1> QED
  BY <1>1, <1>2 DEF PricesInv

\* Steps of the two threads: best_price and its callers are not touched.
LEMMA TickerKept ==
  ASSUME PricesInv, Prices!writer_thread \/ Prices!reader_thread
  PROVE  PricesInv'
<1>0. PricesTypeOK /\ BehindSeq /\ BestTaken
  BY DEF PricesInv
<1>1. UNCHANGED Prices!cas
  BY DEF Prices!writer_thread, Prices!reader_thread, Prices!StorePayload, Prices!StoreSeq,
         Prices!SetStop, Prices!TestStop, Prices!LoadSeq, Prices!LoadPayload, Prices!CountRead
<1>2. BestTaken'
  BY <1>0, <1>1 DEF BestTaken, Prices!cas
<1> SUFFICES (PricesTypeOK /\ BehindSeq)'
  BY <1>2 DEF PricesInv
<1> USE <1>0, <1>1 DEF Prices!cas, Prices!rd, PricesTypeOK, BehindSeq
<1>3. CASE Prices!StorePayload
  <2>1. PICK field \in Prices!Payload : ticker' = [ticker EXCEPT ![field] = @ + 1]
    BY <1>3 DEF Prices!StorePayload
  <2>2. field = "price" \/ field = "volume"
    BY DEF Prices!Payload
  <2> QED
    BY <1>3, <2>1, <2>2 DEF Prices!StorePayload
<1>4. CASE Prices!StoreSeq
  BY <1>4 DEF Prices!StoreSeq, Prices!Payload
<1>5. CASE Prices!SetStop
  BY <1>5 DEF Prices!SetStop
<1>6. CASE Prices!TestStop
  BY <1>6 DEF Prices!TestStop
<1>7. CASE Prices!LoadSeq
  BY <1>7 DEF Prices!LoadSeq
<1>8. CASE Prices!LoadPayload
  <2>1. CASE reader = "payload"
    <3>1. PICK field \in Prices!Payload :
             /\ seen' = [seen EXCEPT ![field] = ticker[field]]
             /\ reader' = CHOOSE other \in Prices!Payload : other # field
      BY <1>8, <2>1 DEF Prices!LoadPayload, Prices!Payload
    <3>2. \/ field = "price" /\ reader' = "volume"
          \/ field = "volume" /\ reader' = "price"
      BY <3>1, OtherField DEF Prices!Payload
    <3>3. UNCHANGED <<ticker, stop_flag, last_seq>>
      BY <1>8 DEF Prices!LoadPayload
    <3>4. CASE field = "price"
      <4>1. /\ seen' = [seen EXCEPT !.price = ticker.price] /\ reader' = "volume"
            /\ ticker.price \in Nat
        BY <3>1, <3>2, <3>4
      <4> QED
        BY <2>1, <3>3, <4>1
    <3>5. CASE field = "volume"
      <4>1. /\ seen' = [seen EXCEPT !.volume = ticker.volume] /\ reader' = "price"
            /\ ticker.volume \in Nat
        BY <3>1, <3>2, <3>5
      <4> QED
        BY <2>1, <3>3, <4>1
    <3> QED
      BY <3>2, <3>4, <3>5
  <2>2. CASE reader \in {"price", "volume"}
    <3>1. seen' = [seen EXCEPT ![reader] = ticker[reader]] /\ reader' = "count"
      BY <1>8, <2>2 DEF Prices!LoadPayload
    <3> QED
      BY <1>8, <2>2, <3>1 DEF Prices!LoadPayload
  <2> QED
    BY <1>8, <2>1, <2>2 DEF Prices!LoadPayload, Prices!Payload
<1>9. CASE Prices!CountRead
  BY <1>9 DEF Prices!CountRead
<1> QED
  BY <1>3, <1>4, <1>5, <1>6, <1>7, <1>8, <1>9 DEF Prices!writer_thread, Prices!reader_thread

\* Steps of a caller: a compare-and-swap succeeds only when best_price is still the
\* value that the candidate is above.
LEMMA CallersKept ==
  ASSUME PricesInv, NEW c \in Prices!Callers, Prices!update_if_higher(c)
  PROVE  PricesInv'
<1>0. PricesTypeOK /\ BehindSeq /\ BestTaken /\ c[1] \in Nat
  BY CallerFacts DEF PricesInv
<1>1. UNCHANGED <<ticker, stop_flag, Prices!rd>>
  BY DEF Prices!update_if_higher, Prices!LoadCurrent, Prices!NotHigher, Prices!CasSucceeds,
         Prices!CasFails
<1>2. BehindSeq'
  BY <1>0, <1>1 DEF BehindSeq, Prices!rd
<1>3. PricesTypeOK'
  BY <1>0, <1>1 DEF PricesTypeOK, Prices!rd, Prices!update_if_higher, Prices!LoadCurrent,
                    Prices!NotHigher, Prices!CasSucceeds, Prices!CasFails
<1>4. BestTaken'
  <2> USE <1>0, CallerFacts DEF PricesTypeOK, BestTaken
  <2>1. CASE Prices!LoadCurrent(c)
    BY <2>1 DEF Prices!LoadCurrent
  <2>2. CASE Prices!NotHigher(c)
    BY <2>2 DEF Prices!NotHigher
  <2>3. CASE Prices!CasSucceeds(c)
    BY <2>3 DEF Prices!CasSucceeds
  <2>4. CASE Prices!CasFails(c)
    BY <2>4 DEF Prices!CasFails
  <2> QED
    BY <2>1, <2>2, <2>3, <2>4 DEF Prices!update_if_higher
<1> QED
  BY <1>2, <1>3, <1>4 DEF PricesInv

LEMMA PricesRight == PricesInv => Prices!NeverStale /\ Prices!BestIsHighest
<1> SUFFICES ASSUME PricesInv PROVE Prices!NeverStale /\ Prices!BestIsHighest
  OBVIOUS
<1>1. Prices!NeverStale
  BY DEF PricesInv, PricesTypeOK, BehindSeq, Prices!NeverStale
<1> DEFINE told(r) == {c[1] : c \in {x \in Prices!Callers : result[x] = r}}
<1>2. \A p \in told("no") : p <= best_price
  BY DEF PricesInv, BestTaken
<1>3. /\ best_price \in {0} \cup told("yes")
      /\ \A y \in {0} \cup told("yes") : y \in Nat /\ best_price >= y
  BY CallerFacts DEF PricesInv, PricesTypeOK, BestTaken
<1>4. best_price = Prices!Max({0} \cup told("yes"))
  <2> DEFINE T == {0} \cup told("yes")
  <2> HIDE DEF T, told
  <2>1. best_price \in T /\ \A y \in T : y \in Nat /\ best_price >= y
    BY <1>3 DEF T
  <2>2. \A x \in T : (\A y \in T : x >= y) => x = best_price
    BY <2>1
  <2>3. Prices!Max(T) = CHOOSE x \in T : \A y \in T : x >= y
    BY DEF Prices!Max
  <2> QED
    BY <2>1, <2>2, <2>3 DEF T
<1> QED
  BY <1>1, <1>2, <1>4 DEF Prices!BestIsHighest

-----------------------------------------------------------------------------
(* Together: one program runs, and the others' variables stay put. *)

LEMMA OrdersStutter == OrdersInv /\ UNCHANGED ovars => OrdersInv'
<1> SUFFICES ASSUME OrdersInv, UNCHANGED ovars PROVE OrdersInv'
  OBVIOUS
<1>1. Orders!VolumeStored' = Orders!VolumeStored
  BY DEF ovars, Orders!VolumeStored
<1>2. (OrdersTypeOK /\ Exclusive /\ Carried /\ RoundsLeft /\ QuantityFollows)'
  BY DEF ovars, OrdersInv, OrdersTypeOK, Exclusive, Carried, RoundsLeft, QuantityFollows
<1> QED
  BY <1>1, <1>2 DEF ovars, OrdersInv

\* For any traders, any number of updates, and any candidates.
THEOREM SharedStateInvariance == MCSpec => [](OrdersInv /\ PricesInv)
<1>1. MCInit => OrdersInv /\ PricesInv
  BY OrdersInitially, PricesInitially DEF MCInit
<1>2. (OrdersInv /\ PricesInv) /\ [MCNext]_allvars => (OrdersInv /\ PricesInv)'
  <2> SUFFICES ASSUME OrdersInv, PricesInv, [MCNext]_allvars PROVE OrdersInv' /\ PricesInv'
    OBVIOUS
  <2>1. OrdersInv'
    <3>1. UNCHANGED ovars \/ Orders!Next
      BY DEF MCNext, allvars, Deep, OnRing, Looking, Trading, Ticking, Runs
    <3> QED
      BY <3>1, OrdersStutter, OrdersKept DEF Orders!Next
  <2>2. PricesInv'
    <3>1. UNCHANGED pvars \/ Prices!Next
      BY DEF MCNext, allvars, Deep, OnRing, Looking, Trading, Ticking, Runs
    <3>2. CASE UNCHANGED pvars
      BY <3>2 DEF pvars, PricesInv, PricesTypeOK, BehindSeq, BestTaken
    <3> QED
      BY <3>1, <3>2, TickerKept, CallersKept DEF Prices!Next
  <2> QED
    BY <2>1, <2>2
<1> QED
  BY <1>1, <1>2, PTL DEF MCSpec

\* No update of the book is lost or seen by half, the reader's loads are never older than
\* the seq it read, and no raise of best_price is overwritten by a lower one.
THEOREM SharedStateCorrect == MCSpec => []SharedStateWhole
<1>1. OrdersInv /\ PricesInv => SharedStateWhole
  BY OrdersCounted, PricesRight DEF SharedStateWhole
<1> QED
  BY <1>1, SharedStateInvariance, PTL
-----------------------------------------------------------------------------
(* Day 40, C++: the ring of three workers *)

Lines == {"lock_outer", "lock_inner", "got_both", "unlock_inner", "unlock_outer", "catch",
          "return", "done"}

RingNodes == Ring!Workers \cup Ring!Natives

RingTypeOK ==
  /\ adj_ \in [RingNodes -> SUBSET RingNodes]
  /\ line \in [Ring!Workers -> Lines]
  /\ stage \in [Ring!Workers -> {"call", "native", "graph"}]
  /\ \A w \in Ring!Workers :
       /\ stage[w] = "native" => Ring!InLock(w)
       /\ stage[w] = "graph" => Ring!InLock(w) \/ Ring!InUnlock(w)
  /\ m1_acquired \in BOOLEAN
  /\ printed \subseteq Ring!Workers

\* Worker w is a holder of m as far as the graph knows.
Holding(w, m) ==
  \/ m = Ring!outer(w) /\ line[w] \notin {"lock_outer", "return", "done"}
  \/ m = Ring!inner(w) /\ line[w] \in {"got_both", "unlock_inner"}

\* The graph is what the workers are doing: one edge for a request under way, and the
\* holders of every mutex.
GraphIs ==
  /\ \A w \in Ring!Workers :
       adj_[w] = IF Ring!InLock(w) /\ stage[w] # "call" THEN {Ring!Locks[w]} ELSE {}
  /\ \A m \in Ring!Natives : adj_[m] = {w \in Ring!Workers : Holding(w, m)}

RingInv ==
  /\ RingTypeOK /\ GraphIs
  /\ line[1] = "lock_inner" => m1_acquired
  /\ \A w \in printed : line[w] \in {"catch", "return", "done"}

LEMMA RingFacts ==
  /\ Ring!Workers = {1, 2, 3} /\ Ring!Natives = {101, 102, 103}
  /\ \A w \in Ring!Workers :
       /\ Ring!outer(w) \in Ring!Natives /\ Ring!inner(w) \in Ring!Natives
       /\ Ring!outer(w) # Ring!inner(w) /\ w \notin Ring!Natives
       /\ \A v \in Ring!Workers : Ring!outer(v) = Ring!outer(w) => v = w
  /\ Ring!inner(1) = Ring!outer(2) /\ Ring!inner(2) = Ring!outer(3)
  /\ Ring!inner(3) = Ring!outer(1)
BY DEF Ring!Workers, Ring!Natives, Ring!outer, Ring!inner

LEMMA LocksIs ==
  \A w \in Ring!Workers :
    /\ Ring!Locks[w] = (IF line[w] = "lock_inner" THEN Ring!inner(w) ELSE Ring!outer(w))
    /\ Ring!Unlocks[w] = (IF line[w] = "unlock_inner" THEN Ring!inner(w) ELSE Ring!outer(w))
    /\ Ring!Locks[w] \in Ring!Natives /\ Ring!Unlocks[w] \in Ring!Natives
BY RingFacts DEF Ring!Locks, Ring!Unlocks

\* A request that closes a cycle is the third of three, each for the outer mutex of the
\* next worker of the ring.
LEMMA RefusedAtInner ==
  ASSUME RingInv, NEW w \in Ring!Workers, Ring!InLock(w),
         Ring!detect_cycle(Ring!Requesting(w))
  PROVE  \A u \in Ring!Workers : line[u] = "lock_inner"
<1> DEFINE g == Ring!Requesting(w)
<1>0. RingTypeOK /\ GraphIs
  BY DEF RingInv
<1>1. PICK S \in SUBSET RingNodes : S # {} /\ \A a \in S : g[a] \cap S # {}
  BY DEF Ring!detect_cycle, RingNodes
<1>2. ASSUME NEW u \in Ring!Workers
      PROVE  g[u] \subseteq {Ring!Locks[u]} /\ (g[u] # {} => Ring!InLock(u))
  BY <1>0 DEF Ring!Requesting, RingTypeOK, GraphIs, RingNodes
<1>3. ASSUME NEW m \in Ring!Natives PROVE g[m] = {v \in Ring!Workers : Holding(v, m)}
  BY <1>0, RingFacts DEF Ring!Requesting, RingTypeOK, GraphIs, RingNodes
<1> HIDE DEF g
<1>4. ASSUME NEW u \in Ring!Workers, u \in S
      PROVE  /\ line[u] = "lock_inner"
             /\ \A v \in Ring!Workers : Ring!outer(v) = Ring!inner(u) => v \in S
  <2>1. Ring!InLock(u) /\ Ring!Locks[u] \in S /\ Ring!Locks[u] \in Ring!Natives
    BY <1>1, <1>2, <1>4, LocksIs
  <2>2. PICK v \in Ring!Workers : v \in S /\ Holding(v, Ring!Locks[u])
    BY <1>1, <1>3, <2>1
  <2>3. Ring!InLock(v)
    BY <1>1, <1>2, <2>2
  <2>4. line[v] = "lock_inner" /\ Ring!outer(v) = Ring!Locks[u]
    BY <2>2, <2>3 DEF Holding, Ring!InLock
  <2>5. line[u] = "lock_inner" /\ Ring!Locks[u] = Ring!inner(u)
    BY <2>1, <2>4, LocksIs, RingFacts DEF Ring!InLock
  <2> QED
    BY <2>2, <2>4, <2>5, RingFacts
<1>5. PICK u \in Ring!Workers : u \in S
  <2>1. PICK a \in S : TRUE
    BY <1>1
  <2>2. CASE a \in Ring!Natives
    BY <1>1, <1>3, <2>2
  <2> QED
    BY <2>1, <2>2 DEF RingNodes
<1>6. 1 \in S /\ 2 \in S /\ 3 \in S
  BY <1>4, <1>5, RingFacts
<1> QED
  BY <1>4, <1>6, RingFacts

LEMMA RingInitially == Ring!Init => RingInv
<1> SUFFICES ASSUME Ring!Init PROVE RingInv
  OBVIOUS
<1>1. RingTypeOK
  BY DEF Ring!Init, RingTypeOK, RingNodes, Lines
<1>2. GraphIs
  BY RingFacts DEF Ring!Init, GraphIs, Holding, Ring!InLock
<1> QED
  BY <1>1, <1>2, RingFacts DEF Ring!Init, RingInv

\* What a step of worker w leaves alone: the others, and their places in the graph.
OthersStay(w) ==
  \A u \in Ring!Workers \ {w} : line'[u] = line[u] /\ stage'[u] = stage[u]

\* The graph after a step, from what has become of worker w in it.
LEMMA GraphMoves ==
  ASSUME RingTypeOK, GraphIs, NEW w \in Ring!Workers, OthersStay(w),
         RingTypeOK',
         \A u \in Ring!Workers \ {w} : adj_'[u] = adj_[u],
         adj_'[w] = IF Ring!InLock(w)' /\ stage'[w] # "call" THEN {Ring!Locks[w]'} ELSE {},
         \A m \in Ring!Natives :
           /\ adj_'[m] \ {w} = adj_[m] \ {w}
           /\ w \in adj_'[m] <=> Holding(w, m)'
  PROVE  GraphIs'
<1>1. ASSUME NEW u \in Ring!Workers, u # w
      PROVE  adj_'[u] = IF Ring!InLock(u)' /\ stage'[u] # "call" THEN {Ring!Locks[u]'} ELSE {}
  BY <1>1 DEF GraphIs, OthersStay, Ring!InLock, Ring!Locks
<1>2. ASSUME NEW m \in Ring!Natives PROVE adj_'[m] = {u \in Ring!Workers : Holding(u, m)'}
  <2>1. \A u \in Ring!Workers \ {w} : Holding(u, m)' <=> Holding(u, m)
    BY DEF OthersStay, Holding
  <2>2. adj_[m] = {u \in Ring!Workers : Holding(u, m)}
    BY DEF GraphIs
  <2> QED
    BY <2>1, <2>2
<1> QED
  BY <1>1, <1>2 DEF GraphIs

\* Every step of a worker.
LEMMA RingKept ==
  ASSUME RingInv, NEW w \in Ring!Workers, Ring!worker(w)
  PROVE  RingInv'
<1>0. /\ RingTypeOK /\ GraphIs
      /\ line[1] = "lock_inner" => m1_acquired
      /\ \A u \in printed : line[u] \in {"catch", "return", "done"}
  BY DEF RingInv
<1>1. ASSUME Ring!Throw(w) PROVE line[w] = "lock_inner" /\ (w = 1 => m1_acquired)
  BY <1>0, <1>1, RefusedAtInner DEF Ring!Throw
<1>2. OthersStay(w)
  BY <1>0 DEF Ring!worker, Ring!add_request, Ring!Throw, Ring!lock, Ring!acquire, Ring!unlock,
              Ring!release, Ring!Proceed, Ring!Within, Ring!Goto, OthersStay, RingTypeOK
<1>3. RingTypeOK'
  <2> USE <1>0, RingFacts, LocksIs DEF RingTypeOK, RingNodes, Ring!Within, Ring!Goto, Lines,
          Ring!InLock, Ring!InUnlock, Ring!At
  <2>1. CASE Ring!add_request(w)
    BY <2>1 DEF Ring!add_request, Ring!Requesting
  <2>2. CASE Ring!Throw(w)
    BY <1>1, <2>2 DEF Ring!Throw
  <2>3. CASE Ring!lock(w)
    BY <2>3 DEF Ring!lock
  <2>4. CASE Ring!acquire(w)
    BY <2>4 DEF Ring!acquire
  <2>5. CASE Ring!unlock(w)
    BY <2>5 DEF Ring!unlock
  <2>6. CASE Ring!release(w)
    BY <2>6 DEF Ring!release
  <2>7. CASE Ring!Proceed(w)
    BY <2>7 DEF Ring!Proceed
  <2> QED
    BY <2>1, <2>2, <2>3, <2>4, <2>5, <2>6, <2>7 DEF Ring!worker
<1>4. /\ \A u \in Ring!Workers \ {w} : adj_'[u] = adj_[u]
      /\ adj_'[w] = IF Ring!InLock(w)' /\ stage'[w] # "call" THEN {Ring!Locks[w]'} ELSE {}
      /\ \A m \in Ring!Natives :
           /\ adj_'[m] \ {w} = adj_[m] \ {w}
           /\ w \in adj_'[m] <=> Holding(w, m)'
  <2>0. /\ \A u \in Ring!Workers : u \in RingNodes
        /\ \A m \in Ring!Natives : m \in RingNodes /\ m # w /\ (w \in adj_[m] <=> Holding(w, m))
        /\ adj_[w] = IF Ring!InLock(w) /\ stage[w] # "call" THEN {Ring!Locks[w]} ELSE {}
        /\ Ring!Locks[w]' = (IF line'[w] = "lock_inner" THEN Ring!inner(w) ELSE Ring!outer(w))
    BY <1>0, RingFacts DEF GraphIs, RingNodes, Ring!Locks
  <2> DEFINE L == Ring!Locks[w]
             U == Ring!Unlocks[w]
  <2>1. CASE Ring!add_request(w)
    <3>1. /\ Ring!InLock(w) /\ stage[w] = "call" /\ line' = line /\ stage'[w] = "native"
          /\ adj_' = [adj_ EXCEPT ![w] = @ \cup {L}]
      BY <1>0, <2>1
         DEF Ring!add_request, Ring!Requesting, Ring!Within, Ring!At, RingTypeOK
    <3>2. adj_'[w] = {L} /\ Ring!Locks[w]' = L /\ \A x \in RingNodes \ {w} : adj_'[x] = adj_[x]
      BY <1>0, <2>0, <3>1, LocksIs DEF RingTypeOK
    <3>3. \A m \in Ring!Natives : Holding(w, m)' <=> Holding(w, m)
      BY <3>1 DEF Holding
    <3> QED
      BY <2>0, <3>1, <3>2, <3>3 DEF Ring!InLock
  <2>2. CASE Ring!Throw(w)
    <3>1. /\ line[w] = "lock_inner" /\ stage[w] = "call" /\ line'[w] = "catch" /\ adj_' = adj_
      BY <1>0, <1>1, <2>2 DEF Ring!Throw, Ring!Goto, Ring!At, RingTypeOK
    <3> QED
      BY <2>0, <3>1 DEF Ring!InLock, Holding
  <2>3. CASE Ring!lock(w)
    <3>1. /\ Ring!InLock(w) /\ stage[w] = "native" /\ line' = line /\ stage'[w] = "graph"
          /\ adj_' = adj_
      BY <1>0, <2>3 DEF Ring!lock, Ring!Within, Ring!At, RingTypeOK
    <3>2. /\ Ring!Locks[w]' = L
          /\ \A m \in Ring!Natives : Holding(w, m)' <=> Holding(w, m)
      BY <2>0, <3>1, LocksIs DEF Holding
    <3> QED
      BY <2>0, <3>1, <3>2 DEF Ring!InLock
  <2>4. CASE Ring!acquire(w)
    <3>1. /\ Ring!InLock(w) /\ stage[w] = "graph"
          /\ line'[w] = (IF line[w] = "lock_outer" THEN "lock_inner" ELSE "got_both")
          /\ stage'[w] = "call"
          /\ adj_' = [adj_ EXCEPT ![w] = @ \ {L}, ![L] = @ \cup {w}]
      BY <1>0, <2>4 DEF Ring!acquire, Ring!Goto, Ring!At, RingTypeOK
    <3>2. /\ adj_'[w] = {} /\ adj_'[L] = adj_[L] \cup {w}
          /\ \A x \in RingNodes \ {w, L} : adj_'[x] = adj_[x]
      BY <1>0, <2>0, <3>1, LocksIs DEF RingTypeOK
    <3>3. \A m \in Ring!Natives : Holding(w, m)' <=> Holding(w, m) \/ m = L
      BY <3>1, LocksIs, RingFacts DEF Holding, Ring!InLock
    <3>4. L \in Ring!Natives /\ L # w
      BY <2>0, LocksIs
    <3>5. \A u \in Ring!Workers \ {w} : adj_'[u] = adj_[u]
      BY <2>0, <3>2, <3>4, RingFacts
    <3>6. \A m \in Ring!Natives :
            adj_'[m] = (IF m = L THEN adj_[m] \cup {w} ELSE adj_[m])
      BY <2>0, <3>2
    <3> HIDE DEF L
    <3>7. \A m \in Ring!Natives :
            /\ adj_'[m] \ {w} = adj_[m] \ {w}
            /\ w \in adj_'[m] <=> Holding(w, m)'
      BY <2>0, <3>3, <3>6
    <3> QED
      BY <3>1, <3>2, <3>5, <3>7
  <2>5. CASE Ring!unlock(w)
    <3>1. Ring!InUnlock(w) /\ line' = line /\ adj_' = adj_
      BY <2>5 DEF Ring!unlock, Ring!Within
    <3>2. \A m \in Ring!Natives : Holding(w, m)' <=> Holding(w, m)
      BY <3>1 DEF Holding
    <3> QED
      BY <2>0, <3>1, <3>2 DEF Ring!InLock, Ring!InUnlock
  <2>6. CASE Ring!release(w)
    <3>1. /\ Ring!InUnlock(w)
          /\ line'[w] = (IF line[w] = "unlock_inner" THEN "unlock_outer" ELSE "return")
          /\ adj_' = [adj_ EXCEPT ![U] = @ \ {w}]
      BY <1>0, <2>6 DEF Ring!release, Ring!Goto, RingTypeOK
    <3>2. adj_'[U] = adj_[U] \ {w} /\ \A x \in RingNodes \ {U} : adj_'[x] = adj_[x]
      BY <1>0, <2>0, <3>1, LocksIs DEF RingTypeOK
    <3>3. \A m \in Ring!Natives : Holding(w, m)' <=> Holding(w, m) /\ m # U
      BY <3>1, LocksIs, RingFacts DEF Holding, Ring!InUnlock
    <3> QED
      BY <2>0, <3>1, <3>2, <3>3, LocksIs, RingFacts DEF Ring!InLock, Ring!InUnlock
  <2>7. CASE Ring!Proceed(w)
    <3>1. /\ adj_' = adj_
          /\ \/ line[w] = "got_both" /\ line'[w] = "unlock_inner"
             \/ line[w] = "return" /\ line'[w] = "done"
      BY <1>0, <2>7 DEF Ring!Proceed, Ring!Goto, RingTypeOK
    <3> QED
      BY <2>0, <3>1 DEF Ring!InLock, Holding
  <2> QED
    BY <2>1, <2>2, <2>3, <2>4, <2>5, <2>6, <2>7 DEF Ring!worker
<1>5. GraphIs'
  BY <1>0, <1>2, <1>3, <1>4, GraphMoves
<1>6. line'[1] = "lock_inner" => m1_acquired'
  <2>1. m1_acquired => m1_acquired'
    BY DEF Ring!worker, Ring!add_request, Ring!Throw, Ring!lock, Ring!acquire, Ring!unlock,
           Ring!release, Ring!Proceed
  <2>4. w # 1 => line'[1] = line[1]
    BY <1>2, RingFacts DEF OthersStay
  <2>2. CASE w = 1 /\ Ring!acquire(w)
    BY <2>2 DEF Ring!acquire
  <2>3. CASE w = 1 /\ ~Ring!acquire(w)
    <3>1. line'[w] = "lock_inner" => line[w] = "lock_inner"
      BY <1>0, <2>3
         DEF Ring!worker, Ring!add_request, Ring!Throw, Ring!lock, Ring!unlock,
             Ring!release, Ring!Proceed, Ring!Within, Ring!Goto, RingTypeOK
    <3> QED
      BY <1>0, <2>1, <2>3, <3>1
  <2> QED
    BY <1>0, <2>1, <2>2, <2>3, <2>4
<1>7. \A u \in printed' : line'[u] \in {"catch", "return", "done"}
  BY <1>0, <1>2
     DEF Ring!worker, Ring!add_request, Ring!Throw, Ring!lock, Ring!acquire, Ring!unlock,
         Ring!release, Ring!Proceed, Ring!Within, Ring!Goto, RingTypeOK, OthersStay,
         Ring!InLock, Ring!InUnlock
<1> QED
  BY <1>3, <1>5, <1>6, <1>7 DEF RingInv

-----------------------------------------------------------------------------
(* Each step of the ring is one of the wrapper's. *)

\* Where the wrapper sees a worker.
PlaceIs(w, place) ==
  \/ Ring!InLock(w) /\ stage[w] = "call" /\ place = "lock"
  \/ Ring!InLock(w) /\ stage[w] = "native" /\ place = "native"
  \/ Ring!InLock(w) /\ stage[w] = "graph" /\ place = "acquired"
  \/ line[w] = "got_both" /\ place = "lock"
  \/ Ring!InUnlock(w) /\ stage[w] = "call" /\ place = "unlock"
  \/ Ring!InUnlock(w) /\ stage[w] = "graph" /\ place = "released"
  \/ line[w] = "return" /\ place = "unlock"
  \/ line[w] = "done" /\ place = "done"

LEMMA PlaceNow ==
  ASSUME NEW w \in Ring!Workers, NEW place, PlaceIs(w, place)
  PROVE  Ring!Place[w] = place
BY DEF PlaceIs, Ring!Place, Ring!InLock, Ring!InUnlock, Ring!At

LEMMA PlaceMoves ==
  ASSUME NEW w \in Ring!Workers, OthersStay(w), NEW place, PlaceIs(w, place)'
  PROVE  Ring!Place' = [Ring!Place EXCEPT ![w] = place]
<1>1. Ring!Place'[w] = place
  BY DEF PlaceIs, Ring!Place, Ring!InLock, Ring!InUnlock, Ring!At
<1>2. \A u \in Ring!Workers \ {w} : Ring!Place'[u] = Ring!Place[u]
  BY DEF OthersStay, Ring!Place, Ring!InLock, Ring!InUnlock, Ring!At
<1>3. /\ Ring!Place = [u \in Ring!Workers |-> Ring!Place[u]]
      /\ Ring!Place' = [u \in Ring!Workers |-> Ring!Place'[u]]
  BY DEF Ring!Place
<1> HIDE DEF Ring!Place
<1> QED
  BY <1>1, <1>2, <1>3

LEMMA HeldIs ==
  \A w \in Ring!Workers :
    /\ line[w] \in {"lock_outer", "return", "done"} => Ring!Held[w] = 0
    /\ line[w] \in {"lock_inner", "unlock_outer", "catch"} => Ring!Held[w] = 1
    /\ line[w] \in {"got_both", "unlock_inner"} => Ring!Held[w] = 2
BY DEF Ring!Held, Ring!DepthAt

LEMMA HeldMoves ==
  ASSUME NEW w \in Ring!Workers, OthersStay(w)
  PROVE  /\ Ring!Held' = [Ring!Held EXCEPT ![w] = Ring!DepthAt[line'[w]]]
         /\ line'[w] \in {"lock_outer", "return", "done"} => Ring!DepthAt[line'[w]] = 0
         /\ line'[w] \in {"lock_inner", "unlock_outer", "catch"} => Ring!DepthAt[line'[w]] = 1
         /\ line'[w] \in {"got_both", "unlock_inner"} => Ring!DepthAt[line'[w]] = 2
         /\ Ring!DepthAt[line'[w]] = Ring!Held[w] => Ring!Held' = Ring!Held
         /\ line'[w] = line[w] => Ring!Held' = Ring!Held
<1>1. \A u \in Ring!Workers \ {w} : Ring!Held'[u] = Ring!Held[u]
  BY DEF OthersStay, Ring!Held
<1>2. Ring!Held'[w] = Ring!DepthAt[line'[w]] /\ Ring!Held[w] = Ring!DepthAt[line[w]]
  BY DEF Ring!Held
<1>3. /\ Ring!Held = [u \in Ring!Workers |-> Ring!Held[u]]
      /\ Ring!Held' = [u \in Ring!Workers |-> Ring!Held'[u]]
  BY DEF Ring!Held
<1>4. /\ line'[w] \in {"lock_outer", "return", "done"} => Ring!DepthAt[line'[w]] = 0
      /\ line'[w] \in {"lock_inner", "unlock_outer", "catch"} => Ring!DepthAt[line'[w]] = 1
      /\ line'[w] \in {"got_both", "unlock_inner"} => Ring!DepthAt[line'[w]] = 2
  BY DEF Ring!DepthAt
<1> QED
  BY <1>1, <1>2, <1>3, <1>4

LEMMA NestedIs ==
  \A w \in Ring!Workers :
    /\ Len(Ring!Nested[w]) = 2
    /\ Ring!Nested[w][1] = Ring!outer(w) /\ Ring!Nested[w][2] = Ring!inner(w)
BY DEF Ring!Nested

\* The wrapper's edges are those of the map.
LEMMA EdgesAre ==
  ASSUME RingTypeOK
  PROVE  /\ Ring!Edges \subseteq RingNodes \X RingNodes
         /\ \A a, b \in RingNodes : <<a, b>> \in Ring!Edges <=> b \in adj_[a]
<1>1. DOMAIN adj_ = RingNodes
  BY DEF RingTypeOK
<1> QED
  BY <1>1 DEF Ring!Edges

LEMMA EdgesNext ==
  ASSUME RingTypeOK'
  PROVE  /\ Ring!Edges' \subseteq RingNodes \X RingNodes
         /\ \A a, b \in RingNodes : <<a, b>> \in Ring!Edges' <=> b \in adj_'[a]
<1>1. DOMAIN adj_' = RingNodes
  BY DEF RingTypeOK
<1> QED
  BY <1>1 DEF Ring!Edges

LEMMA RingInitMaps == Ring!Init => Ring!Detector!Init
<1> SUFFICES ASSUME Ring!Init PROVE Ring!Detector!Init
  OBVIOUS
<1>1. RingTypeOK
  BY RingInitially DEF RingInv
<1>2. Ring!Edges = {}
  BY <1>1, EdgesAre DEF Ring!Init, RingNodes
<1>3. Ring!Place = [w \in Ring!Workers |-> "lock"]
  BY DEF Ring!Init, Ring!Place, Ring!InLock, Ring!At
<1>4. Ring!Held = [w \in Ring!Workers |-> 0]
  BY DEF Ring!Init, Ring!Held, Ring!DepthAt
<1> QED
  BY <1>2, <1>3, <1>4 DEF Ring!Init, Ring!Detector!Init

\* The search of the C++ program and that of the wrapper see the same cycles.
LEMMA SameCycles ==
  ASSUME RingTypeOK, NEW w \in Ring!Workers
  PROVE  /\ \A a, b \in RingNodes :
              b \in Ring!Requesting(w)[a] <=>
                <<a, b>> \in Ring!Edges \cup {<<w, Ring!Locks[w]>>}
         /\ Ring!detect_cycle(Ring!Requesting(w)) <=>
              Ring!Detector!HasCycle(Ring!Edges \cup {<<w, Ring!Locks[w]>>})
<1> DEFINE g == Ring!Requesting(w)
           e == Ring!Edges \cup {<<w, Ring!Locks[w]>>}
<1>1. \A a, b \in RingNodes : b \in g[a] <=> <<a, b>> \in e
  <2>1. \A a \in RingNodes : g[a] = IF a = w THEN adj_[w] \cup {Ring!Locks[w]} ELSE adj_[a]
    BY DEF Ring!Requesting, RingTypeOK, RingNodes
  <2>2. \A a, b \in RingNodes :
          <<a, b>> \in e <=> b \in adj_[a] \/ (a = w /\ b = Ring!Locks[w])
    BY EdgesAre
  <2> HIDE DEF g, e
  <2> QED
    BY <2>1, <2>2
<1> HIDE DEF g, e
<1>2. \A S \in SUBSET RingNodes :
        (\A a \in S : g[a] \cap S # {}) <=> (\A a \in S : \E b \in S : <<a, b>> \in e)
  BY <1>1
<1>3. Ring!detect_cycle(g) <=> Ring!Detector!HasCycle(e)
  BY <1>2 DEF Ring!detect_cycle, Ring!Detector!HasCycle, RingNodes
<1> QED
  BY <1>1, <1>3 DEF g, e

LEMMA WantedIs ==
  ASSUME NEW w \in Ring!Workers
  PROVE  /\ Ring!InLock(w) => /\ Ring!Detector!Wanted(w) = Ring!Locks[w]
                              /\ Ring!Held[w] < Len(Ring!Nested[w])
         /\ Ring!InUnlock(w) => /\ Ring!Detector!Last(w) = Ring!Unlocks[w]
                                /\ Ring!Held[w] > 0
<1>1. CASE Ring!InLock(w)
  BY <1>1, HeldIs, NestedIs, LocksIs DEF Ring!InLock, Ring!InUnlock, Ring!Detector!Wanted
<1>2. CASE Ring!InUnlock(w)
  BY <1>2, HeldIs, NestedIs, LocksIs DEF Ring!InLock, Ring!InUnlock, Ring!Detector!Last
<1> QED
  BY <1>1, <1>2

\* Every step of a worker is a step of the wrapper.
LEMMA RingStepMaps ==
  ASSUME RingInv, RingInv', NEW w \in Ring!Workers, Ring!worker(w)
  PROVE  Ring!Detector!Work(w)
<1> DEFINE L == Ring!Locks[w]
           U == Ring!Unlocks[w]
<1>0. /\ RingTypeOK /\ GraphIs /\ RingTypeOK'
      /\ line[w] = "lock_inner" /\ w = 1 => m1_acquired
  BY DEF RingInv
<1>1. OthersStay(w)
  BY <1>0 DEF Ring!worker, Ring!add_request, Ring!Throw, Ring!lock, Ring!acquire, Ring!unlock,
              Ring!release, Ring!Proceed, Ring!Within, Ring!Goto, OthersStay, RingTypeOK
<1>2. L \in RingNodes /\ U \in RingNodes /\ w \in RingNodes /\ L # w /\ U # w
  BY LocksIs, RingFacts DEF RingNodes
<1>3. adj_' = adj_ => Ring!Edges' = Ring!Edges
  BY DEF Ring!Edges
<1>4. CASE Ring!add_request(w)
  <2>1. /\ Ring!InLock(w) /\ stage[w] = "call" /\ line' = line /\ stage'[w] = "native"
        /\ ~Ring!detect_cycle(Ring!Requesting(w)) /\ adj_' = Ring!Requesting(w)
        /\ UNCHANGED <<native_mutex, printed>>
    BY <1>0, <1>4 DEF Ring!add_request, Ring!Within, Ring!At, RingTypeOK
  <2>2. Ring!Edges' = Ring!Edges \cup {<<w, L>>}
    <3>1. /\ Ring!Edges' \subseteq RingNodes \X RingNodes
          /\ \A a, b \in RingNodes : <<a, b>> \in Ring!Edges' <=> b \in Ring!Requesting(w)[a]
      BY <1>0, <2>1, EdgesNext
    <3>2. \A a, b \in RingNodes :
            <<a, b>> \in Ring!Edges \cup {<<w, L>>} <=> b \in Ring!Requesting(w)[a]
      BY <1>0, SameCycles
    <3>3. Ring!Edges \subseteq RingNodes \X RingNodes
      BY <1>0, EdgesAre
    <3> HIDE DEF L
    <3>4. Ring!Edges \cup {<<w, L>>} \subseteq RingNodes \X RingNodes
      BY <1>2, <3>3
    <3> QED
      BY <3>1, <3>2, <3>4
  <2>3. Ring!Place[w] = "lock"
    BY <2>1, PlaceNow DEF PlaceIs
  <2>4. Ring!Place' = [Ring!Place EXCEPT ![w] = "native"]
    BY <1>1, <2>1, PlaceMoves DEF PlaceIs, Ring!InLock
  <2>5. Ring!Held' = Ring!Held
    BY <1>1, <2>1, HeldMoves
  <2>6. Ring!Detector!Request(w)
    BY <1>0, <2>1, <2>2, <2>3, <2>4, <2>5, WantedIs, SameCycles
       DEF Ring!Detector!Request, Ring!Detector!Goto
  <2> QED
    BY <2>6 DEF Ring!Detector!Work
<1>5. CASE Ring!Throw(w)
  <2>1. line[w] = "lock_inner"
    BY <1>5, RefusedAtInner DEF Ring!Throw
  <2>2. /\ Ring!InLock(w) /\ stage[w] = "call" /\ line'[w] = "catch" /\ stage'[w] = "call"
        /\ Ring!detect_cycle(Ring!Requesting(w)) /\ printed' = printed \cup {w}
        /\ UNCHANGED <<native_mutex, adj_>>
    BY <1>0, <1>5, <2>1 DEF Ring!Throw, Ring!Goto, Ring!At, RingTypeOK
  <2>3. Ring!Place[w] = "lock"
    BY <2>2, PlaceNow DEF PlaceIs
  <2>4. Ring!Place' = [Ring!Place EXCEPT ![w] = "unlock"]
    BY <1>1, <2>2, PlaceMoves DEF PlaceIs, Ring!InUnlock
  <2>5. Ring!Held' = Ring!Held
    BY <1>1, <2>1, <2>2, HeldMoves, HeldIs
  <2>6. Ring!Detector!Refuse(w)
    BY <1>0, <1>3, <2>2, <2>3, <2>4, <2>5, WantedIs, SameCycles
       DEF Ring!Detector!Refuse, Ring!Detector!Goto
  <2> QED
    BY <2>6 DEF Ring!Detector!Work
<1>6. CASE Ring!lock(w)
  <2>1. /\ Ring!InLock(w) /\ stage[w] = "native" /\ line' = line /\ stage'[w] = "graph"
        /\ native_mutex[L] = None
        /\ native_mutex' = [native_mutex EXCEPT ![L] = w]
        /\ UNCHANGED <<adj_, printed>>
    BY <1>0, <1>6 DEF Ring!lock, Ring!Within, Ring!At, RingTypeOK
  <2>2. Ring!Place[w] = "native"
    BY <2>1, PlaceNow DEF PlaceIs
  <2>3. Ring!Place' = [Ring!Place EXCEPT ![w] = "acquired"]
    BY <1>1, <2>1, PlaceMoves DEF PlaceIs, Ring!InLock
  <2>4. Ring!Held' = Ring!Held
    BY <1>1, <2>1, HeldMoves
  <2>5. Ring!Detector!LockNative(w)
    BY <1>3, <2>1, <2>2, <2>3, <2>4, WantedIs DEF Ring!Detector!LockNative, Ring!Detector!Goto
  <2> QED
    BY <2>5 DEF Ring!Detector!Work
<1>7. CASE Ring!acquire(w)
  <2>1. /\ Ring!InLock(w) /\ stage[w] = "graph"
        /\ line'[w] = (IF line[w] = "lock_outer" THEN "lock_inner" ELSE "got_both")
        /\ stage'[w] = "call"
        /\ adj_' = [adj_ EXCEPT ![w] = @ \ {L}, ![L] = @ \cup {w}]
        /\ UNCHANGED <<native_mutex, printed>>
    BY <1>0, <1>7 DEF Ring!acquire, Ring!Goto, Ring!At, RingTypeOK
  <2>2. Ring!Edges' = (Ring!Edges \ {<<w, L>>}) \cup {<<L, w>>}
    <3>1. \A a \in RingNodes :
            adj_'[a] = IF a = w THEN adj_[w] \ {L} ELSE IF a = L THEN adj_[L] \cup {w} ELSE adj_[a]
      BY <1>0, <1>2, <2>1 DEF RingTypeOK
    <3>2. /\ Ring!Edges' \subseteq RingNodes \X RingNodes
          /\ \A a, b \in RingNodes : <<a, b>> \in Ring!Edges' <=> b \in adj_'[a]
      BY <1>0, EdgesNext
    <3>3. /\ Ring!Edges \subseteq RingNodes \X RingNodes
          /\ \A a, b \in RingNodes : <<a, b>> \in Ring!Edges <=> b \in adj_[a]
      BY <1>0, EdgesAre
    <3> HIDE DEF L
    <3>4. \A a, b \in RingNodes :
            <<a, b>> \in Ring!Edges' <=> <<a, b>> \in (Ring!Edges \ {<<w, L>>}) \cup {<<L, w>>}
      BY <1>2, <3>1, <3>2, <3>3
    <3>5. (Ring!Edges \ {<<w, L>>}) \cup {<<L, w>>} \subseteq RingNodes \X RingNodes
      BY <1>2, <3>3
    <3> QED
      BY <3>2, <3>4, <3>5
  <2>3. Ring!Place[w] = "acquired"
    BY <2>1, PlaceNow DEF PlaceIs
  <2>4. Ring!Place' = [Ring!Place EXCEPT ![w] = "lock"]
    BY <1>1, <2>1, PlaceMoves DEF PlaceIs, Ring!InLock
  <2>5. Ring!Held' = [Ring!Held EXCEPT ![w] = @ + 1]
    BY <1>1, <2>1, HeldMoves, HeldIs DEF Ring!InLock
  <2>6. Ring!Detector!Acquired(w)
    BY <2>1, <2>2, <2>3, <2>4, <2>5, WantedIs DEF Ring!Detector!Acquired, Ring!Detector!Goto
  <2> QED
    BY <2>6 DEF Ring!Detector!Work
<1>8. CASE Ring!unlock(w)
  <2>1. /\ Ring!InUnlock(w) /\ stage[w] = "call" /\ line' = line /\ stage'[w] = "graph"
        /\ native_mutex' = [native_mutex EXCEPT ![U] = None]
        /\ UNCHANGED <<adj_, printed>>
    BY <1>0, <1>8 DEF Ring!unlock, Ring!Within, Ring!At, RingTypeOK
  <2>2. Ring!Place[w] = "unlock"
    BY <2>1, PlaceNow DEF PlaceIs
  <2>3. Ring!Place' = [Ring!Place EXCEPT ![w] = "released"]
    BY <1>1, <2>1, PlaceMoves DEF PlaceIs, Ring!InUnlock
  <2>4. Ring!Held' = Ring!Held
    BY <1>1, <2>1, HeldMoves
  <2>5. Ring!Detector!UnlockNative(w)
    BY <1>3, <2>1, <2>2, <2>3, <2>4, WantedIs DEF Ring!Detector!UnlockNative, Ring!Detector!Goto
  <2> QED
    BY <2>5 DEF Ring!Detector!Work
<1>9. CASE Ring!release(w)
  <2>1. /\ Ring!InUnlock(w) /\ stage[w] = "graph" /\ stage'[w] = "call"
        /\ line'[w] = (IF line[w] = "unlock_inner" THEN "unlock_outer" ELSE "return")
        /\ adj_' = [adj_ EXCEPT ![U] = @ \ {w}]
        /\ UNCHANGED <<native_mutex, printed>>
    BY <1>0, <1>9 DEF Ring!release, Ring!Goto, Ring!At, RingTypeOK
  <2>2. Ring!Edges' = Ring!Edges \ {<<U, w>>}
    <3>1. \A a \in RingNodes : adj_'[a] = IF a = U THEN adj_[U] \ {w} ELSE adj_[a]
      BY <1>0, <1>2, <2>1 DEF RingTypeOK
    <3>2. /\ Ring!Edges' \subseteq RingNodes \X RingNodes
          /\ \A a, b \in RingNodes : <<a, b>> \in Ring!Edges' <=> b \in adj_'[a]
      BY <1>0, EdgesNext
    <3>3. /\ Ring!Edges \subseteq RingNodes \X RingNodes
          /\ \A a, b \in RingNodes : <<a, b>> \in Ring!Edges <=> b \in adj_[a]
      BY <1>0, EdgesAre
    <3> HIDE DEF U
    <3>4. \A a, b \in RingNodes : <<a, b>> \in Ring!Edges' <=> <<a, b>> \in Ring!Edges \ {<<U, w>>}
      BY <1>2, <3>1, <3>2, <3>3
    <3> QED
      BY <3>2, <3>3, <3>4
  <2>3. Ring!Place[w] = "released"
    BY <2>1, PlaceNow DEF PlaceIs
  <2>4. Ring!Place' = [Ring!Place EXCEPT ![w] = "unlock"]
    BY <1>1, <2>1, PlaceMoves DEF PlaceIs, Ring!InUnlock
  <2>5. Ring!Held' = [Ring!Held EXCEPT ![w] = @ - 1]
    BY <1>1, <2>1, HeldMoves, HeldIs DEF Ring!InUnlock
  <2>6. Ring!Detector!Released(w)
    BY <2>1, <2>2, <2>3, <2>4, <2>5, WantedIs DEF Ring!Detector!Released, Ring!Detector!Goto
  <2> QED
    BY <2>6 DEF Ring!Detector!Work
<1>10. CASE Ring!Proceed(w)
  <2>1. UNCHANGED <<native_mutex, adj_, printed>>
    BY <1>10 DEF Ring!Proceed
  <2>2. CASE line[w] = "got_both"
    <3>1. line'[w] = "unlock_inner" /\ stage'[w] = "call"
      BY <1>0, <1>10, <2>2 DEF Ring!Proceed, Ring!Goto, RingTypeOK
    <3>2. Ring!Place[w] = "lock" /\ Ring!Place' = [Ring!Place EXCEPT ![w] = "unlock"]
      BY <1>1, <2>2, <3>1, PlaceNow, PlaceMoves DEF PlaceIs, Ring!InUnlock
    <3>3. Ring!Held' = Ring!Held /\ Ring!Held[w] = Len(Ring!Nested[w])
      BY <1>1, <2>2, <3>1, HeldMoves, HeldIs, NestedIs
    <3> QED
      BY <1>3, <2>1, <3>2, <3>3
         DEF Ring!Detector!AllTaken, Ring!Detector!Goto, Ring!Detector!Work
  <2>3. CASE line[w] = "return"
    <3>1. line'[w] = "done"
      BY <1>0, <1>10, <2>3 DEF Ring!Proceed, Ring!Goto, RingTypeOK
    <3>2. Ring!Place[w] = "unlock" /\ Ring!Place' = [Ring!Place EXCEPT ![w] = "done"]
      BY <1>1, <2>3, <3>1, PlaceNow, PlaceMoves DEF PlaceIs
    <3>3. Ring!Held' = Ring!Held /\ Ring!Held[w] = 0
      BY <1>1, <2>3, <3>1, HeldMoves, HeldIs
    <3> QED
      BY <1>3, <2>1, <3>2, <3>3
         DEF Ring!Detector!Return, Ring!Detector!Goto, Ring!Detector!Work
  <2> QED
    BY <1>10, <2>2, <2>3 DEF Ring!Proceed
<1> QED
  BY <1>4, <1>5, <1>6, <1>7, <1>8, <1>9, <1>10 DEF Ring!worker

\* The ring's invariant, along any behaviour of the model.
THEOREM RingInvariance == MCSpec => []RingInv
<1>1. MCInit => RingInv
  BY RingInitially DEF MCInit
<1>2. RingInv /\ [MCNext]_allvars => RingInv'
  <2> SUFFICES ASSUME RingInv, [MCNext]_allvars PROVE RingInv'
    OBVIOUS
  <2>1. UNCHANGED rvars \/ Ring!Next
    BY DEF MCNext, allvars, Deep, OnRing, Looking, Trading, Ticking, Runs
  <2>2. CASE UNCHANGED rvars
    BY <2>2 DEF rvars, RingInv, RingTypeOK, GraphIs, Holding, Ring!InLock, Ring!InUnlock,
                Ring!Locks
  <2> QED
    BY <2>1, <2>2, RingKept DEF Ring!Next
<1> QED
  BY <1>1, <1>2, PTL DEF MCSpec

\* DeadlockDetection.cpp implements the wrapper, and of the three workers only one that
\* asks for its second mutex is refused, and only while nobody else was.
THEOREM RingCorrect == MCSpec => RingImplementsDetection
<1>1. MCInit => Ring!Detector!Init
  BY RingInitMaps DEF MCInit
<1>2. RingInv /\ RingInv' /\ [MCNext]_allvars => [Ring!Detector!Next]_(Ring!Detector!vars)
  <2> SUFFICES ASSUME RingInv, RingInv', [MCNext]_allvars
               PROVE  [Ring!Detector!Next]_(Ring!Detector!vars)
    OBVIOUS
  <2>1. UNCHANGED rvars \/ Ring!Next
    BY DEF MCNext, allvars, Deep, OnRing, Looking, Trading, Ticking, Runs
  <2>2. CASE UNCHANGED rvars
    BY <2>2 DEF rvars, Ring!Detector!vars, Ring!Edges, Ring!Place, Ring!Held,
                Ring!InLock, Ring!InUnlock
  <2>3. CASE Ring!Next
    BY <2>3, RingStepMaps DEF Ring!Next, Ring!Detector!Next
  <2> QED
    BY <2>1, <2>2, <2>3
<1> DEFINE Alone(w) == Ring!Throw(w) => printed = {} /\ line[w] = "lock_inner"
<1>3. RingInv => \A w \in Ring!Workers : Alone(w)
  <2> SUFFICES ASSUME RingInv, NEW w \in Ring!Workers, Ring!Throw(w)
               PROVE  printed = {} /\ line[w] = "lock_inner"
    OBVIOUS
  <2>1. \A u \in Ring!Workers : line[u] = "lock_inner"
    BY RefusedAtInner DEF Ring!Throw
  <2> QED
    BY <2>1 DEF RingInv, RingTypeOK
<1>4. RingInv => [\A w \in Ring!Workers : Alone(w)]_rvars
  BY <1>3
<1>5. MCSpec => [][\A w \in Ring!Workers : Alone(w)]_rvars
  BY <1>4, RingInvariance, PTL
<1>6. MCSpec => Ring!Detector!Init /\ [][Ring!Detector!Next]_(Ring!Detector!vars)
  BY <1>1, <1>2, RingInvariance, PTL DEF MCSpec
<1> QED
  BY <1>5, <1>6 DEF RingImplementsDetection, Ring!ImplementsDetection
=============================================================================
