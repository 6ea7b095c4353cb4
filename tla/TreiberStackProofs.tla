------------------------- MODULE TreiberStackProofs -------------------------
(***************************************************************************)
(* Both stacks of Day 33.                                                  *)
(*                                                                         *)
(* In C, for any number of threads and nodes, any sweep period and any     *)
(* width of the tag, as long as hazard stores are visible at once: the     *)
(* chain of next pointers is the stack, and every allocated node has       *)
(* exactly one owner.  For stores that are delayed as well, in executions  *)
(* in which no second look at the head overtakes the store before it: the  *)
(* node that a pop looks into is never freed under it (SafeToLookInto).    *)
(*                                                                         *)
(* The argument: a node is in one place at a time (Ownership). A pop that  *)
(* found the head unchanged after publishing its hazard looks at a node    *)
(* that was then on the stack, so that whoever wants to free it pops it    *)
(* later and starts its scan of the hazard slots later still: it cannot    *)
(* get past this slot (Protection). The node being neither freed nor a     *)
(* producer's, its next pointer stays as it was read, and a CAS that finds *)
(* it at the head installs its true successor (ChainIsStack), whatever the *)
(* tag.                                                                    *)
(*                                                                         *)
(* In C++, for any number of threads, nodes and messages: the chain of     *)
(* next pointers from the head, and from every stolen head, runs through   *)
(* exactly the nodes pushed there, and every allocated node has one owner. *)
(*                                                                         *)
(* The argument: a node is in one place at a time, with the producer about *)
(* to push it, on the stack, or in one thief's hands (Owned). Only the     *)
(* producer that has a node changes its next pointer, so no chain changes  *)
(* but at its ends. The CAS of push compares the head with the node's own  *)
(* next pointer; whatever was stolen, deleted and allocated again in       *)
(* between, a head with that address is the first node of the present      *)
(* chain, and linking in front of it is right (LinkInFront).               *)
(***************************************************************************)
EXTENDS MCTreiberStack, RingArithmetic, SequenceTheorems, FiniteSetTheorems, TLAPS

\* Where a producer is, and what its locals hold there.
ProducerAt(p) ==
  /\ pc[p] \in {"malloc", "push", "push_cas", "done"}
  /\ node[p] = NULL <=> pc[p] \in {"malloc", "done"}
  /\ pc[p] \in {"push", "push_cas"} => made[p] < MSGS_PER_PRODUCER
  /\ pc[p] = "push_cas" => next[node[p]] = old[p].ptr

\* The last store of a consumer to its hazard slot, visible to others or not yet, names
\* the node it found at the head.
Published(c) ==
  IF Flushed(c) THEN hazard[c] = old[c].ptr
  ELSE pending[c][Len(pending[c])] = old[c].ptr

\* Where a consumer is, what its locals hold there, and which node its hazard names.
ConsumerAt(c) ==
  /\ pc[c] \notin {"malloc", "push", "push_cas"}
  /\ pc[c] \in {"publish", "recheck", "read", "cas"} => old[c].ptr # NULL
  /\ ~StoreBuffered => Flushed(c)
  /\ pc[c] = "recheck" => Published(c)
  /\ pc[c] \in {"read", "cas"} => Flushed(c) /\ hazard[c] = old[c].ptr
  /\ pc[c] = "cas" => node[c] = next[old[c].ptr]
  /\ pc[c] \in {"sweep_next", "sweep_scan"} => lock = c /\ cur[c] # 0
  /\ pc[c] = "sweep_scan" => cur[c] <= Len(retired) /\ node[c] = retired[cur[c]]

\* The producers still at work: what g_active_producers counts.
Working == {p \in Producers : pc[p] # "done"}

Places ==
  /\ \A p \in Producers : ProducerAt(p)
  /\ \A c \in Consumers : ConsumerAt(c)
  /\ active = Cardinality(Working)

\* The thread has a node of its own: to be pushed, or popped and not yet disposed of.
Holds(t) == pc[t] \in {"push", "push_cas", "clear", "retire", "defer"}

IsDistinct(s) == \A i, j \in 1 .. Len(s) : s[i] = s[j] => i = j

\* A live node is on the stack, on the retire list, or held by one thread.
Ownership ==
  /\ \A t \in Threads : Holds(t) =>
       node[t] \in live /\ ~InSeq(node[t], stack) /\ ~InSeq(node[t], retired)
  /\ \A t, u \in Threads : Holds(t) /\ Holds(u) /\ node[t] = node[u] => t = u
  /\ IsDistinct(stack) /\ IsDistinct(retired)
  /\ \A n \in Nodes : InSeq(n, stack) \/ InSeq(n, retired) => n \in live
  /\ \A n \in Nodes : ~(InSeq(n, stack) /\ InSeq(n, retired))
  /\ \A n \in live :
       \/ InSeq(n, stack) \/ InSeq(n, retired)
       \/ \E t \in Threads : Holds(t) /\ node[t] = n

\* The node a pop looks into after its second look at the head: allocated, not about
\* to be pushed, and not past this thread's slot in anybody's scan.
Protection ==
  \A c \in Consumers : pc[c] \in {"read", "cas"} =>
    /\ old[c].ptr \in live
    /\ \A p \in Producers : node[p] # old[c].ptr
    /\ \A d \in Consumers :
         pc[d] \in {"retire", "sweep_scan"} /\ node[d] = old[c].ptr => c \in toScan[d]

Inv == TypeOK /\ Places /\ Ownership /\ ChainIsStack /\ Protection

\* A pop looks at the head again when the others can see its hazard.
InOrder == \A c \in Consumers : PopRecheck(c) => Flushed(c)

-----------------------------------------------------------------------------
(* The members of a list after a push, a pop and a removal *)

\* A push puts its element in front and leaves the order of the others.
LEMMA ConsElements ==
  ASSUME NEW S, NEW s \in Seq(S), NEW e \in S
  PROVE  /\ <<e>> \o s \in Seq(S) /\ <<e>> \o s # <<>>
         /\ Len(<<e>> \o s) = Len(s) + 1
         /\ (<<e>> \o s)[1] = e
         /\ \A i \in 1 .. Len(s) : (<<e>> \o s)[i + 1] = s[i]
<1>1. <<e>> \in Seq(S) /\ Len(<<e>>) = 1 /\ <<e>>[1] = e
  OBVIOUS
<1>2. Len(s) \in Nat
  BY LenProperties
<1> QED BY <1>1, <1>2, ConcatProperties, EmptySeq, SMTT(30)

LEMMA ConsMembers ==
  ASSUME NEW S, NEW s \in Seq(S), NEW e \in S
  PROVE  /\ \A n : InSeq(n, <<e>> \o s) <=> n = e \/ InSeq(n, s)
         /\ IsDistinct(s) /\ ~InSeq(e, s) => IsDistinct(<<e>> \o s)
<1> DEFINE t == <<e>> \o s
<1>1. /\ Len(s) \in Nat /\ DOMAIN s = 1 .. Len(s)
      /\ t \in Seq(S) /\ Len(t) = Len(s) + 1 /\ DOMAIN t = 1 .. Len(s) + 1
      /\ t[1] = e /\ \A i \in 1 .. Len(s) : t[i + 1] = s[i]
  BY ConsElements, LenProperties
<1> HIDE DEF t
<1>2. \A i \in 1 .. Len(t) : (i = 1 /\ t[i] = e) \/ (i - 1 \in 1 .. Len(s) /\ t[i] = s[i - 1])
  BY <1>1
<1>3. ASSUME NEW n PROVE InSeq(n, t) <=> n = e \/ InSeq(n, s)
  <2>1. ASSUME InSeq(n, t) PROVE n = e \/ InSeq(n, s)
    BY <2>1, <1>1, <1>2 DEF InSeq
  <2>2. ASSUME n = e PROVE InSeq(n, t)
    BY <2>2, <1>1 DEF InSeq
  <2>3. ASSUME InSeq(n, s) PROVE InSeq(n, t)
    <3>1. PICK i \in 1 .. Len(s) : s[i] = n
      BY <2>3, <1>1 DEF InSeq
    <3>2. i + 1 \in DOMAIN t /\ t[i + 1] = n
      BY <3>1, <1>1
    <3> QED BY <3>2 DEF InSeq
  <2> QED BY <2>1, <2>2, <2>3
<1>4. ASSUME IsDistinct(s), ~InSeq(e, s) PROVE IsDistinct(t)
  <2> SUFFICES ASSUME NEW i \in 1 .. Len(t), NEW j \in 1 .. Len(t), t[i] = t[j] PROVE i = j
    BY DEF IsDistinct
  <2>1. \A k \in 1 .. Len(s) : s[k] # e
    BY <1>4, <1>1 DEF InSeq
  <2>2. CASE i - 1 \in 1 .. Len(s) /\ j - 1 \in 1 .. Len(s) /\ t[i] = s[i - 1] /\ t[j] = s[j - 1]
    <3>1. i - 1 = j - 1
      BY <2>2, <1>4 DEF IsDistinct
    <3> QED BY <3>1
  <2> QED BY <2>1, <2>2, <1>2
<1> QED BY <1>3, <1>4 DEF t

\* A pop takes the first element and leaves the others.
LEMMA TailMembers ==
  ASSUME NEW S, NEW s \in Seq(S), s # <<>>, IsDistinct(s)
  PROVE  /\ \A n : InSeq(n, Tail(s)) <=> InSeq(n, s) /\ n # s[1]
         /\ IsDistinct(Tail(s)) /\ InSeq(s[1], s)
<1> DEFINE t == Tail(s)
<1>1. /\ Len(s) \in Nat \ {0} /\ DOMAIN s = 1 .. Len(s)
      /\ t \in Seq(S) /\ Len(t) = Len(s) - 1 /\ DOMAIN t = 1 .. Len(s) - 1
      /\ \A i \in 1 .. Len(t) : t[i] = s[i + 1]
  BY HeadTailProperties, LenProperties, EmptySeq
<1> HIDE DEF t
<1>2. ASSUME NEW n PROVE InSeq(n, t) <=> InSeq(n, s) /\ n # s[1]
  <2>1. ASSUME InSeq(n, t) PROVE InSeq(n, s) /\ n # s[1]
    <3>1. PICK i \in 1 .. Len(t) : t[i] = n
      BY <2>1, <1>1 DEF InSeq
    <3>2. i + 1 \in 1 .. Len(s) /\ 1 \in 1 .. Len(s) /\ s[i + 1] = n /\ i + 1 # 1
      BY <3>1, <1>1
    <3> QED BY <3>2, <1>1 DEF InSeq, IsDistinct
  <2>2. ASSUME InSeq(n, s), n # s[1] PROVE InSeq(n, t)
    <3>1. PICK i \in 1 .. Len(s) : s[i] = n
      BY <2>2, <1>1 DEF InSeq
    <3>2. i - 1 \in 1 .. Len(t) /\ t[i - 1] = s[i - 1 + 1] /\ i - 1 + 1 = i
      BY <3>1, <2>2, <1>1
    <3> QED BY <3>1, <3>2, <1>1 DEF InSeq
  <2> QED BY <2>1, <2>2
<1>3. IsDistinct(t)
  <2> SUFFICES ASSUME NEW i \in 1 .. Len(t), NEW j \in 1 .. Len(t), t[i] = t[j] PROVE i = j
    BY DEF IsDistinct
  <2>1. i + 1 \in 1 .. Len(s) /\ j + 1 \in 1 .. Len(s) /\ s[i + 1] = s[j + 1]
    BY <1>1
  <2>2. i + 1 = j + 1
    BY <2>1 DEF IsDistinct
  <2> QED BY <2>2
<1>4. InSeq(s[1], s)
  BY <1>1 DEF InSeq
<1> QED BY <1>2, <1>3, <1>4 DEF t

\* A sweep unlinks one node and leaves the others.
LEMMA WithoutMembers ==
  ASSUME NEW S, NEW s \in Seq(S), NEW i \in 1 .. Len(s), IsDistinct(s)
  PROVE  /\ Without(s, i) \in Seq(S) /\ IsDistinct(Without(s, i))
         /\ \A n : InSeq(n, Without(s, i)) <=> InSeq(n, s) /\ n # s[i]
<1> DEFINE a == SubSeq(s, 1, i - 1)
           b == SubSeq(s, i + 1, Len(s))
           t == Without(s, i)
<1>1. Len(s) \in Nat /\ DOMAIN s = 1 .. Len(s) /\ i \in Int /\ i - 1 \in Int /\ i + 1 \in Int
  BY LenProperties
<1>2. \A k \in 1 .. Len(s) : s[k] \in S
  BY ElementOfSeq
<1>3. a \in Seq(S) /\ Len(a) = i - 1 /\ \A k \in 1 .. i - 1 : a[k] = s[k]
  <2>1. \A k \in 1 .. i - 1 : s[k] \in S
    BY <1>1, <1>2
  <2>2. /\ a \in Seq(S) /\ Len(a) = IF 1 <= i - 1 THEN i - 1 - 1 + 1 ELSE 0
        /\ \A k \in 1 .. i - 1 - 1 + 1 : a[k] = s[1 + k - 1]
    BY <2>1, <1>1, SubSeqProperties, Z3
  <2> QED BY <2>2, <1>1
<1>4. b \in Seq(S) /\ Len(b) = Len(s) - i /\ \A k \in 1 .. Len(s) - i : b[k] = s[i + k]
  <2>1. \A k \in i + 1 .. Len(s) : s[k] \in S
    BY <1>1, <1>2
  <2>2. /\ b \in Seq(S) /\ Len(b) = IF i + 1 <= Len(s) THEN Len(s) - (i + 1) + 1 ELSE 0
        /\ \A k \in 1 .. Len(s) - (i + 1) + 1 : b[k] = s[i + 1 + k - 1]
    BY <2>1, <1>1, SubSeqProperties, Z3
  <2> HIDE DEF b
  <2>5. i \in Int /\ Len(s) \in Int /\ i <= Len(s)
    BY <1>1
  <2>6. Len(s) - (i + 1) + 1 = Len(s) - i /\ (~(i + 1 <= Len(s)) => Len(s) - i = 0)
    BY <2>5
  <2>3. Len(b) = Len(s) - i /\ Len(s) - (i + 1) + 1 = Len(s) - i
    BY <2>2, <2>6
  <2>4. \A k \in 1 .. Len(s) - i : b[k] = s[i + 1 + k - 1] /\ i + 1 + k - 1 = i + k
    BY <2>2, <2>3, <1>1
  <2> QED BY <2>2, <2>3, <2>4
<1>5. /\ t = a \o b /\ t \in Seq(S) /\ Len(t) = Len(s) - 1 /\ DOMAIN t = 1 .. Len(s) - 1
      /\ \A k \in 1 .. Len(t) : t[k] = s[IF k < i THEN k ELSE k + 1]
  <2> HIDE DEF a, b
  <2>1. t = a \o b
    BY DEF Without, a, b
  <2> HIDE DEF t
  <2>2. /\ t \in Seq(S) /\ Len(t) = Len(a) + Len(b)
        /\ \A k \in 1 .. Len(a) + Len(b) : t[k] = IF k <= Len(a) THEN a[k] ELSE b[k - Len(a)]
    BY <2>1, <1>3, <1>4, ConcatProperties
  <2>3. Len(t) = Len(s) - 1 /\ DOMAIN t = 1 .. Len(s) - 1
    BY <2>2, <1>1, <1>3, <1>4, LenProperties
  <2>4. ASSUME NEW k \in 1 .. Len(t) PROVE t[k] = s[IF k < i THEN k ELSE k + 1]
    <3>1. CASE k < i
      BY <3>1, <2>2, <2>3, <1>1, <1>3, <1>4
    <3>2. CASE ~(k < i)
      <4>1. k - (i - 1) \in 1 .. Len(s) - i /\ i + (k - (i - 1)) = k + 1
        BY <3>2, <2>3, <1>1
      <4>2. t[k] = b[k - (i - 1)]
        BY <3>2, <2>2, <2>3, <1>1, <1>3, <1>4
      <4> QED BY <4>1, <4>2, <3>2, <1>4
    <3> QED BY <3>1, <3>2
  <2> QED BY <2>1, <2>2, <2>3, <2>4
<1> HIDE DEF a, b, t
<1>6. ASSUME NEW n PROVE InSeq(n, t) <=> InSeq(n, s) /\ n # s[i]
  <2>1. ASSUME InSeq(n, t) PROVE InSeq(n, s) /\ n # s[i]
    <3>1. PICK k \in 1 .. Len(t) : t[k] = n
      BY <2>1, <1>5 DEF InSeq
    <3> DEFINE m == IF k < i THEN k ELSE k + 1
    <3>2. m \in 1 .. Len(s) /\ m # i
      BY <1>5, <1>1
    <3>3. s[m] = n
      BY <3>1, <1>5
    <3> QED BY <3>2, <3>3, <1>1 DEF InSeq, IsDistinct
  <2>2. ASSUME InSeq(n, s), n # s[i] PROVE InSeq(n, t)
    <3>1. PICK m \in 1 .. Len(s) : s[m] = n /\ m # i
      BY <2>2, <1>1 DEF InSeq
    <3>2. CASE m < i
      <4>1. m \in 1 .. Len(t)
        BY <3>2, <1>5, <1>1
      <4>2. t[m] = s[m]
        BY <4>1, <3>2, <1>5
      <4> QED BY <4>1, <4>2, <3>1, <1>5 DEF InSeq
    <3>3. CASE m > i
      <4>1. m - 1 \in 1 .. Len(t) /\ ~(m - 1 < i) /\ m - 1 + 1 = m
        BY <3>3, <1>5, <1>1
      <4> QED BY <4>1, <3>1, <1>5 DEF InSeq
    <3> QED BY <3>1, <3>2, <3>3, <1>1
  <2> QED BY <2>1, <2>2
<1>7. IsDistinct(t)
  <2> SUFFICES ASSUME NEW k \in 1 .. Len(t), NEW m \in 1 .. Len(t), t[k] = t[m] PROVE k = m
    BY DEF IsDistinct
  <2> DEFINE x == IF k < i THEN k ELSE k + 1
             y == IF m < i THEN m ELSE m + 1
  <2>1. x \in 1 .. Len(s) /\ y \in 1 .. Len(s)
    BY <1>5, <1>1
  <2>2. s[x] = s[y]
    BY <1>5
  <2>3. x = y
    <3> HIDE DEF x, y
    <3> QED BY <2>1, <2>2 DEF IsDistinct
  <2> QED BY <2>3, <1>5, <1>1
<1> QED BY <1>5, <1>6, <1>7 DEF t

-----------------------------------------------------------------------------
(* Types *)

LEMMA WorkingCount ==
  ASSUME StackAssumption
  PROVE  /\ IsFiniteSet(Working) /\ Cardinality(Working) \in 0 .. Cardinality(Producers)
         /\ \A p \in Working : /\ Cardinality(Working \ {p}) = Cardinality(Working) - 1
                               /\ Cardinality(Working) > 0
<1>1. Working \in SUBSET Producers /\ IsFiniteSet(Producers)
  BY DEF Working, StackAssumption
<1>2. IsFiniteSet(Working) /\ Cardinality(Working) <= Cardinality(Producers)
  BY <1>1, FS_Subset
<1>3. Cardinality(Working) \in Nat /\ Cardinality(Producers) \in Nat
  BY <1>1, <1>2, FS_CardinalityType
<1>4. ASSUME NEW p \in Working
      PROVE  Cardinality(Working \ {p}) = Cardinality(Working) - 1 /\ Cardinality(Working) # 0
  BY <1>2, <1>4, FS_RemoveElement, FS_EmptySet
<1> QED BY <1>2, <1>3, <1>4

LEMMA BumpRange == \A k \in Nat : Bump(k) \in 0 .. TAG_MODULUS - 1
BY StackAssumption, RemainderRange DEF StackAssumption, Bump

\* A pop that finds its head unchanged finds the stack not empty and its node on top.
LEMMA HeadOnTop ==
  ASSUME TypeOK, ChainIsStack, head.ptr # NULL
  PROVE  stack # <<>> /\ stack[1] = head.ptr /\ stack[1] \in Nodes
<1>1. stack # <<>> /\ stack[1] = head.ptr
  BY DEF ChainIsStack
<1> QED BY <1>1 DEF TypeOK, Heads

\* A store to a hazard slot, visible at once or not, is a store of a node or of NULL.
LEMMA StoreHazardType ==
  ASSUME TypeOK, NEW c \in Consumers, NEW n \in Nodes \cup {NULL}, StoreHazard(c, n)
  PROVE  /\ hazard' \in [Consumers -> Nodes \cup {NULL}]
         /\ pending' \in [Consumers -> Seq(Nodes \cup {NULL})]
<1>1. pending[c] \in Seq(Nodes \cup {NULL})
  BY DEF TypeOK
<1>2. Append(pending[c], n) \in Seq(Nodes \cup {NULL})
  BY <1>1, AppendProperties
<1> QED BY <1>2 DEF StoreHazard, TypeOK

\* The store is the last one of the thread.
LEMMA StoreHazardPublishes ==
  ASSUME TypeOK, NEW c \in Consumers, StoreHazard(c, old[c].ptr), old' = old,
         ~StoreBuffered => Flushed(c)
  PROVE  Published(c)'
<1>1. CASE StoreBuffered
  <2>1. pending[c] \in Seq(Nodes \cup {NULL}) /\ old[c].ptr \in Nodes \cup {NULL}
    BY DEF TypeOK, Heads, Threads
  <2>2. pending'[c] = Append(pending[c], old[c].ptr)
    BY <1>1 DEF StoreHazard, TypeOK
  <2>3. /\ Len(pending'[c]) = Len(pending[c]) + 1 /\ Len(pending[c]) \in Nat
        /\ pending'[c][Len(pending[c]) + 1] = old[c].ptr /\ pending'[c] # <<>>
    BY <2>1, <2>2, AppendProperties, LenProperties, EmptySeq
  <2> QED BY <2>3 DEF Published, Flushed
<1>2. CASE ~StoreBuffered
  BY <1>2 DEF StoreHazard, Published, Flushed, TypeOK
<1> QED BY <1>1, <1>2

LEMMA TypeStep ==
  ASSUME Inv, Next
  PROVE  TypeOK'
<1> USE StackAssumption DEF StackAssumption
<1> USE DEF Inv, Goto, SetNode, shared, locals, Threads
<1>1. ASSUME NEW p \in Producers, Malloc(p) PROVE TypeOK'
  BY <1>1 DEF Malloc, TypeOK
<1>2. ASSUME NEW p \in Producers, PushLink(p) PROVE TypeOK'
  BY <1>2 DEF PushLink, TypeOK, Heads
<1>3. ASSUME NEW p \in Producers, PushCasOk(p) PROVE TypeOK'
  <2>3. node[p] \in Nodes /\ made[p] < MSGS_PER_PRODUCER
    BY <1>3 DEF PushCasOk, TypeOK, Places, ProducerAt
  <2>4. old[p].tag \in Nat /\ made[p] \in 0 .. MSGS_PER_PRODUCER
    BY <1>3 DEF TypeOK, Heads
  <2>1. node[p] \in Nodes /\ made[p] + 1 \in 0 .. MSGS_PER_PRODUCER /\ old[p].tag \in Nat
    BY <2>3, <2>4
  <2>2. stack' \in Seq(Nodes) /\ head' \in Heads
    BY <1>3, <2>1, ConsElements, BumpRange DEF PushCasOk, TypeOK, Heads
  <2> QED BY <1>3, <2>1, <2>2 DEF PushCasOk, TypeOK
<1>4. ASSUME NEW p \in Producers, PushCasFail(p) PROVE TypeOK'
  BY <1>4 DEF PushCasFail, TypeOK
<1>5. ASSUME NEW p \in Producers, ProducerDone(p) PROVE TypeOK'
  <2>1. p \in Working /\ active = Cardinality(Working)
    BY <1>5 DEF ProducerDone, Working, Places
  <2>2. active \in 0 .. Cardinality(Producers) /\ active > 0 /\ Cardinality(Producers) \in Nat
    BY <2>1, WorkingCount, FS_CardinalityType
  <2>3. active - 1 \in 0 .. Cardinality(Producers)
    BY <2>2
  <2> QED BY <1>5, <2>3 DEF ProducerDone, TypeOK
<1>6. ASSUME NEW c \in Consumers, PopLoad(c) PROVE TypeOK'
  <2>1. hazard' \in [Consumers -> Nodes \cup {NULL}] /\ pending' \in [Consumers -> Seq(Nodes \cup {NULL})]
    <3>1. CASE StoreHazard(c, NULL)
      BY <3>1, StoreHazardType
    <3>2. CASE UNCHANGED <<hazard, pending>>
      BY <3>2 DEF TypeOK
    <3> QED BY <1>6, <3>1, <3>2 DEF PopLoad
  <2> QED BY <1>6, <2>1 DEF PopLoad, TypeOK
<1>7. ASSUME NEW c \in Consumers, PopPublish(c) PROVE TypeOK'
  <2>1. old[c].ptr \in Nodes \cup {NULL}
    BY DEF TypeOK, Heads
  <2>2. hazard' \in [Consumers -> Nodes \cup {NULL}] /\ pending' \in [Consumers -> Seq(Nodes \cup {NULL})]
    BY <1>7, <2>1, StoreHazardType DEF PopPublish
  <2> QED BY <1>7, <2>2 DEF PopPublish, TypeOK
<1>8. ASSUME NEW c \in Consumers, PopRecheck(c) PROVE TypeOK'
  BY <1>8 DEF PopRecheck, TypeOK
<1>9. ASSUME NEW c \in Consumers, PopReadNext(c) PROVE TypeOK'
  <2>1. next[old[c].ptr] \in Nodes \cup {NULL}
    BY <1>9 DEF PopReadNext, Places, ProducerAt, ConsumerAt, TypeOK, Heads
  <2> QED BY <1>9, <2>1 DEF PopReadNext, TypeOK
<1>10. ASSUME NEW c \in Consumers, PopCasOk(c) PROVE TypeOK'
  <2>1. head.ptr # NULL /\ old[c].ptr \in Nodes /\ old[c].tag \in Nat
    BY <1>10 DEF PopCasOk, HeadIs, Places, ProducerAt, ConsumerAt, TypeOK, Heads
  <2>2. stack' \in Seq(Nodes)
    BY <1>10, <2>1, HeadOnTop, HeadTailProperties DEF PopCasOk, TypeOK
  <2>3. head' \in Heads
    BY <1>10, <2>1, BumpRange DEF PopCasOk, TypeOK, Heads
  <2> QED BY <1>10, <2>1, <2>2, <2>3 DEF PopCasOk, TypeOK
<1>11. ASSUME NEW c \in Consumers, PopCasFail(c) PROVE TypeOK'
  BY <1>11 DEF PopCasFail, TypeOK
<1>12. ASSUME NEW c \in Consumers, PopClear(c) PROVE TypeOK'
  <2>1. hazard' \in [Consumers -> Nodes \cup {NULL}] /\ pending' \in [Consumers -> Seq(Nodes \cup {NULL})]
    BY <1>12, StoreHazardType DEF PopClear
  <2>2. count' \in [Consumers -> Nat] /\ draining' \in [Consumers -> BOOLEAN]
    BY <1>12 DEF PopClear, TypeOK
  <2>3. toScan' \in [Consumers -> SUBSET Consumers] /\ pc' = [pc EXCEPT ![c] = "retire"]
    BY <1>12 DEF PopClear, TypeOK
  <2>4. UNCHANGED <<head, next, live, retired, lock, active, stack, old, node, cur, made>>
    BY <1>12 DEF PopClear
  <2>5. pc' \in [Threads -> {"malloc", "push", "push_cas", "load", "publish", "recheck",
                           "read", "cas", "clear", "retire", "defer", "sweep",
                           "sweep_next", "sweep_scan", "empty", "done"}]
    BY <2>3 DEF TypeOK
  <2> QED BY <2>1, <2>2, <2>3, <2>4, <2>5 DEF TypeOK
<1>13. ASSUME NEW c \in Consumers, ScanSlot(c) PROVE TypeOK'
  <2>1. PICK d : toScan' = [toScan EXCEPT ![c] = @ \ {d}]
    BY <1>13 DEF ScanSlot
  <2>2. toScan' \in [Consumers -> SUBSET Consumers]
    BY <2>1 DEF TypeOK
  <2> QED BY <1>13, <2>2 DEF ScanSlot, TypeOK
<1>14. ASSUME NEW c \in Consumers, RetireFree(c) PROVE TypeOK'
  BY <1>14 DEF RetireFree, AfterRetire, TypeOK
<1>15. ASSUME NEW c \in Consumers, RetireHazardous(c) PROVE TypeOK'
  BY <1>15 DEF RetireHazardous, TypeOK
<1>16. ASSUME NEW c \in Consumers, RetireDefer(c) PROVE TypeOK'
  <2>1. node[c] \in Nodes
    BY <1>16 DEF RetireDefer, Ownership, Holds, TypeOK
  <2>2. retired' \in Seq(Nodes)
    BY <1>16, <2>1, ConsElements DEF RetireDefer, TypeOK
  <2> QED BY <1>16, <2>2 DEF RetireDefer, AfterRetire, TypeOK
<1>17. ASSUME NEW c \in Consumers, SweepLock(c) PROVE TypeOK'
  BY <1>17 DEF SweepLock, TypeOK
<1>18. ASSUME NEW c \in Consumers, SweepNext(c) PROVE TypeOK'
  <2>1. cur[c] \in 1 .. Len(retired)
    BY <1>18 DEF SweepNext, Places, ProducerAt, ConsumerAt, TypeOK
  <2>2. retired[cur[c]] \in Nodes
    BY <2>1, ElementOfSeq DEF TypeOK
  <2> QED BY <1>18, <2>2 DEF SweepNext, TypeOK
<1>19. ASSUME NEW c \in Consumers, SweepFree(c) PROVE TypeOK'
  <2>1. cur[c] \in 1 .. Len(retired)
    BY <1>19 DEF SweepFree, Places, ProducerAt, ConsumerAt, TypeOK
  <2>2. retired' \in Seq(Nodes)
    BY <1>19, <2>1, WithoutMembers DEF SweepFree, TypeOK, Ownership
  <2> QED BY <1>19, <2>2 DEF SweepFree, TypeOK
<1>20. ASSUME NEW c \in Consumers, SweepKeep(c) PROVE TypeOK'
  BY <1>20 DEF SweepKeep, TypeOK
<1>21. ASSUME NEW c \in Consumers, SweepUnlock(c) PROVE TypeOK'
  BY <1>21 DEF SweepUnlock, TypeOK
<1>22. ASSUME NEW c \in Consumers, EmptyStep(c) PROVE TypeOK'
  <2>1. CASE EmptyRetry(c)
    BY <2>1 DEF EmptyRetry, TypeOK
  <2>2. CASE EmptyDrain(c)
    <3>1. draining' \in [Consumers -> BOOLEAN]
      BY <2>2 DEF EmptyDrain, TypeOK
    <3> QED BY <2>2, <3>1 DEF EmptyDrain, TypeOK
  <2>3. CASE EmptyFinish(c)
    BY <2>3 DEF EmptyFinish, TypeOK
  <2> QED BY <1>22, <2>1, <2>2, <2>3 DEF EmptyStep
<1> QED BY <1>1, <1>2, <1>3, <1>4, <1>5, <1>6, <1>7, <1>8, <1>9, <1>10, <1>11, <1>12,
           <1>13, <1>14, <1>15, <1>16, <1>17, <1>18, <1>19, <1>20, <1>21, <1>22
        DEF Next, Produce, Consume, PopStep, RetireStep

-----------------------------------------------------------------------------
(* What a step of one thread leaves alone *)

LEMMA ProduceFrame ==
  ASSUME TypeOK, NEW p \in Producers, Produce(p)
  PROVE  /\ UNCHANGED <<hazard, pending, retired, lock, toScan, cur, count, draining>>
         /\ \A t \in Threads \ {p} : /\ pc'[t] = pc[t] /\ old'[t] = old[t]
                                     /\ node'[t] = node[t]
         /\ \A q \in Producers \ {p} : made'[q] = made[q]
         /\ \A n \in Nodes \ {node[p]} : next'[n] = next[n]
BY DEF Produce, Malloc, PushLink, PushCasOk, PushCasFail, ProducerDone,
       Goto, SetNode, shared, locals, TypeOK, Threads

\* Only the holder of the lock changes the retire list while it is held.
LEMMA ConsumeFrame ==
  ASSUME TypeOK, Places, NEW c \in Consumers, Consume(c)
  PROVE  /\ UNCHANGED <<next, made, active>>
         /\ \A t \in Threads \ {c} : /\ pc'[t] = pc[t] /\ old'[t] = old[t]
                                     /\ node'[t] = node[t]
         /\ \A d \in Consumers \ {c} : /\ hazard'[d] = hazard[d] /\ pending'[d] = pending[d]
                                       /\ toScan'[d] = toScan[d] /\ cur'[d] = cur[d]
         /\ lock \in Consumers \ {c} => UNCHANGED <<retired, lock>>
<1> USE StackAssumption DEF StackAssumption
<1> USE DEF Goto, SetNode, StoreHazard, shared, locals, TypeOK, Threads
<1>1. CASE PopStep(c)
  BY <1>1 DEF PopStep, PopLoad, PopPublish, PopRecheck, PopReadNext, PopCasOk, PopCasFail, PopClear
<1>2. CASE RetireStep(c)
  <2>1. pc[c] \in {"sweep_next", "sweep_scan"} => lock = c
    BY DEF Places, ConsumerAt
  <2> QED BY <1>2, <2>1
      DEF RetireStep, ScanSlot, RetireFree, RetireHazardous, RetireDefer, SweepLock,
          SweepNext, SweepFree, SweepKeep, SweepUnlock
<1>3. CASE EmptyStep(c)
  BY <1>3 DEF EmptyStep, EmptyRetry, EmptyDrain, EmptyFinish
<1> QED BY <1>1, <1>2, <1>3 DEF Consume

-----------------------------------------------------------------------------
(* Every thread is where its locals say *)

LEMMA ProducerAtStep ==
  ASSUME Inv, Next, NEW q \in Producers
  PROVE  ProducerAt(q)'
<1> USE StackAssumption DEF StackAssumption
<1> USE DEF Threads
<1>1. ProducerAt(q) /\ TypeOK /\ Places
  BY DEF Inv, Places
<1>2. ASSUME NEW c \in Consumers, Consume(c) PROVE ProducerAt(q)'
  BY <1>1, <1>2, ConsumeFrame DEF ProducerAt
<1>3. ASSUME NEW p \in Producers, Produce(p), p # q PROVE ProducerAt(q)'
  <2>1. /\ pc'[q] = pc[q] /\ old'[q] = old[q] /\ node'[q] = node[q] /\ made'[q] = made[q]
        /\ \A n \in Nodes \ {node[p]} : next'[n] = next[n]
    BY <1>1, <1>3, ProduceFrame
  <2>2. CASE pc[q] = "push_cas" /\ PushLink(p)
    <3>1. node[q] \in Nodes /\ node[q] # node[p]
      BY <1>1, <1>3, <2>2 DEF Inv, Ownership, Holds, PushLink, TypeOK, ProducerAt
    <3> QED BY <1>1, <2>1, <3>1 DEF ProducerAt
  <2>3. CASE pc[q] = "push_cas" /\ ~PushLink(p)
    <3>1. next' = next
      BY <1>3, <2>3 DEF Produce, Malloc, PushCasOk, PushCasFail, ProducerDone, shared
    <3> QED BY <1>1, <2>1, <3>1 DEF ProducerAt
  <2> QED BY <1>1, <2>1, <2>2, <2>3 DEF ProducerAt
<1>4. ASSUME Produce(q) PROVE ProducerAt(q)'
  <2> USE <1>1 DEF ProducerAt, TypeOK, Goto, SetNode, shared, locals
  <2>1. CASE Malloc(q)
    BY <2>1 DEF Malloc
  <2>2. CASE PushLink(q)
    BY <2>2 DEF PushLink
  <2>3. CASE PushCasOk(q)
    BY <2>3 DEF PushCasOk
  <2>4. CASE PushCasFail(q)
    BY <2>4 DEF PushCasFail
  <2>5. CASE ProducerDone(q)
    BY <2>5 DEF ProducerDone
  <2> QED BY <1>4, <2>1, <2>2, <2>3, <2>4, <2>5 DEF Produce
<1> QED BY <1>2, <1>3, <1>4 DEF Next

LEMMA ConsumerAtStep ==
  ASSUME Inv, Next, InOrder, NEW d \in Consumers
  PROVE  ConsumerAt(d)'
<1> USE StackAssumption DEF StackAssumption
<1> USE DEF Threads
<1>1. ConsumerAt(d) /\ TypeOK /\ Places
  BY DEF Inv, Places
<1>2. ASSUME NEW p \in Producers, Produce(p) PROVE ConsumerAt(d)'
  <2>1. /\ UNCHANGED <<hazard, pending, retired, lock, cur>>
        /\ pc'[d] = pc[d] /\ old'[d] = old[d] /\ node'[d] = node[d]
        /\ \A n \in Nodes \ {node[p]} : next'[n] = next[n]
    BY <1>1, <1>2, ProduceFrame
  <2>2. pc[d] = "cas" => next'[old[d].ptr] = next[old[d].ptr]
    BY <1>1, <2>1 DEF Inv, Protection, ConsumerAt, TypeOK, Heads
  <2> QED BY <1>1, <2>1, <2>2 DEF ConsumerAt, Published, Flushed
<1>3. ASSUME NEW c \in Consumers, Consume(c), c # d PROVE ConsumerAt(d)'
  <2>1. /\ UNCHANGED next
        /\ pc'[d] = pc[d] /\ old'[d] = old[d] /\ node'[d] = node[d]
        /\ hazard'[d] = hazard[d] /\ pending'[d] = pending[d] /\ cur'[d] = cur[d]
        /\ lock = d => UNCHANGED <<retired, lock>>
    BY <1>1, <1>3, ConsumeFrame
  <2> QED BY <1>1, <2>1 DEF ConsumerAt, Published, Flushed
<1>4. ASSUME PopStep(d) PROVE ConsumerAt(d)'
  <2> USE <1>1 DEF ConsumerAt, TypeOK, Goto, SetNode, StoreHazard, Flushed, shared, locals
  <2>1. CASE PopLoad(d)
    BY <2>1 DEF PopLoad
  <2>2. CASE PopPublish(d)
    <3>1. old[d].ptr \in Nodes \cup {NULL}
      BY DEF Heads
    <3>2. Published(d)'
      BY <2>2, <3>1, StoreHazardPublishes DEF PopPublish
    <3> QED BY <2>2, <3>2 DEF PopPublish
  <2>3. CASE PopRecheck(d)
    BY <2>3 DEF PopRecheck, InOrder, Published
  <2>4. CASE PopReadNext(d)
    BY <2>4 DEF PopReadNext
  <2>5. CASE PopCasOk(d)
    BY <2>5 DEF PopCasOk
  <2>6. CASE PopCasFail(d)
    BY <2>6 DEF PopCasFail
  <2>7. CASE PopClear(d)
    BY <2>7 DEF PopClear
  <2> QED BY <1>4, <2>1, <2>2, <2>3, <2>4, <2>5, <2>6, <2>7 DEF PopStep
<1>5. ASSUME RetireStep(d) PROVE ConsumerAt(d)'
  <2> USE <1>1 DEF ConsumerAt, TypeOK, Goto, SetNode, Flushed, shared, locals
  <2>1. CASE ScanSlot(d)
    BY <2>1 DEF ScanSlot
  <2>2. CASE RetireFree(d)
    BY <2>2 DEF RetireFree, AfterRetire
  <2>3. CASE RetireHazardous(d)
    BY <2>3 DEF RetireHazardous
  <2>4. CASE RetireDefer(d)
    BY <2>4 DEF RetireDefer, AfterRetire
  <2>5. CASE SweepLock(d)
    BY <2>5 DEF SweepLock
  <2>6. CASE SweepNext(d)
    BY <2>6 DEF SweepNext
  <2>7. CASE SweepFree(d)
    BY <2>7 DEF SweepFree
  <2>8. CASE SweepKeep(d)
    BY <2>8 DEF SweepKeep
  <2>9. CASE SweepUnlock(d)
    BY <2>9 DEF SweepUnlock
  <2> QED BY <1>5, <2>1, <2>2, <2>3, <2>4, <2>5, <2>6, <2>7, <2>8, <2>9 DEF RetireStep
<1>6. ASSUME EmptyStep(d) PROVE ConsumerAt(d)'
  BY <1>1, <1>6 DEF EmptyStep, EmptyRetry, EmptyDrain, EmptyFinish, ConsumerAt, TypeOK,
                    Goto, Flushed, shared, locals
<1> QED BY <1>2, <1>3, <1>4, <1>5, <1>6 DEF Next, Consume

LEMMA ActiveStep ==
  ASSUME Inv, Next
  PROVE  active' = Cardinality(Working')
<1> USE StackAssumption DEF StackAssumption
<1> USE DEF Threads
<1>1. TypeOK /\ Places /\ active = Cardinality(Working)
  BY DEF Inv, Places
<1>2. ASSUME NEW p \in Producers, ProducerDone(p) PROVE active' = Cardinality(Working')
  <2>1. p \in Working /\ active' = active - 1
    BY <1>2 DEF ProducerDone, Working
  <2>2. Working' = Working \ {p}
    BY <1>1, <1>2 DEF Working, ProducerDone, Goto, TypeOK
  <2> QED BY <1>1, <2>1, <2>2, WorkingCount
<1>3. ASSUME NEW p \in Producers, Produce(p), ~ProducerDone(p) PROVE active' = Cardinality(Working')
  <2>1. active' = active
    BY <1>3 DEF Produce, Malloc, PushLink, PushCasOk, PushCasFail, shared
  <2>2. pc[p] # "done" /\ pc'[p] # "done"
    BY <1>1, <1>3 DEF Produce, Malloc, PushLink, PushCasOk, PushCasFail, Goto, TypeOK
  <2>3. \A q \in Producers \ {p} : pc'[q] = pc[q]
    BY <1>1, <1>3, ProduceFrame
  <2>4. Working' = Working
    BY <2>2, <2>3 DEF Working
  <2> QED BY <1>1, <2>1, <2>4
<1>4. ASSUME NEW c \in Consumers, Consume(c) PROVE active' = Cardinality(Working')
  <2>1. active' = active /\ \A q \in Producers : pc'[q] = pc[q]
    BY <1>1, <1>4, ConsumeFrame
  <2>2. Working' = Working
    BY <2>1 DEF Working
  <2> QED BY <1>1, <2>1, <2>2
<1> QED BY <1>2, <1>3, <1>4 DEF Next

-----------------------------------------------------------------------------
(* Every node has its place: six steps move a node, the others move none *)

LEMMA OwnershipKept ==
  ASSUME Ownership, UNCHANGED <<live, stack, retired>>,
         \A t \in Threads : (Holds(t)' <=> Holds(t)) /\ (Holds(t) => node'[t] = node[t])
  PROVE  Ownership'
<1>1. \A t \in Threads : Holds(t)' => Holds(t) /\ node'[t] = node[t]
  OBVIOUS
<1>2. \A n \in live : (\E t \in Threads : Holds(t) /\ node[t] = n)
                        => \E t \in Threads : Holds(t)' /\ node'[t] = n
  OBVIOUS
<1> QED BY <1>1, <1>2, Zenon DEF Ownership

LEMMA MallocOwns ==
  ASSUME Inv, NEW p \in Producers, Malloc(p)
  PROVE  Ownership'
<1> USE DEF Threads
<1>1. TypeOK /\ Ownership /\ p \in Threads /\ ~Holds(p)
  BY DEF Inv, Malloc, Holds
<1>2. PICK n \in Nodes \ live : live' = live \cup {n} /\ node' = [node EXCEPT ![p] = n]
  BY DEF Malloc, SetNode
<1>3. stack' = stack /\ retired' = retired /\ pc' = [pc EXCEPT ![p] = "push"]
  BY DEF Malloc, Goto
<1>4. Holds(p)' /\ node'[p] = n
  BY <1>1, <1>2, <1>3 DEF Holds, TypeOK
<1>5. \A t \in Threads \ {p} : (Holds(t)' <=> Holds(t)) /\ node'[t] = node[t]
  BY <1>1, <1>2, <1>3 DEF Holds, TypeOK
<1>6. ~InSeq(n, stack) /\ ~InSeq(n, retired) /\ \A t \in Threads : Holds(t) => node[t] # n
  BY <1>1, <1>2 DEF Ownership
<1>7. \A m \in live' : \/ InSeq(m, stack) \/ InSeq(m, retired)
                       \/ \E t \in Threads : Holds(t)' /\ node'[t] = m
  BY <1>1, <1>2, <1>4, <1>5 DEF Ownership
<1> HIDE DEF Threads, Holds
<1> QED BY <1>1, <1>2, <1>3, <1>4, <1>5, <1>6, <1>7 DEF Ownership

LEMMA PushOwns ==
  ASSUME Inv, NEW p \in Producers, PushCasOk(p)
  PROVE  Ownership'
<1> USE DEF Threads
<1>1. TypeOK /\ Ownership /\ p \in Threads /\ Holds(p) /\ node[p] \in Nodes
  BY DEF Inv, PushCasOk, Holds, Places, ProducerAt, TypeOK
<1> DEFINE n == node[p]
<1>2. live' = live /\ retired' = retired /\ stack' = <<n>> \o stack
      /\ pc' = [pc EXCEPT ![p] = "malloc"] /\ node' = [node EXCEPT ![p] = NULL]
  BY DEF PushCasOk, Goto, SetNode
<1>3. ~Holds(p)'
  BY <1>1, <1>2 DEF Holds, TypeOK
<1>4. \A t \in Threads \ {p} : (Holds(t)' <=> Holds(t)) /\ node'[t] = node[t]
  BY <1>1, <1>2 DEF Holds, TypeOK
<1>5. n \in live /\ ~InSeq(n, stack) /\ ~InSeq(n, retired)
      /\ \A t \in Threads \ {p} : Holds(t) => node[t] # n
  BY <1>1 DEF Ownership
<1>6. (\A m : InSeq(m, stack') <=> m = n \/ InSeq(m, stack)) /\ IsDistinct(stack')
  BY <1>1, <1>2, <1>5, ConsMembers DEF Ownership, TypeOK
<1>7. \A m \in live' : \/ InSeq(m, stack') \/ InSeq(m, retired)
                       \/ \E t \in Threads : Holds(t)' /\ node'[t] = m
  BY <1>1, <1>2, <1>4, <1>6 DEF Ownership
<1> HIDE DEF Threads, Holds
<1> QED BY <1>1, <1>2, <1>3, <1>4, <1>5, <1>6, <1>7 DEF Ownership

LEMMA PopOwns ==
  ASSUME Inv, NEW c \in Consumers, PopCasOk(c)
  PROVE  Ownership'
<1> USE DEF Threads
<1>1. TypeOK /\ Ownership /\ c \in Threads /\ ~Holds(c)
  BY DEF Inv, PopCasOk, Holds
<1> DEFINE n == old[c].ptr
<1>2. live' = live /\ retired' = retired /\ stack' = Tail(stack)
      /\ pc' = [pc EXCEPT ![c] = "clear"] /\ node' = [node EXCEPT ![c] = n]
  BY DEF PopCasOk, Goto, SetNode
<1>3. stack # <<>> /\ stack[1] = n /\ n \in Nodes
  BY <1>1, HeadOnTop DEF Inv, PopCasOk, HeadIs, Places, ConsumerAt
<1> HIDE DEF n
<1>4. Holds(c)' /\ node'[c] = n
  BY <1>1, <1>2 DEF Holds, TypeOK
<1>5. \A t \in Threads \ {c} : (Holds(t)' <=> Holds(t)) /\ node'[t] = node[t]
  BY <1>1, <1>2 DEF Holds, TypeOK
<1>6. (\A m : InSeq(m, stack') <=> InSeq(m, stack) /\ m # n) /\ IsDistinct(stack') /\ InSeq(n, stack)
  BY <1>1, <1>2, <1>3, TailMembers DEF Ownership, TypeOK
<1>7. n \in live /\ ~InSeq(n, retired) /\ \A t \in Threads : Holds(t) => node[t] # n
  BY <1>1, <1>3, <1>6 DEF Ownership
<1>8. \A m \in live' : \/ InSeq(m, stack') \/ InSeq(m, retired)
                       \/ \E t \in Threads : Holds(t)' /\ node'[t] = m
  BY <1>1, <1>2, <1>4, <1>5, <1>6 DEF Ownership
<1> HIDE DEF Threads, Holds
<1> QED BY <1>1, <1>2, <1>3, <1>4, <1>5, <1>6, <1>7, <1>8 DEF Ownership

LEMMA FreeOwns ==
  ASSUME Inv, NEW c \in Consumers, RetireFree(c)
  PROVE  Ownership'
<1> USE DEF Threads
<1>1. TypeOK /\ Ownership /\ c \in Threads /\ Holds(c)
  BY DEF Inv, RetireFree, Holds
<1> DEFINE n == node[c]
<1>2. live' = live \ {n} /\ retired' = retired /\ stack' = stack
      /\ pc' = [pc EXCEPT ![c] = AfterRetire(c)] /\ node' = [node EXCEPT ![c] = NULL]
  BY DEF RetireFree, Goto, SetNode
<1>3. ~Holds(c)'
  BY <1>1, <1>2 DEF Holds, TypeOK, AfterRetire
<1>4. \A t \in Threads \ {c} : (Holds(t)' <=> Holds(t)) /\ node'[t] = node[t]
  BY <1>1, <1>2 DEF Holds, TypeOK
<1>5. ~InSeq(n, stack) /\ ~InSeq(n, retired) /\ \A t \in Threads \ {c} : Holds(t) => node[t] # n
  BY <1>1 DEF Ownership
<1>6. \A m \in live' : \/ InSeq(m, stack) \/ InSeq(m, retired)
                       \/ \E t \in Threads : Holds(t)' /\ node'[t] = m
  BY <1>1, <1>2, <1>4 DEF Ownership
<1> HIDE DEF Threads, Holds
<1> QED BY <1>1, <1>2, <1>3, <1>4, <1>5, <1>6 DEF Ownership

LEMMA DeferOwns ==
  ASSUME Inv, NEW c \in Consumers, RetireDefer(c)
  PROVE  Ownership'
<1> USE DEF Threads
<1>1. TypeOK /\ Ownership /\ c \in Threads /\ Holds(c)
  BY DEF Inv, RetireDefer, Holds
<1> DEFINE n == node[c]
<1>2. live' = live /\ retired' = <<n>> \o retired /\ stack' = stack
      /\ pc' = [pc EXCEPT ![c] = AfterRetire(c)] /\ node' = [node EXCEPT ![c] = NULL]
  BY DEF RetireDefer, Goto, SetNode
<1>3. ~Holds(c)'
  BY <1>1, <1>2 DEF Holds, TypeOK, AfterRetire
<1>4. \A t \in Threads \ {c} : (Holds(t)' <=> Holds(t)) /\ node'[t] = node[t]
  BY <1>1, <1>2 DEF Holds, TypeOK
<1>5. n \in live /\ ~InSeq(n, stack) /\ ~InSeq(n, retired)
      /\ \A t \in Threads \ {c} : Holds(t) => node[t] # n
  BY <1>1 DEF Ownership
<1>6. (\A m : InSeq(m, retired') <=> m = n \/ InSeq(m, retired)) /\ IsDistinct(retired')
  BY <1>1, <1>2, <1>5, ConsMembers DEF Ownership, TypeOK
<1>7. \A m \in live' : \/ InSeq(m, stack) \/ InSeq(m, retired')
                       \/ \E t \in Threads : Holds(t)' /\ node'[t] = m
  BY <1>1, <1>2, <1>4, <1>6 DEF Ownership
<1> HIDE DEF Threads, Holds
<1> QED BY <1>1, <1>2, <1>3, <1>4, <1>5, <1>6, <1>7 DEF Ownership

LEMMA SweepOwns ==
  ASSUME Inv, NEW c \in Consumers, SweepFree(c)
  PROVE  Ownership'
<1> USE DEF Threads
<1>1. TypeOK /\ Ownership /\ c \in Threads /\ ~Holds(c)
  BY DEF Inv, SweepFree, Holds
<1> DEFINE n == node[c]
<1>2. live' = live \ {n} /\ retired' = Without(retired, cur[c]) /\ stack' = stack
      /\ pc' = [pc EXCEPT ![c] = "sweep_next"] /\ node' = [node EXCEPT ![c] = NULL]
  BY DEF SweepFree, Goto, SetNode
<1>3. cur[c] \in 1 .. Len(retired) /\ retired[cur[c]] = n
  BY <1>1 DEF Inv, SweepFree, Places, ConsumerAt, TypeOK
<1>4. ~Holds(c)'
  BY <1>1, <1>2 DEF Holds, TypeOK
<1>5. \A t \in Threads \ {c} : (Holds(t)' <=> Holds(t)) /\ node'[t] = node[t]
  BY <1>1, <1>2 DEF Holds, TypeOK
<1>6. (\A m : InSeq(m, retired') <=> InSeq(m, retired) /\ m # n) /\ IsDistinct(retired')
  BY <1>1, <1>2, <1>3, WithoutMembers DEF Ownership, TypeOK
<1>7. n \in Nodes /\ InSeq(n, retired)
  <2>1. DOMAIN retired = 1 .. Len(retired) /\ n \in Nodes
    BY <1>1, <1>3, LenProperties, ElementOfSeq DEF TypeOK
  <2> QED BY <1>3, <2>1 DEF InSeq
<1>8. ~InSeq(n, stack) /\ \A t \in Threads : Holds(t) => node[t] # n
  BY <1>1, <1>7 DEF Ownership
<1>9. \A m \in live' : \/ InSeq(m, stack) \/ InSeq(m, retired')
                       \/ \E t \in Threads : Holds(t)' /\ node'[t] = m
  BY <1>1, <1>2, <1>4, <1>5, <1>6 DEF Ownership
<1> HIDE DEF Threads, Holds
<1> QED BY <1>1, <1>2, <1>4, <1>5, <1>6, <1>7, <1>8, <1>9 DEF Ownership

LEMMA OwnershipStep ==
  ASSUME Inv, Next
  PROVE  Ownership'
<1> USE DEF Threads
<1>1. TypeOK /\ Ownership
  BY DEF Inv
<1>2. ASSUME NEW p \in Producers, PushLink(p) \/ PushCasFail(p) \/ ProducerDone(p)
      PROVE  Ownership'
  BY <1>1, <1>2, OwnershipKept
  DEF PushLink, PushCasFail, ProducerDone, Goto, SetNode, shared, Holds, TypeOK
<1>3. ASSUME NEW c \in Consumers, PopStep(c), ~PopCasOk(c) PROVE Ownership'
  <2>1. UNCHANGED <<live, stack, retired>>
    BY <1>3 DEF PopStep, PopLoad, PopPublish, PopRecheck, PopReadNext, PopCasFail, PopClear, shared
  <2>2. \A t \in Threads : (Holds(t)' <=> Holds(t)) /\ (Holds(t) => node'[t] = node[t])
    BY <1>1, <1>3 DEF PopStep, PopLoad, PopPublish, PopRecheck, PopReadNext, PopCasFail, PopClear,
                      Goto, SetNode, Holds, TypeOK
  <2> QED BY <1>1, <2>1, <2>2, OwnershipKept
<1>4. ASSUME NEW c \in Consumers, RetireStep(c), ~RetireFree(c), ~RetireDefer(c), ~SweepFree(c)
      PROVE  Ownership'
  <2>1. UNCHANGED <<live, stack, retired>>
    BY <1>4 DEF RetireStep, ScanSlot, RetireHazardous, SweepLock, SweepNext, SweepKeep,
                SweepUnlock, shared
  <2>2. \A t \in Threads : (Holds(t)' <=> Holds(t)) /\ (Holds(t) => node'[t] = node[t])
    BY <1>1, <1>4 DEF RetireStep, ScanSlot, RetireHazardous, SweepLock, SweepNext, SweepKeep,
                      SweepUnlock, Goto, SetNode, Holds, TypeOK
  <2> QED BY <1>1, <2>1, <2>2, OwnershipKept
<1>5. ASSUME NEW c \in Consumers, EmptyStep(c) PROVE Ownership'
  BY <1>1, <1>5, OwnershipKept
  DEF EmptyStep, EmptyRetry, EmptyDrain, EmptyFinish, Goto, shared, Holds, TypeOK
<1> QED BY <1>2, <1>3, <1>4, <1>5, MallocOwns, PushOwns, PopOwns, FreeOwns, DeferOwns, SweepOwns
        DEF Next, Produce, Consume

-----------------------------------------------------------------------------
(* The chain of next pointers *)

LEMMA LinkKeepsChain ==
  ASSUME Inv, NEW p \in Producers, PushLink(p)
  PROVE  ChainIsStack'
<1>1. /\ ChainIsStack /\ stack \in Seq(Nodes) /\ next \in [Nodes -> Nodes \cup {NULL}]
      /\ stack' = stack /\ head' = head /\ next' = [next EXCEPT ![node[p]] = head.ptr]
  BY DEF Inv, TypeOK, PushLink
<1>2. ~InSeq(node[p], stack)
  BY DEF Inv, PushLink, Ownership, Holds, Threads
<1>3. Len(stack) \in Nat /\ DOMAIN stack = 1 .. Len(stack)
      /\ (stack # <<>> => Len(stack) \in 1 .. Len(stack))
  BY <1>1, LenProperties, EmptySeq
<1>4. \A i \in 1 .. Len(stack) : next'[stack[i]] = next[stack[i]]
  BY <1>1, <1>2, <1>3 DEF InSeq
<1> QED BY <1>1, <1>3, <1>4 DEF ChainIsStack

LEMMA PushKeepsChain ==
  ASSUME Inv, NEW p \in Producers, PushCasOk(p)
  PROVE  ChainIsStack'
<1> DEFINE n == node[p]
           t == <<n>> \o stack
<1>1. /\ ChainIsStack /\ stack \in Seq(Nodes) /\ next' = next
      /\ stack' = t /\ head'.ptr = n /\ next[n] = head.ptr /\ n \in Nodes
  <2>1. pc[p] = "push_cas" /\ head = old[p] /\ ProducerAt(p)
    BY DEF Inv, PushCasOk, HeadIs, Places
  <2>2. n \in Nodes /\ next[n] = head.ptr
    BY <2>1 DEF Inv, TypeOK, ProducerAt, Threads
  <2> QED BY <2>2 DEF Inv, TypeOK, PushCasOk
<1> HIDE DEF n
<1>2. Len(stack) \in Nat /\ (stack # <<>> => Len(stack) > 0)
  BY <1>1, LenProperties, EmptySeq
<1>3. /\ t # <<>> /\ Len(t) = Len(stack) + 1 /\ t[1] = n
      /\ \A i \in 1 .. Len(stack) : t[i + 1] = stack[i]
  BY <1>1, ConsElements
<1> HIDE DEF t
<1>4. next[t[Len(t)]] = NULL
  <2>1. CASE stack = <<>>
    <3>1. Len(stack) = 0 /\ head.ptr = NULL
      BY <2>1, <1>1 DEF ChainIsStack
    <3> QED BY <3>1, <1>1, <1>3
  <2>2. CASE stack # <<>>
    <3>1. Len(stack) \in 1 .. Len(stack) /\ next[stack[Len(stack)]] = NULL
      BY <2>2, <1>1, <1>2 DEF ChainIsStack
    <3> QED BY <3>1, <1>3
  <2> QED BY <2>1, <2>2
<1>5. ASSUME NEW i \in 1 .. Len(t) - 1 PROVE next[t[i]] = t[i + 1]
  <2>1. i \in 1 .. Len(stack) /\ t[i + 1] = stack[i]
    BY <1>2, <1>3
  <2>2. CASE i = 1
    <3>1. stack # <<>>
      BY <2>1
    <3> QED BY <2>1, <2>2, <3>1, <1>1, <1>3 DEF ChainIsStack
  <2>3. CASE i # 1
    <3>1. i - 1 \in 1 .. Len(stack) - 1 /\ i - 1 + 1 = i /\ i - 1 \in 1 .. Len(stack)
      BY <2>1, <2>3, <1>2
    <3>2. t[i] = stack[i - 1] /\ next[stack[i - 1]] = stack[i]
      BY <3>1, <1>1, <1>3 DEF ChainIsStack
    <3> QED BY <3>2, <2>1
  <2> QED BY <2>2, <2>3
<1> QED BY <1>1, <1>3, <1>4, <1>5 DEF ChainIsStack

LEMMA PopKeepsChain ==
  ASSUME Inv, NEW c \in Consumers, PopCasOk(c)
  PROVE  ChainIsStack'
<1> DEFINE t == Tail(stack)
<1>1. TypeOK /\ ChainIsStack /\ stack \in Seq(Nodes) /\ next' = next /\ stack' = t
      /\ head'.ptr = node[c] /\ node[c] = next[head.ptr] /\ head.ptr # NULL
  BY DEF Inv, TypeOK, PopCasOk, HeadIs, Places, ConsumerAt
<1>2. stack # <<>> /\ stack[1] = head.ptr
  BY <1>1, HeadOnTop
<1>3. /\ Len(stack) \in Nat \ {0} /\ t \in Seq(Nodes) /\ Len(t) = Len(stack) - 1
      /\ \A i \in 1 .. Len(t) : t[i] = stack[i + 1]
  BY <1>1, <1>2, HeadTailProperties, EmptySeq
<1> HIDE DEF t
<1>4. next[stack[Len(stack)]] = NULL /\ \A i \in 1 .. Len(stack) - 1 : next[stack[i]] = stack[i + 1]
  BY <1>1, <1>2 DEF ChainIsStack
<1>5. ASSUME t = <<>> PROVE head'.ptr = NULL
  <2>1. Len(t) = 0
    BY <1>5
  <2>2. Len(stack) = 1
    BY <2>1, <1>3
  <2> QED BY <2>2, <1>1, <1>2, <1>4
<1>6. ASSUME t # <<>>
      PROVE  /\ head'.ptr = t[1] /\ next[t[Len(t)]] = NULL
             /\ \A i \in 1 .. Len(t) - 1 : next[t[i]] = t[i + 1]
  <2>1. Len(t) \in Nat \ {0}
    BY <1>3, <1>6, EmptySeq
  <2>2. 1 \in 1 .. Len(t) /\ Len(t) \in 1 .. Len(t) /\ Len(t) + 1 = Len(stack)
        /\ 1 \in 1 .. Len(stack) - 1
    BY <2>1, <1>3
  <2>3. head'.ptr = t[1] /\ t[Len(t)] = stack[Len(stack)]
    BY <2>2, <1>1, <1>2, <1>3, <1>4
  <2>4. ASSUME NEW i \in 1 .. Len(t) - 1 PROVE next[t[i]] = t[i + 1]
    <3>1. i \in 1 .. Len(t) /\ i + 1 \in 1 .. Len(t) /\ i + 1 \in 1 .. Len(stack) - 1
      BY <2>1, <1>3
    <3> QED BY <3>1, <1>3, <1>4
  <2> QED BY <2>3, <2>4, <1>4
<1>7. ASSUME t = <<>> PROVE \A i \in 1 .. Len(t) - 1 : next[t[i]] = t[i + 1]
  <2>1. Len(t) = 0
    BY <1>7
  <2> QED BY <2>1
<1> QED BY <1>1, <1>5, <1>6, <1>7 DEF ChainIsStack

LEMMA ChainStep ==
  ASSUME Inv, Next
  PROVE  ChainIsStack'
<1>1. ASSUME UNCHANGED <<head, stack, next>> PROVE ChainIsStack'
  BY <1>1 DEF Inv, ChainIsStack
<1>2. ASSUME NEW p \in Producers, Produce(p) PROVE ChainIsStack'
  BY <1>1, <1>2, LinkKeepsChain, PushKeepsChain
  DEF Produce, Malloc, PushCasFail, ProducerDone, shared
<1>3. ASSUME NEW c \in Consumers, PopStep(c) PROVE ChainIsStack'
  BY <1>1, <1>3, PopKeepsChain
  DEF PopStep, PopLoad, PopPublish, PopRecheck, PopReadNext, PopCasFail, PopClear, shared
<1>4. ASSUME NEW c \in Consumers, RetireStep(c) PROVE ChainIsStack'
  BY <1>1, <1>4
  DEF RetireStep, ScanSlot, RetireFree, RetireHazardous, RetireDefer, SweepLock, SweepNext,
      SweepFree, SweepKeep, SweepUnlock, shared
<1>5. ASSUME NEW c \in Consumers, EmptyStep(c) PROVE ChainIsStack'
  BY <1>1, <1>5 DEF EmptyStep, EmptyRetry, EmptyDrain, EmptyFinish, shared
<1> QED BY <1>2, <1>3, <1>4, <1>5 DEF Next, Consume

-----------------------------------------------------------------------------
(* The node a pop looks into *)

LEMMA ProtectionOnRecheck ==
  ASSUME Inv, NEW c \in Consumers, PopRecheck(c), HeadIs(c)
  PROVE  /\ old[c].ptr \in live
         /\ \A p \in Producers : node[p] # old[c].ptr
         /\ \A d \in Consumers :
              ~(pc[d] \in {"retire", "sweep_scan"} /\ node[d] = old[c].ptr)
<1> DEFINE n == old[c].ptr
<1> USE DEF Threads
<1>1. TypeOK /\ Places /\ Ownership /\ ChainIsStack
  BY DEF Inv
<1>2. n = head.ptr /\ n # NULL /\ n \in Nodes
  BY <1>1 DEF PopRecheck, HeadIs, Places, ConsumerAt, TypeOK, Heads
<1> HIDE DEF n
<1>3. InSeq(n, stack)
  <2>1. stack # <<>> /\ stack[1] = n /\ stack \in Seq(Nodes)
    BY <1>1, <1>2, HeadOnTop DEF TypeOK
  <2>2. 1 \in DOMAIN stack
    BY <2>1, EmptySeq, LenProperties
  <2> QED BY <2>1, <2>2 DEF InSeq
<1>4. n \in live /\ ~InSeq(n, retired)
  BY <1>1, <1>2, <1>3 DEF Ownership
<1>5. ASSUME NEW p \in Producers PROVE node[p] # n
  <2>1. node[p] = NULL \/ Holds(p)
    BY <1>1 DEF Places, ProducerAt, Holds
  <2> QED BY <2>1, <1>1, <1>2, <1>3 DEF Ownership
<1>6. ASSUME NEW d \in Consumers, pc[d] = "retire" PROVE node[d] # n
  BY <1>1, <1>3, <1>6 DEF Ownership, Holds
<1>7. ASSUME NEW d \in Consumers, pc[d] = "sweep_scan" PROVE node[d] # n
  <2>1. cur[d] \in 1 .. Len(retired) /\ node[d] = retired[cur[d]]
    BY <1>1, <1>7 DEF Places, ConsumerAt, TypeOK
  <2>2. InSeq(node[d], retired)
    BY <2>1, <1>1, LenProperties DEF InSeq, TypeOK
  <2> QED BY <2>2, <1>4
<1> QED BY <1>4, <1>5, <1>6, <1>7 DEF n

\* No other thread takes the node from under a pop that is looking into it ...
LEMMA NodeStaysLive ==
  ASSUME Inv, Next, NEW c \in Consumers, pc[c] \in {"read", "cas"}
  PROVE  old[c].ptr \in live /\ old[c].ptr \in live'
<1>1. TypeOK /\ old[c].ptr \in live
      /\ \A d \in Consumers :
           pc[d] \in {"retire", "sweep_scan"} /\ node[d] = old[c].ptr => c \in toScan[d]
  BY DEF Inv, Protection
<1>2. ASSUME NEW p \in Producers, Produce(p) PROVE live \subseteq live'
  BY <1>2 DEF Produce, Malloc, PushLink, PushCasOk, PushCasFail, ProducerDone, shared
<1>3. ASSUME NEW d \in Consumers, Consume(d), ~RetireFree(d), ~SweepFree(d) PROVE live' = live
  BY <1>3 DEF Consume, PopStep, PopLoad, PopPublish, PopRecheck, PopReadNext, PopCasOk,
              PopCasFail, PopClear, RetireStep, ScanSlot, RetireHazardous, RetireDefer,
              SweepLock, SweepNext, SweepKeep, SweepUnlock, EmptyStep, EmptyRetry,
              EmptyDrain, EmptyFinish, shared
<1>4. ASSUME NEW d \in Consumers, RetireFree(d) \/ SweepFree(d) PROVE old[c].ptr \in live'
  <2>1. /\ pc[d] \in {"retire", "sweep_scan"} /\ toScan[d] = {} /\ live' = live \ {node[d]}
    BY <1>4 DEF RetireFree, SweepFree
  <2> QED BY <2>1, <1>1
<1> QED BY <1>1, <1>2, <1>3, <1>4 DEF Next

\* ... nor does a producer get it, nor does a scan get past its hazard.
LEMMA ProtectionStep ==
  ASSUME Inv, Next
  PROVE  Protection'
<1> SUFFICES ASSUME NEW c \in Consumers, pc'[c] \in {"read", "cas"}
             PROVE  /\ old'[c].ptr \in live'
                    /\ \A p \in Producers : node'[p] # old'[c].ptr
                    /\ \A d \in Consumers :
                         pc'[d] \in {"retire", "sweep_scan"} /\ node'[d] = old'[c].ptr
                           => c \in toScan'[d]
  BY DEF Protection
<1> USE StackAssumption DEF StackAssumption
<1> USE DEF Threads
<1>1. TypeOK /\ Places /\ Protection
  BY DEF Inv
<1>2. CASE PopRecheck(c)
  <2>1. HeadIs(c) /\ UNCHANGED <<shared, old, node, toScan>>
        /\ \A d \in Consumers \ {c} : pc'[d] = pc[d]
    BY <1>1, <1>2 DEF PopRecheck, Goto, TypeOK
  <2> QED BY <1>2, <2>1, ProtectionOnRecheck DEF shared
<1>3. CASE ~PopRecheck(c)
  <2>1. pc[c] \in {"read", "cas"} /\ old'[c] = old[c]
    <3>1. CASE \E p \in Producers : Produce(p)
      BY <3>1, <1>1, ProduceFrame
    <3>2. CASE \E d \in Consumers \ {c} : Consume(d)
      BY <3>2, <1>1, ConsumeFrame
    <3>3. CASE PopStep(c)
      BY <3>3, <1>1, <1>3 DEF PopStep, PopLoad, PopPublish, PopReadNext, PopCasOk, PopCasFail,
                              PopClear, Goto, TypeOK
    <3>4. CASE RetireStep(c)
      BY <3>4, <1>1 DEF RetireStep, ScanSlot, RetireFree, RetireHazardous, RetireDefer, SweepLock,
                        SweepNext, SweepFree, SweepKeep, SweepUnlock, AfterRetire, Goto, TypeOK
    <3>5. CASE EmptyStep(c)
      BY <3>5, <1>1 DEF EmptyStep, EmptyRetry, EmptyDrain, EmptyFinish, Goto, TypeOK
    <3> QED BY <3>1, <3>2, <3>3, <3>4, <3>5 DEF Next, Consume
  <2> DEFINE n == old[c].ptr
  <2>2. n \in live /\ n \in live' /\ n # NULL /\ hazard[c] = n
    BY <2>1, <1>1, NodeStaysLive DEF Places, ConsumerAt
  <2>3. /\ \A p \in Producers : node[p] # n
        /\ \A d \in Consumers :
             pc[d] \in {"retire", "sweep_scan"} /\ node[d] = n => c \in toScan[d]
    BY <2>1, <1>1 DEF Protection
  <2> HIDE DEF n
  <2>4. ASSUME NEW p \in Producers, Produce(p)
        PROVE  /\ \A q \in Producers : node'[q] # n
               /\ \A d \in Consumers :
                    pc'[d] \in {"retire", "sweep_scan"} /\ node'[d] = n => c \in toScan'[d]
    <3>1. toScan' = toScan /\ \A t \in Threads \ {p} : pc'[t] = pc[t] /\ node'[t] = node[t]
      BY <2>4, <1>1, ProduceFrame
    <3>2. node'[p] # n
      BY <2>2, <2>3, <2>4, <1>1 DEF Produce, Malloc, PushLink, PushCasOk, PushCasFail, ProducerDone,
                                    SetNode, TypeOK
    <3> QED BY <3>1, <3>2, <2>3
  <2>5. ASSUME NEW d \in Consumers, Consume(d)
        PROVE  /\ \A q \in Producers : node'[q] # n
               /\ \A e \in Consumers :
                    pc'[e] \in {"retire", "sweep_scan"} /\ node'[e] = n => c \in toScan'[e]
    <3>1. /\ \A t \in Threads \ {d} : pc'[t] = pc[t] /\ node'[t] = node[t]
          /\ \A e \in Consumers \ {d} : toScan'[e] = toScan[e]
      BY <2>5, <1>1, ConsumeFrame
    <3>2. ASSUME pc'[d] \in {"retire", "sweep_scan"}, node'[d] = n PROVE c \in toScan'[d]
      <4>1. c # d
        BY <3>2
      <4>2. CASE PopClear(d) \/ SweepNext(d)
        BY <4>1, <4>2, <1>1 DEF PopClear, SweepNext, TypeOK
      <4>3. CASE ScanSlot(d)
        <5>1. pc[d] \in {"retire", "sweep_scan"} /\ node[d] = n
          BY <4>3, <3>2 DEF ScanSlot
        <5>2. PICK e \in toScan[d] : hazard[e] # node[d] /\ toScan' = [toScan EXCEPT ![d] = @ \ {e}]
          BY <4>3 DEF ScanSlot
        <5> QED BY <5>1, <5>2, <2>2, <2>3, <1>1 DEF TypeOK
      <4>4. CASE PopStep(d) /\ ~PopClear(d)
        BY <4>4, <3>2, <1>1 DEF PopStep, PopLoad, PopPublish, PopRecheck, PopReadNext, PopCasOk,
                                PopCasFail, Goto, TypeOK
      <4>5. CASE RetireStep(d) /\ ~ScanSlot(d) /\ ~SweepNext(d)
        BY <4>5, <3>2, <1>1 DEF RetireStep, RetireFree, RetireHazardous, RetireDefer, SweepLock,
                                SweepFree, SweepKeep, SweepUnlock, AfterRetire, Goto, TypeOK
      <4>6. CASE EmptyStep(d)
        BY <4>6, <3>2, <1>1 DEF EmptyStep, EmptyRetry, EmptyDrain, EmptyFinish, Goto, TypeOK
      <4> QED BY <2>5, <4>2, <4>3, <4>4, <4>5, <4>6 DEF Consume
    <3> QED BY <3>1, <3>2, <2>3
  <2> QED BY <2>1, <2>2, <2>4, <2>5 DEF Next, n
<1> QED BY <1>2, <1>3

-----------------------------------------------------------------------------
(* Results: hazard stores visible in time, any tag width *)

LEMMA Initially == Init => Inv
<1> SUFFICES ASSUME Init PROVE Inv
  OBVIOUS
<1> USE StackAssumption DEF StackAssumption, Threads
<1>1. TypeOK
  <2>1. Cardinality(Producers) \in Nat /\ 0 \in 0 .. TAG_MODULUS - 1
    BY FS_CardinalityType
  <2> QED BY <2>1 DEF Init, TypeOK, Heads
<1>2. Places
  <2>1. Working = Producers
    BY DEF Working, Init
  <2>2. \A p \in Producers : ProducerAt(p)
    BY DEF Init, ProducerAt
  <2>3. \A c \in Consumers : ConsumerAt(c)
    BY DEF Init, ConsumerAt, Flushed
  <2> QED BY <2>1, <2>2, <2>3 DEF Places, Init
<1>3. Ownership
  BY DEF Init, Ownership, Holds, InSeq, IsDistinct
<1>4. ChainIsStack
  BY DEF Init, ChainIsStack
<1>5. Protection
  BY DEF Init, Protection
<1> QED BY <1>1, <1>2, <1>3, <1>4, <1>5 DEF Inv

\* A delayed store becomes visible: the last one stays the last.
LEMMA FlushKeeps ==
  ASSUME Inv, NEW d \in Consumers, Flush(d)
  PROVE  Inv'
<1> USE DEF Threads
<1>1. TypeOK /\ Places /\ Ownership /\ ChainIsStack /\ Protection
  BY DEF Inv
<1> PICK q \in Seq(Nodes \cup {NULL}) : q = pending[d] /\ q # <<>>
  BY <1>1 DEF TypeOK, Flush
<1>2. /\ hazard' = [hazard EXCEPT ![d] = Head(q)] /\ pending' = [pending EXCEPT ![d] = Tail(q)]
      /\ UNCHANGED <<head, next, live, retired, lock, active, stack, pc, old, node, toScan,
                     cur, made, count, draining>>
  BY DEF Flush, locals
<1>3. /\ Head(q) \in Nodes \cup {NULL} /\ Tail(q) \in Seq(Nodes \cup {NULL})
      /\ Len(q) \in Nat \ {0} /\ Len(Tail(q)) = Len(q) - 1 /\ Head(q) = q[1]
      /\ \A i \in 1 .. Len(q) - 1 : Tail(q)[i] = q[i + 1]
      /\ Tail(q) = <<>> <=> Len(q) = 1
  <2>1. Len(q) \in Nat /\ Len(q) # 0 /\ (Tail(q) \in Seq(Nodes \cup {NULL}) =>
                                          (Tail(q) = <<>> <=> Len(Tail(q)) = 0))
    BY EmptySeq, LenProperties
  <2>2. /\ Head(q) = q[1] /\ q[1] \in Nodes \cup {NULL}
        /\ Tail(q) \in Seq(Nodes \cup {NULL}) /\ Len(Tail(q)) = Len(q) - 1
        /\ \A i \in 1 .. Len(q) - 1 : Tail(q)[i] = q[i + 1]
    BY <2>1, HeadTailProperties, ElementOfSeq
  <2> QED BY <2>1, <2>2
<1>4. TypeOK'
  BY <1>1, <1>2, <1>3 DEF TypeOK
<1>5. ConsumerAt(d)'
  <2>1. ConsumerAt(d) /\ ~Flushed(d)
    BY <1>1 DEF Places, Flushed
  <2>2. /\ hazard'[d] = Head(q) /\ pending'[d] = Tail(q)
    BY <1>1, <1>2 DEF TypeOK
  <2>3. ASSUME Published(d) PROVE Published(d)'
    <3>1. q[Len(q)] = old[d].ptr
      BY <2>1, <2>3 DEF Published
    <3>2. CASE Len(q) = 1
      BY <3>1, <3>2, <1>2, <1>3, <2>2 DEF Published, Flushed
    <3>3. CASE Len(q) # 1
      <4>1. Len(q) - 1 \in 1 .. Len(q) - 1
        BY <3>3, <1>3
      <4>2. Tail(q)[Len(Tail(q))] = old[d].ptr
        BY <4>1, <3>1, <1>3
      <4> QED BY <4>2, <3>3, <1>2, <1>3, <2>2 DEF Published, Flushed
    <3> QED BY <3>2, <3>3
  <2> QED BY <2>1, <2>3, <1>2 DEF ConsumerAt
<1>6. ASSUME NEW c \in Consumers, c # d PROVE ConsumerAt(c)'
  <2>1. hazard'[c] = hazard[c] /\ pending'[c] = pending[c] /\ ConsumerAt(c)
    BY <1>1, <1>2, <1>6 DEF TypeOK, Places
  <2> QED BY <2>1, <1>2 DEF ConsumerAt, Published, Flushed
<1>7. Places'
  <2>1. \A p \in Producers : ProducerAt(p)'
    BY <1>1, <1>2 DEF Places, ProducerAt
  <2>2. active' = Cardinality(Working')
    BY <1>1, <1>2 DEF Places, Working
  <2> QED BY <1>5, <1>6, <2>1, <2>2 DEF Places
<1>8. Ownership' /\ ChainIsStack' /\ Protection'
  BY <1>1, <1>2 DEF Ownership, Holds, ChainIsStack, Protection
<1> QED BY <1>4, <1>7, <1>8 DEF Inv

LEMMA UnchangedKeeps == Inv /\ UNCHANGED vars => Inv'
BY DEF vars, shared, locals, Inv, TypeOK, Places, ProducerAt, ConsumerAt, Published, Flushed,
       Working, Ownership, Holds, ChainIsStack, Protection

LEMMA NextKeeps == Inv /\ Next /\ InOrder => Inv'
<1> SUFFICES ASSUME Inv, Next, InOrder PROVE Inv'
  OBVIOUS
<1>1. Places'
  BY ProducerAtStep, ConsumerAtStep, ActiveStep DEF Places
<1> QED BY <1>1, TypeStep, OwnershipStep, ChainStep, ProtectionStep DEF Inv

\* Stores visible at once are visible in time.
LEMMA Inductive == ~StoreBuffered /\ Inv /\ [Next]_vars => Inv'
<1>1. ~StoreBuffered /\ Inv => InOrder
  BY DEF Inv, Places, ConsumerAt, InOrder
<1> QED BY <1>1, NextKeeps, UnchangedKeeps

\* So are delayed ones if every second look at the head waits for them.
LEMMA InductiveInOrder == Inv /\ [NextBuffered]_vars /\ [InOrder]_vars => Inv'
BY NextKeeps, FlushKeeps, UnchangedKeeps DEF NextBuffered

THEOREM Invariance == ASSUME ~StoreBuffered PROVE Spec => []Inv
<1>1. Inv /\ [Next]_vars => Inv'
  BY Inductive
<1> QED BY <1>1, Initially, PTL DEF Spec

\* The fields and locals of Day 33 hold what their declarations say.
THEOREM TypeCorrect == ASSUME ~StoreBuffered PROVE Spec => []TypeOK
<1>1. Inv => TypeOK
  BY DEF Inv
<1> QED BY <1>1, Invariance, PTL

\* stack_push and stack_pop: no CAS installs a stale successor, even if the tag never
\* changes (TAG_MODULUS = 1): following next from the head gives the nodes pushed and
\* not yet popped, in order.
THEOREM NoABA == ASSUME ~StoreBuffered PROVE Spec => []ChainIsStack
<1>1. Inv => ChainIsStack
  BY DEF Inv
<1> QED BY <1>1, Invariance, PTL

\* What Ownership says of one node is that it has at most one owner, and one if it is live.
LEMMA OwnersOf ==
  ASSUME Inv, NEW n \in Nodes
  PROVE  Cardinality(Owners(n)) = (IF n \in live THEN 1 ELSE 0)
<1> USE DEF Threads
<1>1. TypeOK /\ Places /\ Ownership /\ n # NULL
  BY StackAssumption DEF Inv, StackAssumption
<1> DEFINE P == {p \in Producers : node[p] = n}
           C == {c \in Consumers : Popped(c) /\ node[c] = n}
           S == {s \in {"stack"} : InSeq(n, stack)}
           R == {s \in {"retired"} : InSeq(n, retired)}
<1>2. Owners(n) = P \cup C \cup S \cup R
  BY DEF Owners
<1>3. P \cup C = {t \in Threads : Holds(t) /\ node[t] = n}
  <2>1. \A p \in Producers : node[p] = n => Holds(p)
    BY <1>1 DEF Places, ProducerAt, Holds
  <2>2. \A c \in Consumers : Popped(c) <=> Holds(c)
    BY <1>1 DEF Places, ConsumerAt, Holds, Popped
  <2> QED BY <2>1, <2>2
<1> HIDE DEF P, C
<1>4. ASSUME n \notin live PROVE Owners(n) = {}
  BY <1>1, <1>2, <1>3, <1>4 DEF Ownership
<1>5. ASSUME InSeq(n, stack) PROVE n \in live /\ Owners(n) = {"stack"}
  BY <1>1, <1>2, <1>3, <1>5 DEF Ownership
<1>6. ASSUME InSeq(n, retired) PROVE n \in live /\ Owners(n) = {"retired"}
  BY <1>1, <1>2, <1>3, <1>6 DEF Ownership
<1>7. ASSUME n \in live, ~InSeq(n, stack), ~InSeq(n, retired) PROVE \E t : Owners(n) = {t}
  <2>1. PICK t \in Threads : Holds(t) /\ node[t] = n
    BY <1>1, <1>7 DEF Ownership
  <2>2. \A u \in Threads : Holds(u) /\ node[u] = n => u = t
    BY <1>1, <2>1 DEF Ownership
  <2>3. Owners(n) = {t}
    BY <1>2, <1>3, <1>7, <2>1, <2>2
  <2> QED BY <2>3
<1> QED BY <1>4, <1>5, <1>6, <1>7, FS_EmptySet, FS_Singleton

\* malloc, stack_push, stack_pop, retire_node and retire_sweep: every allocated node has
\* exactly one owner, so that none is popped twice, freed twice or lost.
THEOREM EveryNodeOwned == ASSUME ~StoreBuffered PROVE Spec => []OneOwner
<1>1. Inv => OneOwner
  BY OwnersOf DEF OneOwner
<1> QED BY <1>1, Invariance, PTL

\* stack_pop: from the second look at the head to the CAS, no other thread frees the node
\* the hazard slot names. It holds for delayed stores too, in every execution of the code
\* in which no second look overtakes the store it follows; release and acquire do not
\* exclude such an overtaking, and then the node can be freed under the reader.
THEOREM SafeToLookInto ==
  Init /\ [][NextBuffered]_vars /\ [][InOrder]_vars => HazardProtects
<1>1. Init /\ [][NextBuffered]_vars /\ [][InOrder]_vars => []Inv
  BY Initially, InductiveInOrder, PTL
<1>2. Inv /\ [NextBuffered]_vars =>
        [\A c \in Consumers :
           pc[c] \in {"read", "cas"} => old[c].ptr \in live /\ old[c].ptr \in live']_vars
  <2> SUFFICES ASSUME Inv, NextBuffered, NEW c \in Consumers, pc[c] \in {"read", "cas"}
               PROVE  old[c].ptr \in live /\ old[c].ptr \in live'
    OBVIOUS
  <2>1. CASE Next
    BY <2>1, NodeStaysLive
  <2>2. CASE \E d \in Consumers : Flush(d)
    BY <2>2 DEF Flush, Inv, Protection
  <2> QED BY <2>1, <2>2 DEF NextBuffered
<1> QED BY <1>1, <1>2, PTL DEF HazardProtects

\* In particular when hazard stores are visible at once.
THEOREM SafeWhenVisible == ASSUME ~StoreBuffered PROVE Spec => HazardProtects
<1>1. Inv /\ [Next]_vars =>
        [\A c \in Consumers :
           pc[c] \in {"read", "cas"} => old[c].ptr \in live /\ old[c].ptr \in live']_vars
  BY NodeStaysLive
<1> QED BY <1>1, Invariance, PTL DEF Spec, HazardProtects

-----------------------------------------------------------------------------
(* The stack with whole-chain steal *)

StealThreads == StealProducers \cup Consumers

\* Where a producer is, and whether it has a node.
Pushing(p) ==
  /\ s_pc[p] \in {"new", "link", "push_cas", "done"}
  /\ s_node[p] = NULL <=> s_pc[p] \in {"new", "done"}
  /\ s_pc[p] \in {"link", "push_cas"} => s_made[p] < STEAL_MSGS

\* A consumer deletes nodes while it has any.
Deleting(c) ==
  /\ s_pc[c] \in {"steal", "read", "empty", "done"}
  /\ s_pc[c] = "read" <=> stolen[c] # <<>>

AtWork == {p \in StealProducers : s_pc[p] # "done"}

Owned ==
  /\ \A p \in StealProducers : s_node[p] # NULL =>
       /\ s_node[p] \in s_live /\ ~InSeq(s_node[p], s_stack)
       /\ \A c \in Consumers : ~InSeq(s_node[p], stolen[c])
       /\ \A q \in StealProducers : s_node[q] = s_node[p] => q = p
  /\ IsDistinct(s_stack) /\ \A c \in Consumers : IsDistinct(stolen[c])
  /\ \A n \in Nodes : InSeq(n, s_stack) => n \in s_live
  /\ \A n \in Nodes, c \in Consumers : InSeq(n, stolen[c]) =>
       /\ n \in s_live /\ ~InSeq(n, s_stack)
       /\ \A d \in Consumers : InSeq(n, stolen[d]) => d = c
  /\ \A n \in s_live :
       \/ InSeq(n, s_stack)
       \/ \E c \in Consumers : InSeq(n, stolen[c])
       \/ \E p \in StealProducers : s_node[p] = n

StealInv ==
  /\ Steal!TypeOK
  /\ \A p \in StealProducers : Pushing(p)
  /\ \A c \in Consumers : Deleting(c)
  /\ s_active = Cardinality(AtWork)
  /\ Owned
  /\ Steal!ChainsIntact

-----------------------------------------------------------------------------
(* Chains of next pointers *)

\* The pointers nx, followed from first, run through exactly the list s.
RunsThrough(nx, first, s) ==
  /\ first = (IF s = <<>> THEN NULL ELSE s[1])
  /\ \A i \in 1 .. Len(s) : nx[s[i]] = (IF i = Len(s) THEN NULL ELSE s[i + 1])

LEMMA SameLinks ==
  ASSUME NEW nx, NEW ny, NEW first, NEW s \in Seq(Nodes), RunsThrough(nx, first, s),
         \A n \in Nodes : InSeq(n, s) => ny[n] = nx[n]
  PROVE  RunsThrough(ny, first, s)
<1>1. \A i \in 1 .. Len(s) : s[i] \in Nodes /\ InSeq(s[i], s)
  BY ElementOfSeq, LenProperties DEF InSeq
<1> QED BY <1>1 DEF RunsThrough

\* Linking a node in front of a chain.
LEMMA LinkInFront ==
  ASSUME NEW nx, NEW first, NEW s \in Seq(Nodes), RunsThrough(nx, first, s),
         NEW n \in Nodes, nx[n] = first
  PROVE  RunsThrough(nx, n, <<n>> \o s)
<1> DEFINE t == <<n>> \o s
<1>1. Len(s) \in Nat /\ (s = <<>> <=> Len(s) = 0)
  BY LenProperties, EmptySeq
<1>2. /\ t # <<>> /\ Len(t) = Len(s) + 1 /\ t[1] = n
      /\ \A i \in 1 .. Len(s) : t[i + 1] = s[i]
  BY ConsElements
<1> HIDE DEF t
<1>3. ASSUME NEW i \in 1 .. Len(t)
      PROVE  nx[t[i]] = (IF i = Len(t) THEN NULL ELSE t[i + 1])
  <2>1. CASE i = 1 /\ s = <<>>
    BY <2>1, <1>1, <1>2 DEF RunsThrough
  <2>2. CASE i = 1 /\ s # <<>>
    <3>1. 1 \in 1 .. Len(s) /\ Len(t) # 1
      BY <2>2, <1>1, <1>2
    <3>2. t[1 + 1] = s[1]
      BY <3>1, <1>2
    <3> QED BY <2>2, <3>1, <3>2, <1>2 DEF RunsThrough
  <2>3. CASE i # 1
    <3>1. /\ i - 1 \in 1 .. Len(s) /\ i - 1 + 1 = i
          /\ i # Len(t) => i \in 1 .. Len(s) /\ i - 1 # Len(s)
          /\ i = Len(t) => i - 1 = Len(s)
      BY <2>3, <1>1, <1>2
    <3>2. t[i] = s[i - 1] /\ nx[s[i - 1]] = (IF i - 1 = Len(s) THEN NULL ELSE s[i])
      BY <3>1, <1>2 DEF RunsThrough
    <3>3. i # Len(t) => t[i + 1] = s[i]
      BY <3>1, <1>2
    <3> QED BY <3>1, <3>2, <3>3
  <2> QED BY <2>1, <2>2, <2>3
<1>4. n = (IF t = <<>> THEN NULL ELSE t[1])
  BY <1>2
<1> QED BY <1>3, <1>4 DEF RunsThrough, t

\* Taking the first node off a chain; the next pointer is NULL at the end only.
LEMMA TakeFirst ==
  ASSUME NEW nx, NEW first, NEW s \in Seq(Nodes), RunsThrough(nx, first, s), s # <<>>
  PROVE  /\ RunsThrough(nx, nx[first], Tail(s))
         /\ nx[first] = NULL <=> Tail(s) = <<>>
<1> DEFINE t == Tail(s)
<1>1. /\ Len(s) \in Nat \ {0} /\ t \in Seq(Nodes) /\ Len(t) = Len(s) - 1
      /\ \A i \in 1 .. Len(t) : t[i] = s[i + 1]
  BY HeadTailProperties, EmptySeq
<1> HIDE DEF t
<1>2. t = <<>> <=> Len(t) = 0
  BY <1>1, EmptySeq
<1>3. first = s[1] /\ nx[first] = (IF Len(s) = 1 THEN NULL ELSE s[2])
  <2>1. 1 \in 1 .. Len(s) /\ 1 + 1 = 2
    BY <1>1
  <2>2. first = s[1]
    BY DEF RunsThrough
  <2>3. nx[s[1]] = (IF 1 = Len(s) THEN NULL ELSE s[1 + 1])
    BY <2>1 DEF RunsThrough
  <2> QED BY <2>1, <2>2, <2>3
<1>4. nx[first] = (IF t = <<>> THEN NULL ELSE t[1])
  <2>1. CASE Len(t) = 0
    BY <2>1, <1>1, <1>2, <1>3
  <2>2. CASE Len(t) # 0
    <3>1. 1 \in 1 .. Len(t) /\ Len(s) # 1
      BY <2>2, <1>1
    <3>2. t[1] = s[1 + 1]
      BY <3>1, <1>1
    <3> QED BY <3>1, <3>2, <2>2, <1>2, <1>3
  <2> QED BY <2>1, <2>2
<1>5. ASSUME t # <<>> PROVE t[1] # NULL
  <2>1. 1 \in 1 .. Len(t)
    BY <1>1, <1>2, <1>5
  <2>2. t[1] \in Nodes
    BY <1>1, <2>1, ElementOfSeq
  <2> QED BY <2>2, StackAssumption DEF StackAssumption
<1>6. ASSUME NEW i \in 1 .. Len(t)
      PROVE  nx[t[i]] = (IF i = Len(t) THEN NULL ELSE t[i + 1])
  <2>1. /\ i + 1 \in 1 .. Len(s) /\ (i + 1 = Len(s) <=> i = Len(t))
        /\ i # Len(t) => i + 1 \in 1 .. Len(t)
    BY <1>1
  <2>2. t[i] = s[i + 1] /\ (i # Len(t) => t[i + 1] = s[i + 1 + 1])
    BY <2>1, <1>1
  <2>3. nx[s[i + 1]] = (IF i + 1 = Len(s) THEN NULL ELSE s[i + 1 + 1])
    BY <2>1 DEF RunsThrough
  <2> QED BY <2>1, <2>2, <2>3
<1>7. RunsThrough(nx, nx[first], t)
  BY <1>4, <1>6 DEF RunsThrough
<1> QED BY <1>4, <1>5, <1>7 DEF t

LEMMA ChainsRun ==
  /\ Steal!ChainsIntact <=>
       /\ RunsThrough(s_next, s_head, s_stack)
       /\ \A c \in Consumers : RunsThrough(s_next, s_node[c], stolen[c])
  /\ (Steal!ChainsIntact)' <=>
       /\ RunsThrough(s_next', s_head', s_stack')
       /\ \A c \in Consumers : RunsThrough(s_next', s_node'[c], stolen'[c])
BY DEF Steal!ChainsIntact, Steal!Chain, RunsThrough

-----------------------------------------------------------------------------
(* What a step leaves alone *)

LEMMA SameCardinality == \A S : Steal!Cardinality(S) = Cardinality(S)
BY DEF Steal!Cardinality, Cardinality

LEMMA AtWorkCount ==
  /\ IsFiniteSet(AtWork) /\ Cardinality(AtWork) \in 0 .. Cardinality(StealProducers)
  /\ \A p \in AtWork : /\ Cardinality(AtWork \ {p}) = Cardinality(AtWork) - 1
                       /\ Cardinality(AtWork) > 0
<1>1. AtWork \in SUBSET StealProducers /\ IsFiniteSet(StealProducers)
  BY StealAssumption DEF AtWork, StealAssumption
<1>2. IsFiniteSet(AtWork) /\ Cardinality(AtWork) <= Cardinality(StealProducers)
  BY <1>1, FS_Subset
<1>3. Cardinality(AtWork) \in Nat /\ Cardinality(StealProducers) \in Nat
  BY <1>1, <1>2, FS_CardinalityType
<1>4. ASSUME NEW p \in AtWork
      PROVE  Cardinality(AtWork \ {p}) = Cardinality(AtWork) - 1 /\ Cardinality(AtWork) # 0
  BY <1>2, <1>4, FS_RemoveElement, FS_EmptySet
<1> QED BY <1>2, <1>3, <1>4

LEMMA StealProduceFrame ==
  ASSUME Steal!TypeOK, NEW p \in StealProducers, Steal!Produce(p)
  PROVE  /\ UNCHANGED <<s_count, final, stolen>>
         /\ \A t \in StealThreads \ {p} : s_pc'[t] = s_pc[t] /\ s_node'[t] = s_node[t]
         /\ \A q \in StealProducers \ {p} : s_made'[q] = s_made[q]
         /\ \A n \in Nodes \ {s_node[p]} : s_next'[n] = s_next[n]
BY DEF Steal!Produce, Steal!New, Steal!PushLink, Steal!PushCasOk, Steal!PushCasFail,
       Steal!ProducerDone, Steal!Goto, Steal!SetNode, Steal!TypeOK, Steal!Threads, StealThreads

LEMMA StealConsumeFrame ==
  ASSUME Steal!TypeOK, NEW c \in Consumers, Steal!Consume(c)
  PROVE  /\ UNCHANGED <<s_next, s_active, s_made>>
         /\ \A t \in StealThreads \ {c} : s_pc'[t] = s_pc[t] /\ s_node'[t] = s_node[t]
         /\ \A d \in Consumers \ {c} : stolen'[d] = stolen[d]
BY DEF Steal!Consume, Steal!Steal, Steal!StealNothing, Steal!DeleteNode, Steal!EmptyRetry,
       Steal!EmptyFinal, Steal!Finish, Steal!Goto, Steal!SetNode, Steal!TypeOK,
       Steal!Threads, StealThreads

\* A thief looks at the first node of its chain.
LEMMA ThiefsNode ==
  ASSUME StealInv, NEW c \in Consumers, s_pc[c] = "read"
  PROVE  /\ stolen[c] # <<>> /\ stolen[c] \in Seq(Nodes)
         /\ s_node[c] = stolen[c][1] /\ s_node[c] \in Nodes
         /\ s_next[s_node[c]] \in Nodes \cup {NULL}
         /\ s_next[s_node[c]] = NULL <=> Tail(stolen[c]) = <<>>
         /\ RunsThrough(s_next, s_next[s_node[c]], Tail(stolen[c]))
<1>1. stolen[c] # <<>> /\ stolen[c] \in Seq(Nodes) /\ RunsThrough(s_next, s_node[c], stolen[c])
  BY ChainsRun DEF StealInv, Deleting, Steal!TypeOK
<1>2. s_node[c] = stolen[c][1]
  BY <1>1 DEF RunsThrough
<1>3. 1 \in 1 .. Len(stolen[c])
  BY <1>1, EmptySeq, LenProperties
<1>4. s_node[c] \in Nodes
  BY <1>1, <1>2, <1>3, ElementOfSeq
<1>5. s_next[s_node[c]] \in Nodes \cup {NULL}
  BY <1>4 DEF StealInv, Steal!TypeOK
<1> QED BY <1>1, <1>2, <1>4, <1>5, TakeFirst

-----------------------------------------------------------------------------
(* Types and places *)

LEMMA StealTypeStep ==
  ASSUME StealInv, Steal!Next
  PROVE  (Steal!TypeOK)'
<1> USE StackAssumption, StealAssumption DEF StackAssumption, StealAssumption
<1> USE DEF Steal!Goto, Steal!SetNode, Steal!Threads
<1>0. Steal!TypeOK
  BY DEF StealInv
<1>1. ASSUME NEW p \in StealProducers, Steal!New(p) PROVE (Steal!TypeOK)'
  BY <1>0, <1>1 DEF Steal!New, Steal!TypeOK
<1>2. ASSUME NEW p \in StealProducers, Steal!PushLink(p) \/ Steal!PushCasFail(p)
      PROVE  (Steal!TypeOK)'
  BY <1>0, <1>2 DEF Steal!PushLink, Steal!PushCasFail, Steal!TypeOK
<1>3. ASSUME NEW p \in StealProducers, Steal!PushCasOk(p) PROVE (Steal!TypeOK)'
  <2>1. s_node[p] \in Nodes /\ s_made[p] < STEAL_MSGS
    BY <1>0, <1>3 DEF Steal!PushCasOk, Steal!TypeOK, StealInv, Pushing
  <2>2. s_made[p] \in 0 .. STEAL_MSGS
    BY <1>0, <1>3 DEF Steal!TypeOK
  <2>3. s_made[p] + 1 \in 0 .. STEAL_MSGS
    BY <2>1, <2>2
  <2>4. s_stack' \in Seq(Nodes)
    BY <1>0, <1>3, <2>1, ConsElements DEF Steal!PushCasOk, Steal!TypeOK
  <2> QED BY <1>0, <1>3, <2>1, <2>3, <2>4 DEF Steal!PushCasOk, Steal!TypeOK
<1>4. ASSUME NEW p \in StealProducers, Steal!ProducerDone(p) PROVE (Steal!TypeOK)'
  <2>1. p \in AtWork /\ s_active = Cardinality(AtWork)
    BY <1>4 DEF Steal!ProducerDone, AtWork, StealInv
  <2>2. /\ s_active \in 0 .. Cardinality(StealProducers) /\ s_active > 0
        /\ Cardinality(StealProducers) \in Nat
    BY <2>1, AtWorkCount, FS_CardinalityType
  <2>3. s_active - 1 \in 0 .. Cardinality(StealProducers)
    BY <2>2
  <2>4. s_active' = s_active - 1 /\ s_pc' = [s_pc EXCEPT ![p] = "done"]
        /\ UNCHANGED <<s_head, s_next, s_live, s_node, s_made, s_count, final, s_stack, stolen>>
    BY <1>4 DEF Steal!ProducerDone
  <2>5. s_pc' \in [StealThreads -> {"new", "link", "push_cas", "steal", "read", "empty", "done"}]
    BY <1>0, <2>4 DEF Steal!TypeOK, StealThreads
  <2>6. s_active' \in 0 .. Steal!Cardinality(StealProducers)
    BY <2>3, <2>4, SameCardinality
  <2> QED BY <1>0, <2>4, <2>5, <2>6, Zenon DEF Steal!TypeOK, StealThreads
<1>5. ASSUME NEW c \in Consumers, Steal!Steal(c) PROVE (Steal!TypeOK)'
  BY <1>0, <1>5, EmptySeq DEF Steal!Steal, Steal!TypeOK
<1>6. ASSUME NEW c \in Consumers, Steal!DeleteNode(c) PROVE (Steal!TypeOK)'
  <2>1. s_next[s_node[c]] \in Nodes \cup {NULL} /\ Tail(stolen[c]) \in Seq(Nodes)
    BY <1>6, ThiefsNode, HeadTailProperties DEF Steal!DeleteNode
  <2>2. stolen' \in [Consumers -> Seq(Nodes)] /\ s_count' \in [Consumers -> Nat]
    BY <1>0, <1>6, <2>1 DEF Steal!DeleteNode, Steal!TypeOK
  <2> QED BY <1>0, <1>6, <2>1, <2>2 DEF Steal!DeleteNode, Steal!TypeOK
<1>7. ASSUME NEW c \in Consumers,
             Steal!StealNothing(c) \/ Steal!EmptyRetry(c) \/ Steal!EmptyFinal(c) \/ Steal!Finish(c)
      PROVE  (Steal!TypeOK)'
  BY <1>0, <1>7
  DEF Steal!StealNothing, Steal!EmptyRetry, Steal!EmptyFinal, Steal!Finish, Steal!TypeOK
<1> QED BY <1>1, <1>2, <1>3, <1>4, <1>5, <1>6, <1>7
        DEF Steal!Next, Steal!Produce, Steal!Consume

LEMMA PushingStep ==
  ASSUME StealInv, Steal!Next, NEW q \in StealProducers
  PROVE  Pushing(q)'
<1> USE StackAssumption, StealAssumption DEF StackAssumption, StealAssumption
<1>1. Steal!TypeOK /\ Pushing(q)
  BY DEF StealInv
<1>2. ASSUME NEW c \in Consumers, Steal!Consume(c) PROVE Pushing(q)'
  BY <1>1, <1>2, StealConsumeFrame DEF Pushing, StealThreads
<1>3. ASSUME NEW p \in StealProducers, Steal!Produce(p), p # q PROVE Pushing(q)'
  BY <1>1, <1>3, StealProduceFrame DEF Pushing, StealThreads
<1>4. ASSUME Steal!Produce(q) PROVE Pushing(q)'
  BY <1>1, <1>4
  DEF Steal!Produce, Steal!New, Steal!PushLink, Steal!PushCasOk, Steal!PushCasFail,
      Steal!ProducerDone, Steal!Goto, Steal!SetNode, Steal!TypeOK, Steal!Threads, Pushing
<1> QED BY <1>2, <1>3, <1>4 DEF Steal!Next

LEMMA DeletingStep ==
  ASSUME StealInv, Steal!Next, NEW d \in Consumers
  PROVE  Deleting(d)'
<1> USE StealAssumption DEF StealAssumption
<1>1. Steal!TypeOK /\ Deleting(d)
  BY DEF StealInv
<1>2. ASSUME NEW p \in StealProducers, Steal!Produce(p) PROVE Deleting(d)'
  BY <1>1, <1>2, StealProduceFrame DEF Deleting, StealThreads
<1>3. ASSUME NEW c \in Consumers, Steal!Consume(c), c # d PROVE Deleting(d)'
  BY <1>1, <1>3, StealConsumeFrame DEF Deleting, StealThreads
<1>4. CASE Steal!Steal(d)
  <2>1. s_stack # <<>>
    BY <1>4, ChainsRun DEF Steal!Steal, StealInv, RunsThrough
  <2> QED BY <1>1, <1>4, <2>1 DEF Steal!Steal, Steal!Goto, Steal!TypeOK, Steal!Threads, Deleting
<1>5. CASE Steal!DeleteNode(d)
  <2>1. s_next[s_node[d]] = NULL <=> Tail(stolen[d]) = <<>>
    BY <1>5, ThiefsNode DEF Steal!DeleteNode
  <2> QED BY <1>1, <1>5, <2>1
          DEF Steal!DeleteNode, Steal!Goto, Steal!TypeOK, Steal!Threads, Deleting
<1>6. CASE Steal!StealNothing(d) \/ Steal!EmptyRetry(d) \/ Steal!EmptyFinal(d) \/ Steal!Finish(d)
  BY <1>1, <1>6
  DEF Steal!StealNothing, Steal!EmptyRetry, Steal!EmptyFinal, Steal!Finish, Steal!Goto,
      Steal!TypeOK, Steal!Threads, Deleting
<1> QED BY <1>2, <1>3, <1>4, <1>5, <1>6 DEF Steal!Next, Steal!Consume

LEMMA AtWorkStep ==
  ASSUME StealInv, Steal!Next
  PROVE  s_active' = Cardinality(AtWork')
<1> USE StealAssumption DEF StealAssumption
<1>1. Steal!TypeOK /\ s_active = Cardinality(AtWork)
  BY DEF StealInv
<1>2. ASSUME NEW p \in StealProducers, Steal!ProducerDone(p) PROVE s_active' = Cardinality(AtWork')
  <2>1. p \in AtWork /\ s_active' = s_active - 1
    BY <1>2 DEF Steal!ProducerDone, AtWork
  <2>2. AtWork' = AtWork \ {p}
    BY <1>1, <1>2 DEF AtWork, Steal!ProducerDone, Steal!Goto, Steal!TypeOK, Steal!Threads
  <2> QED BY <1>1, <2>1, <2>2, AtWorkCount
<1>3. ASSUME NEW p \in StealProducers, Steal!Produce(p), ~Steal!ProducerDone(p)
      PROVE  s_active' = Cardinality(AtWork')
  <2>1. s_active' = s_active /\ s_pc[p] # "done" /\ s_pc'[p] # "done"
    BY <1>1, <1>3
    DEF Steal!Produce, Steal!New, Steal!PushLink, Steal!PushCasOk, Steal!PushCasFail,
        Steal!Goto, Steal!TypeOK, Steal!Threads
  <2>2. \A q \in StealProducers \ {p} : s_pc'[q] = s_pc[q]
    BY <1>1, <1>3, StealProduceFrame DEF StealThreads
  <2>3. AtWork' = AtWork
    BY <2>1, <2>2 DEF AtWork
  <2> QED BY <1>1, <2>1, <2>3
<1>4. ASSUME NEW c \in Consumers, Steal!Consume(c) PROVE s_active' = Cardinality(AtWork')
  <2>1. s_active' = s_active /\ \A q \in StealProducers : s_pc'[q] = s_pc[q]
    BY <1>1, <1>4, StealConsumeFrame DEF StealThreads
  <2>2. AtWork' = AtWork
    BY <2>1 DEF AtWork
  <2> QED BY <1>1, <2>1, <2>2
<1> QED BY <1>2, <1>3, <1>4 DEF Steal!Next

-----------------------------------------------------------------------------
(* Owners *)

LEMMA OwnedKept ==
  ASSUME Owned, UNCHANGED <<s_live, s_stack, stolen>>,
         \A p \in StealProducers : s_node'[p] = s_node[p]
  PROVE  Owned'
BY Zenon DEF Owned

LEMMA NewOwned ==
  ASSUME StealInv, NEW p \in StealProducers, Steal!New(p)
  PROVE  Owned'
<1> USE StackAssumption DEF StackAssumption
<1>1. Steal!TypeOK /\ Owned /\ s_node[p] = NULL
  BY DEF StealInv, Pushing, Steal!New
<1>2. PICK n \in Nodes \ s_live : s_live' = s_live \cup {n} /\ s_node' = [s_node EXCEPT ![p] = n]
  BY DEF Steal!New, Steal!SetNode
<1>3. s_stack' = s_stack /\ stolen' = stolen
  BY DEF Steal!New
<1>4. s_node'[p] = n /\ n # NULL /\ \A q \in StealProducers \ {p} : s_node'[q] = s_node[q]
  BY <1>1, <1>2 DEF Steal!TypeOK, Steal!Threads
<1>5. /\ ~InSeq(n, s_stack) /\ \A c \in Consumers : ~InSeq(n, stolen[c])
      /\ \A q \in StealProducers : s_node[q] # n
  BY <1>1, <1>2 DEF Owned
<1>6. \A m \in s_live' : \/ InSeq(m, s_stack)
                         \/ \E c \in Consumers : InSeq(m, stolen[c])
                         \/ \E q \in StealProducers : s_node'[q] = m
  <2> SUFFICES ASSUME NEW m \in s_live, ~InSeq(m, s_stack),
                      \A c \in Consumers : ~InSeq(m, stolen[c])
               PROVE  \E q \in StealProducers : s_node'[q] = m
    BY <1>2, <1>4
  <2>1. PICK q \in StealProducers : s_node[q] = m
    BY <1>1 DEF Owned
  <2>2. m # NULL
    BY <1>1 DEF Steal!TypeOK
  <2> QED BY <2>1, <2>2, <1>1, <1>4
<1> QED BY <1>1, <1>2, <1>3, <1>4, <1>5, <1>6 DEF Owned

LEMMA PushedOwned ==
  ASSUME StealInv, NEW p \in StealProducers, Steal!PushCasOk(p)
  PROVE  Owned'
<1> USE StackAssumption DEF StackAssumption
<1> DEFINE n == s_node[p]
<1>1. Steal!TypeOK /\ Owned /\ n # NULL /\ n \in Nodes
  BY DEF StealInv, Pushing, Steal!PushCasOk, Steal!TypeOK, Steal!Threads
<1>2. /\ s_live' = s_live /\ s_stack' = <<n>> \o s_stack /\ stolen' = stolen
      /\ s_node' = [s_node EXCEPT ![p] = NULL]
  BY DEF Steal!PushCasOk, Steal!SetNode
<1>3. s_node'[p] = NULL /\ \A q \in StealProducers \ {p} : s_node'[q] = s_node[q]
  BY <1>1, <1>2 DEF Steal!TypeOK, Steal!Threads
<1>4. /\ n \in s_live /\ ~InSeq(n, s_stack) /\ \A c \in Consumers : ~InSeq(n, stolen[c])
      /\ \A q \in StealProducers \ {p} : s_node[q] # n
  BY <1>1 DEF Owned
<1>5. (\A m : InSeq(m, s_stack') <=> m = n \/ InSeq(m, s_stack)) /\ IsDistinct(s_stack')
  BY <1>1, <1>2, <1>4, ConsMembers DEF Owned, Steal!TypeOK
<1> HIDE DEF n
<1>6. \A m \in s_live' : \/ InSeq(m, s_stack')
                         \/ \E c \in Consumers : InSeq(m, stolen[c])
                         \/ \E q \in StealProducers : s_node'[q] = m
  <2> SUFFICES ASSUME NEW m \in s_live, m # n, ~InSeq(m, s_stack),
                      \A c \in Consumers : ~InSeq(m, stolen[c])
               PROVE  \E q \in StealProducers : s_node'[q] = m
    BY <1>2, <1>5
  <2>1. PICK q \in StealProducers : s_node[q] = m
    BY <1>1 DEF Owned
  <2> QED BY <2>1, <1>3 DEF n
<1> QED BY <1>1, <1>2, <1>3, <1>4, <1>5, <1>6 DEF Owned

LEMMA StolenOwned ==
  ASSUME StealInv, NEW c \in Consumers, Steal!Steal(c)
  PROVE  Owned'
<1> USE StackAssumption, StealAssumption DEF StackAssumption, StealAssumption
<1>1. Steal!TypeOK /\ Owned /\ stolen[c] = <<>>
  BY DEF StealInv, Deleting, Steal!Steal
<1>2. /\ s_live' = s_live /\ s_stack' = <<>> /\ stolen'[c] = s_stack
      /\ \A d \in Consumers \ {c} : stolen'[d] = stolen[d]
      /\ \A p \in StealProducers : s_node'[p] = s_node[p]
  BY <1>1 DEF Steal!Steal, Steal!SetNode, Steal!TypeOK, Steal!Threads
<1>3. \A n : ~InSeq(n, <<>>)
  BY DEF InSeq
<1>4. IsDistinct(<<>>)
  BY DEF IsDistinct
<1>5. \A n : ~InSeq(n, s_stack') /\ ~InSeq(n, stolen[c])
  BY <1>1, <1>2, <1>3
<1>6. \A n, d : d \in Consumers /\ InSeq(n, stolen'[d]) =>
        (d = c /\ InSeq(n, s_stack)) \/ (d # c /\ InSeq(n, stolen[d]))
  BY <1>2
<1>7. ASSUME NEW p \in StealProducers, s_node'[p] # NULL
      PROVE  /\ s_node'[p] \in s_live' /\ ~InSeq(s_node'[p], s_stack')
             /\ \A d \in Consumers : ~InSeq(s_node'[p], stolen'[d])
             /\ \A q \in StealProducers : s_node'[q] = s_node'[p] => q = p
  BY <1>1, <1>2, <1>5, <1>6, <1>7 DEF Owned
<1>8. IsDistinct(s_stack') /\ \A d \in Consumers : IsDistinct(stolen'[d])
  BY <1>1, <1>2, <1>4 DEF Owned
<1>9. ASSUME NEW n \in Nodes, NEW d \in Consumers, InSeq(n, stolen'[d])
      PROVE  /\ n \in s_live' /\ ~InSeq(n, s_stack')
             /\ \A e \in Consumers : InSeq(n, stolen'[e]) => e = d
  BY <1>1, <1>2, <1>5, <1>6, <1>9 DEF Owned
<1>10. \A m \in s_live' : \/ InSeq(m, s_stack')
                          \/ \E d \in Consumers : InSeq(m, stolen'[d])
                          \/ \E p \in StealProducers : s_node'[p] = m
  <2> SUFFICES ASSUME NEW m \in s_live, \A p \in StealProducers : s_node[p] # m
               PROVE  \E d \in Consumers : InSeq(m, stolen'[d])
    BY <1>2
  <2>1. CASE InSeq(m, s_stack)
    BY <2>1, <1>2
  <2>2. CASE ~InSeq(m, s_stack)
    <3>1. PICK d \in Consumers : InSeq(m, stolen[d])
      BY <2>2, <1>1 DEF Owned
    <3> QED BY <3>1, <1>2, <1>5
  <2> QED BY <2>1, <2>2
<1> QED BY <1>5, <1>7, <1>8, <1>9, <1>10 DEF Owned

LEMMA DeletedOwned ==
  ASSUME StealInv, NEW c \in Consumers, Steal!DeleteNode(c)
  PROVE  Owned'
<1> USE StackAssumption, StealAssumption DEF StackAssumption, StealAssumption
<1> DEFINE n == s_node[c]
<1>1. Steal!TypeOK /\ Owned
  BY DEF StealInv
<1>2. /\ s_live' = s_live \ {n} /\ s_stack' = s_stack /\ stolen'[c] = Tail(stolen[c])
      /\ \A d \in Consumers \ {c} : stolen'[d] = stolen[d]
      /\ \A p \in StealProducers : s_node'[p] = s_node[p]
  BY <1>1 DEF Steal!DeleteNode, Steal!SetNode, Steal!TypeOK, Steal!Threads
<1>3. stolen[c] # <<>> /\ stolen[c] \in Seq(Nodes) /\ n = stolen[c][1] /\ n \in Nodes
  BY ThiefsNode DEF Steal!DeleteNode
<1> HIDE DEF n
<1>4. /\ \A m : InSeq(m, stolen'[c]) <=> InSeq(m, stolen[c]) /\ m # n
      /\ IsDistinct(stolen'[c]) /\ InSeq(n, stolen[c])
  BY <1>1, <1>2, <1>3, TailMembers DEF Owned
<1>5. /\ ~InSeq(n, s_stack) /\ \A d \in Consumers \ {c} : ~InSeq(n, stolen[d])
      /\ \A p \in StealProducers : s_node[p] = n => FALSE
  <2>1. \A p \in StealProducers : s_node[p] # n
    BY <1>1, <1>3, <1>4 DEF Owned
  <2> QED BY <2>1, <1>1, <1>3, <1>4 DEF Owned
<1>6. \A m, d : d \in Consumers /\ InSeq(m, stolen'[d]) => InSeq(m, stolen[d]) /\ m # n
  BY <1>2, <1>4, <1>5
<1>7. ASSUME NEW p \in StealProducers, s_node'[p] # NULL
      PROVE  /\ s_node'[p] \in s_live' /\ ~InSeq(s_node'[p], s_stack')
             /\ \A d \in Consumers : ~InSeq(s_node'[p], stolen'[d])
             /\ \A q \in StealProducers : s_node'[q] = s_node'[p] => q = p
  BY <1>1, <1>2, <1>5, <1>6, <1>7 DEF Owned
<1>8. IsDistinct(s_stack') /\ \A d \in Consumers : IsDistinct(stolen'[d])
  BY <1>1, <1>2, <1>4 DEF Owned
<1>9. ASSUME NEW m \in Nodes, NEW d \in Consumers, InSeq(m, stolen'[d])
      PROVE  /\ m \in s_live' /\ ~InSeq(m, s_stack')
             /\ \A e \in Consumers : InSeq(m, stolen'[e]) => e = d
  BY <1>1, <1>2, <1>6, <1>9 DEF Owned
<1>10. \A m \in s_live' : \/ InSeq(m, s_stack')
                          \/ \E d \in Consumers : InSeq(m, stolen'[d])
                          \/ \E p \in StealProducers : s_node'[p] = m
  <2> SUFFICES ASSUME NEW m \in s_live, m # n, ~InSeq(m, s_stack),
                      \A p \in StealProducers : s_node[p] # m
               PROVE  \E d \in Consumers : InSeq(m, stolen'[d])
    BY <1>2
  <2>1. PICK d \in Consumers : InSeq(m, stolen[d])
    BY <1>1 DEF Owned
  <2>2. InSeq(m, stolen'[d])
    BY <2>1, <1>2, <1>4
  <2> QED BY <2>2
<1>11. \A m \in Nodes : InSeq(m, s_stack') => m \in s_live'
  BY <1>1, <1>2, <1>5 DEF Owned
<1> QED BY <1>7, <1>8, <1>9, <1>10, <1>11 DEF Owned

LEMMA OwnedStep ==
  ASSUME StealInv, Steal!Next
  PROVE  Owned'
<1> USE StealAssumption DEF StealAssumption
<1>1. Steal!TypeOK /\ Owned
  BY DEF StealInv
<1>2. ASSUME NEW p \in StealProducers,
             Steal!PushLink(p) \/ Steal!PushCasFail(p) \/ Steal!ProducerDone(p)
      PROVE  Owned'
  BY <1>1, <1>2, OwnedKept DEF Steal!PushLink, Steal!PushCasFail, Steal!ProducerDone
<1>3. ASSUME NEW c \in Consumers,
             Steal!StealNothing(c) \/ Steal!EmptyRetry(c) \/ Steal!EmptyFinal(c) \/ Steal!Finish(c)
      PROVE  Owned'
  BY <1>1, <1>3, OwnedKept
  DEF Steal!StealNothing, Steal!EmptyRetry, Steal!EmptyFinal, Steal!Finish
<1> QED BY <1>2, <1>3, NewOwned, PushedOwned, StolenOwned, DeletedOwned
        DEF Steal!Next, Steal!Produce, Steal!Consume

-----------------------------------------------------------------------------
(* Chains *)

LEMMA StealChainStep ==
  ASSUME StealInv, Steal!Next
  PROVE  (Steal!ChainsIntact)'
<1> USE StealAssumption DEF StealAssumption
<1>1. /\ Steal!TypeOK /\ Owned
      /\ RunsThrough(s_next, s_head, s_stack) /\ s_stack \in Seq(Nodes)
      /\ \A c \in Consumers :
           RunsThrough(s_next, s_node[c], stolen[c]) /\ stolen[c] \in Seq(Nodes)
  BY ChainsRun DEF StealInv, Steal!TypeOK
<1> SUFFICES /\ RunsThrough(s_next', s_head', s_stack')
             /\ \A c \in Consumers : RunsThrough(s_next', s_node'[c], stolen'[c])
  BY ChainsRun
<1>2. ASSUME NEW p \in StealProducers, Steal!Produce(p)
      PROVE  /\ RunsThrough(s_next', s_head', s_stack')
             /\ \A c \in Consumers : RunsThrough(s_next', s_node'[c], stolen'[c])
  <2>1. stolen' = stolen /\ \A c \in Consumers : s_node'[c] = s_node[c]
    BY <1>1, <1>2, StealProduceFrame DEF StealThreads
  <2>2. CASE Steal!New(p) \/ Steal!ProducerDone(p)
    BY <1>1, <2>1, <2>2 DEF Steal!New, Steal!ProducerDone
  <2>3. CASE Steal!PushLink(p) \/ Steal!PushCasFail(p)
    <3>1. s_head' = s_head /\ s_stack' = s_stack
          /\ \A n \in Nodes \ {s_node[p]} : s_next'[n] = s_next[n]
      BY <1>1, <1>2, <2>3, StealProduceFrame DEF Steal!PushLink, Steal!PushCasFail
    <3>2. s_node[p] # NULL
      BY <2>3 DEF StealInv, Pushing, Steal!PushLink, Steal!PushCasFail
    <3>3. /\ ~InSeq(s_node[p], s_stack)
          /\ \A c \in Consumers : ~InSeq(s_node[p], stolen[c])
      BY <3>2, <1>1 DEF Owned
    <3>4. RunsThrough(s_next', s_head, s_stack)
      <4>1. \A n \in Nodes : InSeq(n, s_stack) => s_next'[n] = s_next[n]
        BY <3>1, <3>3
      <4> QED BY <4>1, <1>1, SameLinks
    <3>5. ASSUME NEW c \in Consumers PROVE RunsThrough(s_next', s_node[c], stolen[c])
      <4>1. \A n \in Nodes : InSeq(n, stolen[c]) => s_next'[n] = s_next[n]
        BY <3>1, <3>3
      <4> QED BY <4>1, <1>1, SameLinks
    <3> QED BY <3>1, <3>4, <3>5, <2>1
  <2>4. CASE Steal!PushCasOk(p)
    <3>1. /\ s_next' = s_next /\ s_head' = s_node[p] /\ s_stack' = <<s_node[p]>> \o s_stack
          /\ s_next[s_node[p]] = s_head
      BY <2>4 DEF Steal!PushCasOk
    <3>2. s_node[p] \in Nodes
      BY <2>4 DEF StealInv, Pushing, Steal!PushCasOk, Steal!TypeOK, Steal!Threads
    <3>3. RunsThrough(s_next, s_node[p], <<s_node[p]>> \o s_stack)
      BY <3>1, <3>2, <1>1, LinkInFront
    <3> QED BY <3>1, <3>3, <2>1, <1>1
  <2> QED BY <1>2, <2>2, <2>3, <2>4 DEF Steal!Produce
<1>3. ASSUME NEW c \in Consumers, Steal!Consume(c)
      PROVE  /\ RunsThrough(s_next', s_head', s_stack')
             /\ \A d \in Consumers : RunsThrough(s_next', s_node'[d], stolen'[d])
  <2>1. s_next' = s_next
        /\ \A d \in Consumers \ {c} : s_node'[d] = s_node[d] /\ stolen'[d] = stolen[d]
    BY <1>1, <1>3, StealConsumeFrame DEF StealThreads
  <2>2. CASE Steal!Steal(c)
    <3>1. /\ s_head' = NULL /\ s_stack' = <<>>
          /\ s_node'[c] = s_head /\ stolen'[c] = s_stack
      BY <2>2, <1>1 DEF Steal!Steal, Steal!SetNode, Steal!TypeOK, Steal!Threads
    <3>2. RunsThrough(s_next, NULL, <<>>)
      BY DEF RunsThrough
    <3> QED BY <3>1, <3>2, <2>1, <1>1
  <2>3. CASE Steal!DeleteNode(c)
    <3>1. /\ s_head' = s_head /\ s_stack' = s_stack
          /\ s_node'[c] = s_next[s_node[c]] /\ stolen'[c] = Tail(stolen[c])
      BY <2>3, <1>1 DEF Steal!DeleteNode, Steal!SetNode, Steal!TypeOK, Steal!Threads
    <3>2. RunsThrough(s_next, s_next[s_node[c]], Tail(stolen[c]))
      BY <2>3, ThiefsNode DEF Steal!DeleteNode
    <3> QED BY <3>1, <3>2, <2>1, <1>1
  <2>4. CASE Steal!StealNothing(c) \/ Steal!EmptyRetry(c) \/ Steal!EmptyFinal(c) \/ Steal!Finish(c)
    <3>1. UNCHANGED <<s_head, s_stack, s_node, stolen>>
      BY <2>4 DEF Steal!StealNothing, Steal!EmptyRetry, Steal!EmptyFinal, Steal!Finish
    <3> QED BY <3>1, <2>1, <1>1
  <2> QED BY <1>3, <2>2, <2>3, <2>4 DEF Steal!Consume
<1> QED BY <1>2, <1>3 DEF Steal!Next

-----------------------------------------------------------------------------
(* Results *)

LEMMA StealInitially == Steal!Init => StealInv
<1> SUFFICES ASSUME Steal!Init PROVE StealInv
  OBVIOUS
<1> USE StackAssumption, StealAssumption DEF StackAssumption, StealAssumption
<1>1. AtWork = StealProducers
  BY DEF AtWork, Steal!Init, Steal!Threads
<1>2. s_active = Cardinality(StealProducers) /\ Cardinality(StealProducers) \in Nat
  BY SameCardinality, FS_CardinalityType DEF Steal!Init
<1>3. Steal!TypeOK
  BY <1>2, SameCardinality, EmptySeq DEF Steal!Init, Steal!TypeOK, Steal!Threads
<1>4. \A p \in StealProducers : Pushing(p)
  BY DEF Steal!Init, Steal!Threads, Pushing
<1>5. \A c \in Consumers : Deleting(c)
  BY DEF Steal!Init, Steal!Threads, Deleting
<1>6. \A n : ~InSeq(n, <<>>)
  BY DEF InSeq
<1>7. Owned
  <2>1. IsDistinct(<<>>)
    BY DEF IsDistinct
  <2> QED BY <2>1, <1>6 DEF Owned, Steal!Init, Steal!Threads
<1>8. Steal!ChainsIntact
  BY DEF Steal!Init, Steal!Threads, Steal!ChainsIntact, Steal!Chain
<1> QED BY <1>1, <1>2, <1>3, <1>4, <1>5, <1>7, <1>8 DEF StealInv

LEMMA StealInductive == StealInv /\ [Steal!Next]_svars => StealInv'
<1> SUFFICES ASSUME StealInv, [Steal!Next]_svars PROVE StealInv'
  OBVIOUS
<1>1. CASE Steal!Next
  BY <1>1, StealTypeStep, PushingStep, DeletingStep, AtWorkStep, OwnedStep, StealChainStep
  DEF StealInv
<1>2. CASE UNCHANGED svars
  <2>1. (Steal!TypeOK)' /\ (Steal!ChainsIntact)'
    BY <1>2 DEF svars, StealInv, Steal!TypeOK, Steal!ChainsIntact, Steal!Chain
  <2>2. Owned'
    BY <1>2, OwnedKept DEF svars, StealInv
  <2> QED BY <1>2, <2>1, <2>2 DEF svars, StealInv, Pushing, Deleting, AtWork
<1> QED BY <1>1, <1>2

LEMMA StealOwnersOf ==
  ASSUME StealInv, NEW n \in Nodes
  PROVE  Cardinality(Steal!Owners(n)) = (IF n \in s_live THEN 1 ELSE 0)
<1>1. Owned /\ n # NULL
  BY StackAssumption DEF StealInv, StackAssumption
<1> DEFINE P == {p \in StealProducers : s_node[p] = n}
           C == {c \in Consumers : InSeq(n, stolen[c])}
           S == {s \in {"stack"} : InSeq(n, s_stack)}
<1>2. Steal!Owners(n) = P \cup C \cup S
  BY DEF Steal!Owners, Steal!InSeq, InSeq
<1>3. ASSUME n \notin s_live PROVE Steal!Owners(n) = {}
  <2>1. P = {} /\ C = {} /\ S = {}
    BY <1>1, <1>3 DEF Owned
  <2> QED BY <2>1, <1>2
<1>4. ASSUME InSeq(n, s_stack) PROVE n \in s_live /\ Steal!Owners(n) = {"stack"}
  <2>1. n \in s_live /\ P = {} /\ C = {} /\ S = {"stack"}
    BY <1>1, <1>4 DEF Owned
  <2> QED BY <2>1, <1>2
<1>5. ASSUME NEW c \in Consumers, InSeq(n, stolen[c]) PROVE n \in s_live /\ Steal!Owners(n) = {c}
  <2>1. n \in s_live /\ P = {} /\ C = {c} /\ S = {}
    BY <1>1, <1>5 DEF Owned
  <2> QED BY <2>1, <1>2
<1>6. ASSUME NEW p \in StealProducers, s_node[p] = n PROVE n \in s_live /\ Steal!Owners(n) = {p}
  <2>1. n \in s_live /\ P = {p} /\ C = {} /\ S = {}
    BY <1>1, <1>6 DEF Owned
  <2> QED BY <2>1, <1>2
<1>7. n \in s_live => \E o : Steal!Owners(n) = {o}
  BY <1>1, <1>4, <1>5, <1>6 DEF Owned
<1> QED BY <1>3, <1>7, FS_EmptySet, FS_Singleton

\* Neither stack's step touches the variables of the other.
LEMMA BothInductive ==
  ~StoreBuffered /\ Inv /\ StealInv /\ [MCNext]_allvars => Inv' /\ StealInv'
<1> SUFFICES ASSUME ~StoreBuffered, Inv, StealInv, [MCNext]_allvars PROVE Inv' /\ StealInv'
  OBVIOUS
<1>1. [Next]_vars /\ [Steal!Next]_svars
  BY DEF MCNext, Runs, allvars
<1> QED BY <1>1, Inductive, StealInductive

THEOREM BothInvariant == ASSUME ~StoreBuffered PROVE MCSpec => [](Inv /\ StealInv)
<1>1. MCInit => Inv /\ StealInv
  BY Initially, StealInitially DEF MCInit
<1>2. Inv /\ StealInv /\ [MCNext]_allvars => (Inv /\ StealInv)'
  BY BothInductive
<1> QED BY <1>1, <1>2, PTL DEF MCSpec

\* Both stacks of Day 33: the C++ push compares bare addresses, which are reused, yet the
\* stack and every stolen chain hold exactly the nodes pushed, and every allocated node
\* has exactly one owner.
THEOREM StacksSound == ASSUME ~StoreBuffered PROVE MCSpec => []StatesSound
<1>1. StealInv => Steal!OneOwner
  BY StealOwnersOf, SameCardinality DEF Steal!OneOwner
<1>2. Inv /\ StealInv => StatesSound
  BY <1>1 DEF Inv, StealInv, StatesSound
<1> QED BY <1>2, BothInvariant, PTL
=============================================================================
