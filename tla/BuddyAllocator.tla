--------------------------- MODULE BuddyAllocator ---------------------------
(***************************************************************************)
(* The buddy allocator of Day 9 (buddy_alloc.c; buddy_alloc.cpp is the     *)
(* same): blocks of 2^order bytes, each with a header at its start, and a  *)
(* free list per order.  An address is an offset into the pool.            *)
(*                                                                         *)
(* Whoever gets a block may write all of it: the headers it hides then     *)
(* hold what looks most like a free block, of any order (Scribble).        *)
(***************************************************************************)
EXTENDS Integers, Sequences, FiniteSets

CONSTANTS HEADER,          \* sizeof(BlockHeader)
          POOL_SIZE, MIN_BLOCK_SIZE,
          Sizes            \* the sizes asked for

ASSUME BuddyAssumption ==
  /\ HEADER \in Nat \ {0} /\ MIN_BLOCK_SIZE > HEADER
  /\ POOL_SIZE >= MIN_BLOCK_SIZE
  /\ Sizes \subseteq Nat

log2_ceil(n) == CHOOSE k \in 0 .. n : 2^k >= n /\ (k = 0 \/ 2^(k - 1) < n)
min_order == log2_ceil(MIN_BLOCK_SIZE)
max_order == log2_ceil(POOL_SIZE)
Orders    == min_order .. max_order
Offsets   == {i * 2^min_order : i \in 0 .. 2^(max_order - min_order) - 1}

VARIABLES header,          \* what a BlockHeader at each offset would hold
          free_lists,      \* the list of every order, head first
          live             \* the <<offset, size>> handed out and not freed

vars == <<header, free_lists, live>>

Init ==
  /\ \E k \in Orders :     \* the pool is not cleared
       header = [[b \in Offsets |-> [order |-> k, is_free |-> TRUE]] EXCEPT ![0].order = max_order]
  /\ free_lists = [k \in Orders |-> IF k = max_order THEN <<0>> ELSE <<>>]
  /\ live = {}

Inside(b, k) == {o \in Offsets : b < o /\ o < b + 2^k}
Buddy(b, k)  == IF (b \div 2^k) % 2 = 0 THEN b + 2^k ELSE b - 2^k      \* b ^ 2^k

-----------------------------------------------------------------------------
Required(size) ==
  LET k == log2_ceil(size + HEADER) IN IF k < min_order THEN min_order ELSE k

\* The first list from the required order on that has a block.
Source(k) == CHOOSE i \in Orders : 
  /\ i >= k /\ free_lists[i] # <<>>
  /\ \A j \in k .. i - 1 : free_lists[j] = <<>>

\* The block is halved down to order k; the upper halves are free.
buddy_alloc(size) ==
  LET k == Required(size)
      i == Source(k)
      b == Head(free_lists[i])
      halves == {b + 2^j : j \in k .. i - 1}
  IN  /\ \E j \in Orders : j >= k /\ free_lists[j] # <<>>      \* else NULL
      /\ free_lists' = [j \in Orders |->
           IF j = i THEN Tail(free_lists[i])
           ELSE IF k <= j /\ j < i THEN <<b + 2^j>> \o free_lists[j] ELSE free_lists[j]]
      /\ \E scribble \in Orders :
           header' = [o \in Offsets |->
             IF o = b THEN [order |-> k, is_free |-> FALSE]
             ELSE IF o \in halves THEN [order |-> log2_ceil(o - b), is_free |-> TRUE]
             ELSE IF o \in Inside(b, k) THEN [order |-> scribble, is_free |-> TRUE]
             ELSE header[o]]
      /\ live' = live \cup {<<b, size>>}

\* Slips: faulty forms of the definitions that follow them; not part of Next.
JoinsSplit(b, k) == header[Buddy(b, k)].is_free        \* whatever its order

\* Whether the block at b, grown to order k, joins its buddy.
Joins(b, k) == header[Buddy(b, k)].is_free /\ header[Buddy(b, k)].order = k

\* The block climbs as long as its buddy is a free block of its order; the lower
\* of two that join carries the header on.
buddy_free(b) ==
  LET k     == header[b].order
      At(j) == (b \div 2^j) * 2^j               \* the block at order j
      top   == CHOOSE m \in k .. max_order :
                 /\ \A j \in k .. m - 1 : Joins(At(j), j)
                 /\ m < max_order => ~Joins(At(m), m)
      last(o) == CHOOSE j \in k .. top : At(j) = o /\ (j = top \/ At(j + 1) # o)
  IN  /\ free_lists' = [j \in Orders |->
           LET rest == SelectSeq(free_lists[j], LAMBDA o : j < k \/ j >= top \/ o # Buddy(At(j), j))
           IN  IF j = top THEN <<At(top)>> \o rest ELSE rest]
      /\ header' = [o \in Offsets |->
           IF \E j \in k .. top : o = At(j) THEN [order |-> last(o), is_free |-> TRUE]
           ELSE header[o]]
      /\ live' = {l \in live : l[1] # b}

Next ==
  \/ \E size \in Sizes : buddy_alloc(size)
  \/ \E l \in live : buddy_free(l[1])

Spec == Init /\ [][Next]_vars
-----------------------------------------------------------------------------
(* Properties *)

Free(k)  == {free_lists[k][i] : i \in DOMAIN free_lists[k]}
Blocks   == UNION {Free(k) \X {k} : k \in Orders} \cup {<<l[1], header[l[1]].order>> : l \in live}
Extent(x) == x[1] .. x[1] + 2^x[2] - 1

\* Blocks in the lists and blocks handed out fill the pool without overlap, however
\* the bytes between them read; what is handed out holds the size asked for; and no
\* two buddies of one order are both free: when all is freed, one block is left.
BuddiesSound ==
  /\ \A x, y \in Blocks : x # y => Extent(x) \cap Extent(y) = {}
  /\ UNION {Extent(x) : x \in Blocks} = 0 .. 2^max_order - 1
  /\ \A k \in Orders : Cardinality(Free(k)) = Len(free_lists[k])
  /\ \A k \in Orders : \A b \in Free(k) :
       /\ header[b] = [order |-> k, is_free |-> TRUE]
       /\ k < max_order => Buddy(b, k) \notin Free(k)
  /\ \A l \in live : ~header[l[1]].is_free /\ HEADER + l[2] <= 2^header[l[1]].order
=============================================================================
