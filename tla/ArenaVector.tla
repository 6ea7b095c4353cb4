---------------------------- MODULE ArenaVector -----------------------------
(***************************************************************************)
(* The vector of Day 27 (Allocators.c; Allocators.cpp does the same with   *)
(* memory resources) on its arena: the vector grows into a block of twice  *)
(* the size and copies, the arena only bumps its offset, and other blocks  *)
(* of any alignment are taken from the same arena.  Memory is the array of *)
(* bytes' values; an int is written to all of its bytes.                   *)
(***************************************************************************)
EXTENDS Integers, Sequences, FiniteSets

CONSTANTS CAPACITY,        \* of the arena, in bytes
          INT,             \* sizeof(int) and _Alignof(int)
          FIRST_CAPACITY,  \* of the vector when it first grows
          Requests,        \* <<size, align>> that others ask for
          Vals

ArenaAssumption ==
  /\ CAPACITY \in Nat /\ INT \in Nat \ {0} /\ FIRST_CAPACITY \in Nat \ {0}
  /\ \A r \in Requests : r[1] \in Nat /\ r[2] \in Nat \ {0}

NULL == -1

VARIABLES offset,          \* of the arena
          mem,             \* the value of every byte
          data, size, capacity,       \* the CustomVector
          taken,           \* the <<address, size>> of the blocks others hold
          pushed           \* history: what vec_push_back accepted

vars == <<offset, mem, data, size, capacity, taken, pushed>>

Init ==
  /\ offset = 0 /\ mem = [a \in 0 .. CAPACITY - 1 |-> 0]
  /\ data = NULL /\ size = 0 /\ capacity = 0
  /\ taken = {} /\ pushed = <<>>

aligned(align) == ((offset + align - 1) \div align) * align    \* the buffer is page-aligned

\* Slip: a faulty form of Bumped; not part of Next.
PaddingForgotten(n, align) == offset + n

\* The offset after arena_alloc; beyond CAPACITY it returns NULL instead.
Bumped(n, align) == aligned(align) + n

Ints(m, a, s) == [x \in DOMAIN m |->
  IF a <= x /\ x < a + INT * Len(s) THEN s[(x - a) \div INT + 1] ELSE m[x]]

Contents == [i \in 1 .. size |-> mem[data + INT * (i - 1)]]

-----------------------------------------------------------------------------
Push(v) ==                              \* room is left
  /\ size < capacity
  /\ mem' = Ints(mem, data + INT * size, <<v>>)
  /\ size' = size + 1
  /\ pushed' = Append(pushed, v)
  /\ UNCHANGED <<offset, data, capacity, taken>>

GrowAndPush(v) ==
  LET cap == IF capacity = 0 THEN FIRST_CAPACITY ELSE 2 * capacity
      new == aligned(INT)
  IN  /\ size >= capacity
      /\ Bumped(INT * cap, INT) <= CAPACITY       \* else false: the vector is as before
      /\ offset' = Bumped(INT * cap, INT)
      /\ mem' = Ints(mem, new, Append(Contents, v))
      /\ data' = new /\ capacity' = cap /\ size' = size + 1
      /\ pushed' = Append(pushed, v)
      /\ UNCHANGED taken

Destroy ==                              \* arena_free keeps the bytes
  /\ data' = NULL /\ size' = 0 /\ capacity' = 0 /\ pushed' = <<>>
  /\ UNCHANGED <<offset, mem, taken>>

\* Another block is taken, and filled with zeros.
Take(n, align) ==
  LET a == aligned(align)
  IN  /\ Bumped(n, align) <= CAPACITY
      /\ offset' = Bumped(n, align)
      /\ mem' = [x \in DOMAIN mem |-> IF a <= x /\ x < a + n THEN 0 ELSE mem[x]]
      /\ taken' = taken \cup {<<a, n>>}
      /\ UNCHANGED <<data, size, capacity, pushed>>

Next ==
  \/ Destroy
  \/ \E v \in Vals : Push(v) \/ GrowAndPush(v)
  \/ \E r \in Requests : Take(r[1], r[2])

Spec == Init /\ [][Next]_vars
-----------------------------------------------------------------------------
\* Through growth, failed growth and blocks taken in between, the vector holds what
\* was pushed, in aligned ints inside the arena that no other block overlaps.
VectorIntact ==
  LET mine == IF data = NULL THEN {} ELSE {<<data, INT * capacity>>}
  IN  /\ Contents = pushed
      /\ size <= capacity
      /\ \A b \in taken \cup mine : b[1] >= 0 /\ b[1] + b[2] <= offset /\ offset <= CAPACITY
      /\ \A b, d \in taken \cup mine :
           b # d => b[1] + b[2] <= d[1] \/ d[1] + d[2] <= b[1]
      /\ \A b \in mine : b[1] % INT = 0
=============================================================================
