----------------------------- MODULE FreeLists ------------------------------
(***************************************************************************)
(* The two free lists of Day 23, each in a program of its own.             *)
(*                                                                         *)
(* The first-fit allocator (freelist.c): a pool of blocks with a header    *)
(* each, and one list of the free ones in address order, split on          *)
(* allocation and merged with their neighbours when freed.  An address is  *)
(* an offset into the pool.                                                *)
(*                                                                         *)
(* The object pools (Entity_ObjPool.c, and ObjectPool of                   *)
(* Entity_ObjectPool.cpp): slots on a free list that runs through the      *)
(* slots themselves, and a flag per slot that refuses a second free.  An   *)
(* entity shares its slot with the link, so its owner overwrites it.       *)
(***************************************************************************)
EXTENDS Integers, Sequences, FiniteSets, SequencesExt

CONSTANTS HEADER,          \* sizeof(FreeBlock)
          ALIGNMENT,       \* alignof(max_align_t)
          POOL_SIZE,
          Requests,        \* the sizes asked for
          NUM_ALLOCATION   \* the slots of the object pool

FreeListsAssumption ==
  /\ ALIGNMENT \in Nat \ {0} /\ HEADER \in Nat \ {0} /\ POOL_SIZE \in Nat
  /\ HEADER % ALIGNMENT = 0 /\ POOL_SIZE % ALIGNMENT = 0 /\ POOL_SIZE > HEADER
  /\ Requests \subseteq Nat
  /\ NUM_ALLOCATION \in Nat \ {0}

VARIABLES free_list,       \* the offsets of the free blocks
          size,            \* the size field of every header
          live,            \* the payloads handed out and not freed
          stale,           \* the payloads that were freed and not handed out again
          accepted         \* history: a stale payload was freed once more, and accepted

VARIABLES next,            \* the link of every slot, or what an entity left there
          in_use, freelist,
          owned            \* the slots whose entity somebody holds

fit_vars  == <<free_list, size, live, stale, accepted>>
pool_vars == <<next, in_use, freelist, owned>>
vars      == <<fit_vars, pool_vars>>

-----------------------------------------------------------------------------
(* The first-fit allocator *)

Offsets == {i * ALIGNMENT : i \in 0 .. POOL_SIZE \div ALIGNMENT - 1}
align_up(n) == ((n + ALIGNMENT - 1) \div ALIGNMENT) * ALIGNMENT

FitInit ==
  /\ free_list = <<0>>
  /\ size = [b \in Offsets |-> IF b = 0 THEN POOL_SIZE - HEADER ELSE 0]
  /\ live = {} /\ stale = {} /\ accepted = FALSE

End(sizes, b) == b + HEADER + sizes[b]

-----------------------------------------------------------------------------
\* The first block that is large enough, split if the rest can be a block.
free_list_alloc(requested) ==
  LET n    == align_up(requested)
      fits == {i \in DOMAIN free_list : size[free_list[i]] >= n}
      i    == CHOOSE x \in fits : \A y \in fits : x <= y
      b    == free_list[i]
      rest == size[b] - n
      new  == b + HEADER + n
  IN  /\ requested > 0 /\ fits # {}                       \* else NULL
      /\ IF rest >= HEADER + ALIGNMENT
         THEN /\ free_list' = [free_list EXCEPT ![i] = new]
              /\ size' = [size EXCEPT ![b] = n, ![new] = rest - HEADER]
         ELSE /\ free_list' = RemoveAt(free_list, i)
              /\ UNCHANGED size
      /\ live' = live \cup {b + HEADER}
      /\ stale' = stale \ {b + HEADER}
      /\ UNCHANGED accepted

\* In front of the first block that does not lie before b.
insert_free_block(list, b) ==
  LET place == CHOOSE i \in 1 .. Len(list) + 1 :
                 /\ \A j \in 1 .. i - 1 : list[j] < b
                 /\ i <= Len(list) => list[i] >= b
  IN  InsertAt(list, place, b)

\* Slips: faulty forms of the definitions that follow them; not part of Next.
HeaderForgotten(list, sizes) ==                           \* the merged header is lost
  FoldLeft(LAMBDA acc, b :
             IF acc.list # <<>> /\ End(acc.size, Last(acc.list)) = b
             THEN [acc EXCEPT !.size[Last(acc.list)] = @ + acc.size[b]]
             ELSE [acc EXCEPT !.list = Append(@, b)],
           [list |-> <<>>, size |-> sizes], list)

\* One pass: a block takes in those that follow it without a gap.
coalesce(list, sizes) ==
  FoldLeft(LAMBDA acc, b :
             IF acc.list # <<>> /\ End(acc.size, Last(acc.list)) = b
             THEN [acc EXCEPT !.size[Last(acc.list)] = @ + HEADER + acc.size[b]]
             ELSE [acc EXCEPT !.list = Append(@, b)],
           [list |-> <<>>, size |-> sizes], list)

is_already_free(b) == Contains(free_list, b)

\* free_list_free, past its checks that p is a payload of the pool.
Return(b) ==
  LET merged == coalesce(insert_free_block(free_list, b), size)
  IN  free_list' = merged.list /\ size' = merged.size

free_list_free(p) ==
  /\ ~is_already_free(p - HEADER)
  /\ Return(p - HEADER)
  /\ live' = live \ {p} /\ stale' = stale \cup {p}
  /\ UNCHANGED accepted

\* A payload is freed that was freed before.
FreeAgain(p) ==
  /\ IF is_already_free(p - HEADER) THEN UNCHANGED <<free_list, size, accepted>>
     ELSE Return(p - HEADER) /\ accepted' = TRUE
  /\ UNCHANGED <<live, stale>>

FitNext ==
  \/ \E n \in Requests : free_list_alloc(n)
  \/ \E p \in live : free_list_free(p)

\* The test at the end of main, at any time.
FitNextFreesAgain == FitNext \/ (~accepted /\ \E p \in stale : FreeAgain(p))

-----------------------------------------------------------------------------
(* The object pool *)

Slots == 1 .. NUM_ALLOCATION
NULL  == 0
Linked == [s \in Slots |-> IF s = NUM_ALLOCATION THEN NULL ELSE s + 1]

PoolInit ==
  /\ next = Linked /\ in_use = [s \in Slots |-> FALSE] /\ freelist = 1
  /\ owned = {}

Alloc ==                                \* and the owner's first write
  /\ freelist # NULL
  /\ freelist' = next[freelist]
  /\ in_use' = [in_use EXCEPT ![freelist] = TRUE]
  /\ \E x \in Slots \cup {NULL} : next' = [next EXCEPT ![freelist] = x]
  /\ owned' = owned \cup {freelist}

Free(s) ==                              \* by its owner, or once more
  IF ~in_use[s] THEN UNCHANGED pool_vars
  ELSE /\ in_use' = [in_use EXCEPT ![s] = FALSE]
       /\ next' = [next EXCEPT ![s] = freelist]
       /\ freelist' = s
       /\ owned' = owned \ {s}

Reset ==                                \* nobody may use an entity of before
  /\ next' = Linked /\ in_use' = [s \in Slots |-> FALSE] /\ freelist' = 1
  /\ owned' = {}

PoolNext == Alloc \/ Reset \/ \E s \in Slots : Free(s)

-----------------------------------------------------------------------------
Init == FitInit /\ PoolInit
Next == (FitNext /\ UNCHANGED pool_vars) \/ (PoolNext /\ UNCHANGED fit_vars)
Spec == Init /\ [][Next]_vars

SpecFreesAgain == Init /\ [][FitNextFreesAgain /\ UNCHANGED pool_vars]_vars
-----------------------------------------------------------------------------
(* Properties *)

FreeBlocks == ToSet(free_list)
Blocks     == FreeBlocks \cup {p - HEADER : p \in live}
Extent(b)  == b .. End(size, b) - 1

\* Free blocks and blocks handed out fill the pool without overlap; the list is in
\* address order; and two free blocks never touch, so that what was split is whole
\* again however the frees were ordered.
PoolTiled ==
  /\ \A a, b \in Blocks : a # b => Extent(a) \cap Extent(b) = {}
  /\ UNION {Extent(b) : b \in Blocks} = 0 .. POOL_SIZE - 1
  /\ \A i, j \in DOMAIN free_list : i < j => End(size, free_list[i]) < free_list[j]
  /\ \A p \in live : p - HEADER \notin FreeBlocks

\* "Detect double free": is_already_free finds every block that is freed twice.
DoubleFreeDetected == ~accepted

\* The free list visits every slot that nobody holds, each once, and ends: a slot is
\* never handed to two owners, whatever owners write and however often they free.
FreeListIsTheRest ==
  LET at[i \in 0 .. NUM_ALLOCATION] ==
        IF i = 0 THEN freelist
        ELSE LET s == at[i - 1] IN IF s = NULL THEN NULL ELSE next[s]
      free == {s \in Slots : ~in_use[s]}
  IN  /\ owned = Slots \ free
      /\ {at[i] : i \in 0 .. NUM_ALLOCATION} = free \cup {NULL}
      /\ at[Cardinality(free)] = NULL
=============================================================================
