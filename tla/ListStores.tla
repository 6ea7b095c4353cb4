----------------------------- MODULE ListStores -----------------------------
(***************************************************************************)
(* The stores whose free space is a list that runs through that space: the *)
(* pager and the buffer pool of Day 25 (Pager, BufferPool), the first-fit  *)
(* allocator and the object pool of Day 23 (FreeLists).  MCStorage runs    *)
(* them, ListStoresProofs proves about them.                               *)
(***************************************************************************)
EXTENDS Integers, Sequences, FiniteSets

CONSTANTS CACHE_CAPACITY, PAGE_SIZE, LastPage, Values, MaxPins,
          MallocMayFail, WriteMayFail,                               \* Pager
          Guards, NoPage,                                            \* BufferPool
          FIT_HEADER, ALIGNMENT, FIT_POOL_SIZE, FIT_REQUESTS,
          NUM_ALLOCATION                                             \* FreeLists

VARIABLES disk, empty, lru, frame, status, held, touched, owned, wrote, lost, torn, \* Pager
          pool, open, guard, allotted, put,                        \* BufferPool
          free_list, fit_size, fit_live, stale, accepted,          \* FreeLists
          next, in_use, freelist, entities

Pages   == INSTANCE Pager
Manager == INSTANCE BufferPool WITH CAPACITY <- CACHE_CAPACITY, Values <- {1},
             status <- open, owned <- allotted, wrote <- put
Lists   == INSTANCE FreeLists
  WITH HEADER <- FIT_HEADER, POOL_SIZE <- FIT_POOL_SIZE, Requests <- FIT_REQUESTS,
       size <- fit_size, live <- fit_live, owned <- entities

ASSUME PagesUsable   == Pages!PagerAssumption
ASSUME BuffersUsable == Manager!BufferPoolAssumption
ASSUME PoolsAligned  == Lists!FreeListsAssumption

page_vars   == <<disk, empty, lru, frame, status, held, touched, owned, wrote, lost, torn>>
buffer_vars == <<pool, open, guard, allotted, put>>
fit_vars    == <<free_list, fit_size, fit_live, stale, accepted>>
entity_vars == <<next, in_use, freelist, entities>>
=============================================================================
