----------------------------- MODULE MCStorage ------------------------------
(***************************************************************************)
(* One model of the caches, the tables and the memory managers: the pager, *)
(* the buffer pool and the free lists of Days 23 and 25 (ListStores), the  *)
(* LRU cache of Day 30 (LRUCache), the symbol table of Day 24 and the      *)
(* probing loops of its C++ form (SymbolTable, SymbolProbe), the buddy     *)
(* allocator of Day 9 (BuddyAllocator), the arena and vector of Day 27     *)
(* (ArenaVector), the short strings of Day 21 (SmallString), the owning    *)
(* handles of Days 12 and 16 (Ownership) and the tracker of allocations of *)
(* Day 17 (AllocationTracker).  A behaviour uses one of them; the          *)
(* variables of the others stay put.                                       *)
(***************************************************************************)
EXTENDS BuddyAllocator, ListStores

CONSTANTS Keys, LRU_CAPACITY, TABLE_SIZE, Nodes,                     \* LRUCache
          Symbols, None, Empty, Deleted, INITIAL_CAPACITY, MaxCapacity,
          ARENA_CAPACITY, INT, FIRST_CAPACITY,                       \* ArenaVector
          Strings, STACK_CAP, Buffers, Texts, MaxLen, LEFT_AT, NoText, Dead, Failed, Junk,
          Handles, Objects, Nil,                                     \* Ownership
          TrackedThreads, Addresses, MAX_ALLOCS                      \* AllocationTracker

\* Nothing, one inline, one that fills the inline buffer and one that does not fit.
StringTexts == {<<>>, <<"a">>, <<"b", "b">>, <<"a", "a", "b">>}

VARIABLES program,
          c, answer,                                               \* LRUCache
          slots, count, tombstones, starved,                       \* SymbolTable
          slots_, count_, tombstones_, call, step, firstTombstone, result,
          offset, mem, data, vec_size, capacity, taken, pushed,    \* ArenaVector
          lang, str, block, meant, crashed,                        \* SmallString
          type, ptr, allocated, refcount, contents, expected,      \* Ownership
          source, heap, table, doing, arg, may_delete, dropped, report, ended, leaks

LRU      == INSTANCE LRUCache WITH Capacity <- LRU_CAPACITY
Table    == INSTANCE SymbolTable WITH Prices <- Values, CallocMayFail <- MallocMayFail
Probe    == INSTANCE SymbolProbe WITH Prices <- Values
\* One byte anywhere, a word, and three bytes on an even address.
Vector   == INSTANCE ArenaVector
  WITH CAPACITY <- ARENA_CAPACITY, Requests <- {<<1, 1>>, <<2, 4>>, <<3, 2>>},
       Vals <- Values, size <- vec_size
Text     == INSTANCE SmallString WITH Blocks <- Buffers
Owners   == INSTANCE Ownership WITH Contents <- Values, meant <- expected
Tracker  == INSTANCE AllocationTracker WITH call <- doing, held <- may_delete

ASSUME ArenaUsable   == Vector!ArenaAssumption
ASSUME HandlesFinite == Owners!OwnershipAssumption
ASSUME TextsApart    == Text!SmallStringAssumption

lru_vars     == <<c, answer>>
table_vars   == <<slots, count, tombstones, starved>>
probe_vars   == <<slots_, count_, tombstones_, call, step, firstTombstone, result>>
vector_vars  == <<offset, mem, data, vec_size, capacity, taken, pushed>>
text_vars    == <<lang, str, block, meant, crashed>>
owner_vars   == <<type, ptr, allocated, refcount, contents, expected>>
tracker_vars == <<source, heap, table, doing, arg, may_delete, dropped, report, ended, leaks>>
allvars == <<program, vars, page_vars, buffer_vars, lru_vars, table_vars, probe_vars,
             fit_vars, entity_vars, vector_vars, text_vars, owner_vars, tracker_vars>>

\* p runs and takes the step A.
Runs(p, A) ==
  /\ program = p /\ A
  /\ UNCHANGED program
  /\ p # "pager"   => UNCHANGED page_vars
  /\ p # "buffers" => UNCHANGED buffer_vars
  /\ p # "lru"     => UNCHANGED lru_vars
  /\ p # "table"   => UNCHANGED table_vars
  /\ p # "probe"   => UNCHANGED probe_vars
  /\ p # "buddy"   => UNCHANGED vars
  /\ p # "fit"     => UNCHANGED fit_vars
  /\ p # "entity"  => UNCHANGED entity_vars
  /\ p # "vector"  => UNCHANGED vector_vars
  /\ p # "text"    => UNCHANGED text_vars
  /\ p # "owner"   => UNCHANGED owner_vars
  /\ p # "tracker" => UNCHANGED tracker_vars

MCInit ==
  /\ program \in {"pager", "buffers", "lru", "table", "probe", "buddy", "fit", "entity",
                  "vector", "text", "owner", "tracker"}
  /\ Init /\ Pages!Init /\ Manager!Init /\ LRU!Init /\ Table!Init /\ Probe!Init
  /\ Lists!Init /\ Vector!Init /\ Text!Init /\ Owners!Init /\ Tracker!Init
  /\ program # "buddy" => \A o \in Offsets : header[o].order = max_order
  /\ program # "text" => lang = "C"
  /\ program # "owner" => type = "RefBox"
  /\ program # "tracker" => source = "c"

MCNext ==
  \/ Runs("pager", Pages!Next)
  \/ Runs("buffers", Manager!Next)
  \/ Runs("lru", LRU!Next)
  \/ Runs("table", Table!Next)
  \/ Runs("probe", Probe!Next)
  \/ Runs("buddy", Next)
  \/ Runs("fit", Lists!FitNext)
  \/ Runs("entity", Lists!PoolNext)
  \/ Runs("vector", Vector!Next)
  \/ Runs("text", Text!Next)
  \/ Runs("owner", Owners!Next)
  \/ Runs("tracker", Tracker!Next)

MCSpec == MCInit /\ [][MCNext]_allvars
-----------------------------------------------------------------------------
\* Day 25, C: an eviction never takes a page that is pinned, a page shows what was last
\* written to it whatever was evicted and reopened since, and the free list on disk runs
\* through the pages that were freed, each once.
CacheSound    == program = "pager" => Pages!CacheSound
NoLostUpdate  == program = "pager" => Pages!NoLostUpdate
FreeListSound == program = "pager" => Pages!FreeListSound

\* Day 25, C++: a frame is pinned once for every guard on its page, wherever guards are
\* moved to, and never taken while it is; pages keep what was written through eviction
\* and reopening, and the free list runs through the pages that were freed.
BuffersSound ==
  program = "buffers" =>
    Manager!PinsAreGuards /\ Manager!PagesKept /\ Manager!FreePagesListed

\* Day 30: updates, hits and evictions keep links, chains and size an LRU cache:
\* a get finds the value last put unless LRU_CAPACITY other keys were used since,
\* an eviction takes the key used longest ago, and no key is ever listed twice.
ImplementsLRU ==
  /\ LRU!Promised
  /\ [][program = "lru" => LRU!PromisedNext \/ UNCHANGED <<answer, LRU!Order>>]_allvars

\* Day 24: whatever was deleted, reinserted over tombstones or moved by a resize, a
\* lookup gives the price last inserted, the count is the number of symbols held, and
\* an insert that found memory has inserted: no table gets too full to be probed.  The
\* loops of the C++ form get there slot by slot: one slot written at the end of a loop
\* is the whole change to the map, and none comes round without finding its place.
ImplementsSymbolMap ==
  /\ Table!Promise!Init /\ Probe!Promise!Init
  /\ [][program = "table" => Table!Promise!Next
          \/ UNCHANGED <<starved, count, Table!Stored>>]_allvars
  /\ [][program = "probe" => Probe!Promise!Next \/ UNCHANGED <<count_, Probe!Stored>>]_allvars
  /\ Probe!ReturnsRight

\* Day 23: what is free and what is handed out is the whole pool.  First fit: the blocks
\* fill it without overlap, and two free blocks never touch, so that what was split is
\* whole again however the frees were ordered.  Object pool: the list visits the slots
\* nobody holds, each once, and ends, whatever owners write and however often they free.
FreeListsWhole ==
  /\ program = "fit" => Lists!PoolTiled
  /\ program = "entity" => Lists!FreeListIsTheRest

\* Day 27: through growth, failed growth and blocks taken in between, the vector holds
\* what was pushed, in aligned ints inside the arena that no other block overlaps.
VectorIntact == program = "vector" => Vector!VectorIntact

\* Days 12, 16 and 21: memory is freed with its last owner and not before, through
\* copies, moves and appends; and a string or handle reads what was put into it, never
\* what was written through another one.
OwnersFreeOnce ==
  /\ program = "text" => Text!TextsKept /\ Text!BlocksOwned
  /\ program = "owner" => Owners!CountsAreHandles /\ Owners!ValuesKept

\* Day 17: with threads inside malloc, the table and free, the table is what is
\* allocated, and the reports of wrong deletes are exactly those that are due.
TableIsHeap == program = "tracker" => Tracker!TableIsHeap /\ Tracker!ReportsJustified
=============================================================================
