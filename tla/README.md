# 100Days-C-CPP: specification and verification

The repository is a course of forty small systems, one per day, each written once in C and once in
C++: queues, allocators, caches, a page store, strings and owning handles, thread pools, an actor
system, a deadlock detector, an event loop. This directory holds TLA+ models of those that have state
worth checking, the TLC instances that
check them, and TLAPS proofs about nineteen of its programs and parts. `Phase-0` (days 1-6) exercises the tool chain,
`Phase-1` (days 7-30) is memory and data structures, `Phase-2` (days 31-40) is concurrency. The days
do not call one another, though several carry a copy of an earlier day's code; the interactions are
between the parts of one day.

- [Inventory](#inventory)
- [Modules and how they correspond to the code](#modules-and-how-they-correspond-to-the-code)
- [Runs: what each checks, bounds, results](#runs)
- [Fairness](#fairness)
- [Proofs](#proofs): what holds for every value of the constants
- [Disagreements between code and documentation](#disagreements-between-code-and-documentation)
- [What is not modelled, and why](#what-is-not-modelled-and-why)
- [Plan](#plan)

## Inventory

### Concurrent components

| Day | Part | State | Operations | Interaction | What is hard | What makes it correct |
|---|---|---|---|---|---|---|
| 11 | MPMC queue (`MPMC.c`, `MPMC.cpp`) | `head`, `tail`, a sequence number and a value per slot | `queue_push`, `queue_pop` | producers and consumers of the stress test share it and spin on it | CAS on stale positions; slots reused a lap later; full told from stale by a sign | one thread in a slot at a time; bounded FIFO; full and empty told truly |
| 11 | SPSC queues (`SPSC.c`, `SPSC.cpp`) | reduced `head`, `tail`, the slots | push, pop | one thread each | one slot free tells full from empty; order of publication | bounded FIFO of `CAPACITY - 1`; nothing read before written |
| 22 | SPSC ring and audio buffer | free-running `head`, `tail` | push, pop; callback that fills underruns | producer thread, audio callback | the indices wrap at the width of `size_t`; who waits for whom when the callback never may | never two threads in one slot, counts right across the wrap; the sound in order |
| 33 | lock-free stack, C | tagged head, nodes, hazard slots, retire list | push, pop, retire, sweep | producers and consumers, the allocator that reuses addresses | ABA, use after free, store-load reordering, the end of the consumers | stack order; a protected node lives; all nodes counted and freed |
| 33 | lock-free stack, C++ | bare head, nodes | `push`, `steal` of the whole chain | same | untagged CAS on reused addresses | the same, with no reclamation scheme at all |
| 34 | thread pool (`JobSystem.c`), job system (`JobSystem.cpp`) | ring of tasks, `shutdown`, mutex, condition variable | create, add, destroy, worker loop | main and workers | signals for nobody, failed creation, shutdown with work queued | tasks run once in order, all of them before destroy returns; every future answered |
| 37 | actors (`ActorModel.cpp`), single actor (`ActorModel.c`) | a mailbox per actor, stop flags | push, pop, run, route, join, destructor | producers to router to workers; main tears down | one condition variable for two kinds of waiter; a pill must come last; destruction while running | order per producer; drained before the pill; every thread ends |
| 40 | deadlock detector | wait-for graph, its lock, native mutexes | lock, unlock, `detect_cycle` | threads that nest mutexes | graph and mutexes are not updated together | no deadlock, no refusal without one |
| 31 | market pool | ticks, `current_tick`, the threads started | start, take a tick, join | main and workers | starting fails half way | each tick handled once, nobody left running |
| 32 | price tracker | `price`, `volume`, `seq`; `best_price` | publish, poll, raise by CAS | writer, reader, callers | relaxed stores around a release; a CAS loop | what a new `seq` announces is there; the best price only rises |
| 35 | event loops | connection or handler per descriptor, its buffer; epoll's ready list | accept, read, write, close | clients and kernel through edge-triggered events | partial writes, missed edges, events for closed or reused descriptors | the response whole and once, every connection closed |
| 36 | coroutines | contexts, `current_npc` or frames | resume, yield, end | scheduler and scripts | the last round, scripts that end apart | every script goes on where it stopped, all end |
| 38 | audio pipeline | two bounded queues | push, pop, the stages, the pill | three threads in a row | two conditions per queue, notify outside the lock | frames in order, each once, all threads end |
| 39 | locks | a flag or a mutex, the fields of an order book | acquire, update, release | trader threads | `+=` is a load and a store | no update lost |

### Sequential components

| Day | Part | State | Operations | What is hard | What makes it correct |
|---|---|---|---|---|---|
| 9 | buddy allocator | block headers in the pool, a free list per order | init, alloc, free | headers read where no block may be; a free climbs several orders | blocks tile the pool; no two free buddies |
| 23 | first-fit allocator | free list in address order, size headers | alloc, free, coalesce | splitting, merging with left and right, double frees | blocks tile the pool; free neighbours merged |
| 23 | object pools | link inside each slot, `in_use` | alloc, free, reset | owners overwrite the link; double frees | the list is exactly the slots nobody holds |
| 24 | symbol table | open-addressed slots, `count`, `tombstones` | insert, lookup, delete, resize | tombstones on a probe path; load that counts them; a loop that comes round | a map; probes end |
| 25 | pager, buffer pool | file, frames with pins and dirty flags, LRU list, free-page list in the file; page guards | open, fetch, unpin, alloc, free, close; guard moves | eviction in the middle of an operation, failing writes, all frames pinned, a pin that moves | no pinned page leaves; no update is lost; the free list is whole |
| 27 | arena, vector | bump offset; `data`, `size`, `capacity` | alloc; push with growth, destroy | padding, failed growth | the vector is what was pushed |
| 30 | LRU cache | doubly linked list, chains, `size` | get, put, evict | four pointers change per call | least recently used order |
| 12, 16 | counted box, shared and unique pointers, copy-on-write string | object, count(s), handles | create, copy, assign, move, release, detach | self-assignment, the last owner, a write through a shared buffer | freed with the last owner; no handle sees another's write |
| 17 | allocation tracker | table of records | malloc/new, free/delete, report at exit | another thread between record and block, a full table | the table is what is allocated; reports are true |
| 21 | small strings | flag, inline text or heap pointer with size and capacity | init, append, copy, move, assign, destroy | one union, two representations; failed `malloc` | the text is what was put in; each block has one owner |
| 5, 6, 13, 18, 20, 26 | TLV parser, arena, serialisation, placement new, bit boards, feed parser | a cursor, an offset, or one word | | lengths and bounds of single inputs | not modelled, see below |
| 1-4, 7, 8, 10, 14, 15, 19, 28, 29 | exercises, measurements, demonstrations | none, or a file | | | nothing that outlives a call |

The same list, with the files of each component and its status, is `components` in `PROJECT.json`;
`hazards` lists, at the line where it bites, what a test of this code would hardly reach and the
property that would catch it.

## Modules and how they correspond to the code

Definitions keep the source's names where TLA+ allows it; `map` in `PROJECT.json` gives the lines of
each. Definitions under the comment "Slips" are faulty forms of others, with the mistake named; they are
no part of any `Next`. They document which mistake each property is there to find.

**Granularity.** In a lock-free program an access to shared memory is one step, and so is a plain
access whose interleaving matters (a slot's content, a node's `next`, a `free`). A section under a
mutex is one step, a wait on a condition variable is going to sleep in one step and waking in a later
one. A call of a sequential component is one step, made of operators named after the functions it
calls. Memory is sequentially consistent, with two exceptions, which C11 allows: `TreiberStack` can
delay a thread's hazard stores (`StoreBuffered`), as x86 does, and in `PriceTracker` relaxed payload
stores may overtake the release store before them.

| Module | Models | State and actions |
|---|---|---|
| `BoundedQueue` | what every bounded queue promises | `items` held, `taken` by a consumer and not handed over; `Enq`, `Deq`, `Return` |
| `MPMCQueue` | `MPMC.c` with `MPMC_test.c` | every load, CAS, data access and store of push and pop; refines `BoundedQueue`: an item is enqueued by the CAS on `tail`, dequeued by the CAS on `head` |
| `SPSCQueue` | day 22 `SPSC.c` and its stress test | indices modulo `IndexModulus` (2^64 in the code); check, write, publish and check, read, release; refines `BoundedQueue` |
| `SPSCWrapped` | day 11 `SPSC.c` and `SPSC.cpp` | both orders of publication over one state; `SpecCpp` refines `BoundedQueue` |
| `TreiberStack` | day 33 C | head with tag, hazard slots with their stores possibly pending, retire list, the counters by which consumers decide to stop; the allocator reuses addresses |
| `StealStack` | day 33 C++ | `push` and `steal`; the thief deletes the chain node by node |
| `ThreadPool` | day 34 C | `tasks`, `head`, `tail`, `count`, `shutdown`; workers asleep and signalled; main through create (with failures), add, destroy |
| `ActorModel` | day 37 C++ | mailboxes with sleeping senders and receiver; producers, router, workers, main with its joins and destructors |
| `DeadlockDetection` | day 40 lock and unlock | `native` mutexes, the graph's `edges`, each worker's program counter; refusals |
| `CycleSearch` | day 40 `detect_cycle`, `dfs` | the loops of the search, its recursion as a stack of calls, on an adjacency matrix chosen at the start; against the definition of a cycle |
| `Pager` | day 25 `pager.c` | `disk`, `lru`, `frame`; helpers map a state to the states a call may leave (`Fetches`, `Evictions`, `Flushes`), so that an operation which fetches twice composes them; `held`, `owned`, `wrote`, `lost`, `torn` record the caller's side |
| `LRUCache` | day 30: list with table, and the recency order it promises | links `prev`, `next`, `head`, `tail` and chains; `Order` reads the list from the head |
| `SymbolMap`, `SymbolTable` | day 24: promise and probing table | a probe is the interval from the home slot to the first empty one; `lookup` gives the mapping |
| `BuddyAllocator` | day 9 | headers at every place where a block could start, overwritten by owners; `buddy_free` climbs to the order where its buddy is not free |
| `FreeLists` | day 23 `freelist.c` and `Entity_ObjPool.c` | list in address order, sizes; `coalesce` is the code's single pass as a fold; links that owners overwrite, flags, list head |
| `ListStores` | `Pager`, `BufferPool` and `FreeLists` with their variables | no actions of its own: what `MCStorage` and the proofs share |
| `ArenaVector` | day 27 | bytes, arena offset, the vector's three fields |
| `LockGraph` | day 40 C++, whole | the map of edges, the throwing `lock`, the catch blocks; refines `DeadlockDetection` |
| `OrderBook` | day 39, four programs | a lock that spins or blocks; every field of the update is loaded and stored |
| `PriceTracker` | day 32 | stores of the payload and of `seq`, the polling reader; `update_if_higher` with its failed CAS |
| `AudioBuffer` | day 22, both forms | ring, producer, callback with underruns, end of `main`; in C++ the life of the objects in the slots |
| `AudioPipeline` | day 38, both forms | two blocking queues, sleeping stages, the pill |
| `MarketPool` | day 31, both forms | spawning that may fail, workers, joins |
| `JobSystem` | day 34 C++ | tasks, `stop`, sleeping workers, a promise per task; the constructor may throw |
| `SingleActor` | day 37 C | mailbox slots, `main` and actor, the blocks of each message |
| `EventLoop` | day 35, both servers | sockets and epoll (external), handlers, buffers, the batch of events not handled yet |
| `Coroutines` | day 36, both forms | one context per NPC, the scheduler's rounds |
| `BufferPool` | day 25 C++ | frames, page table, guards; helpers map a pool to the pools a call may leave |
| `SymbolProbe` | day 24 C++ | the loops of insert, delete, lookup and resize, one slot per step; refines `SymbolMap` |
| `SmallString` | day 21, both forms | the union as a record, heap blocks, what each string is meant to be |
| `Ownership` | days 12 and 16 | counted objects and handles, four types over one state |
| `AllocationTracker` | day 17, both forms | heap, table, and threads between the two; deletes of what is not allocated, with the report of each delete in C and C++ |
| `MC...` | instances | see below |
| `...Proofs`, `RingArithmetic` | theorems and lemmas | see Proofs |

**Instances.** `MCSPSCQueue`, `MCTreiberStack`, `MCDeadlockDetection`, `MCThreadPool` and `MCStorage` put
related components side by side: a variable `program` is chosen at the start, the component that runs
takes all the steps, and the variables of the others stay put. Nothing is shared between them, as
nothing is in the repository, so every behaviour is one of one component. The state spaces add up;
they do not multiply. A property of such a module is the conjunction of what its components promise
in one respect, each named in the component's own module.

**Clients.** A library's caller is modelled by what the repository's own callers do. Queues and stacks
are driven by the loops of their stress tests. The pager's caller fetches only pages it allocated,
writes only through a page it has pinned, tells `unpin` that it wrote, frees a page when nobody has it
pinned, and unpins everything before `close`; `main.c` does the same, except that its first test
fetches pages it has not allocated. The allocators' callers free what they hold; those of the object pool
may free twice, and `FreeAgain` of `FreeLists` is the double free that day 23 tests for.
The C client of `SmallString` initialises, appends to, copies and frees two zeroed structs in any order,
and goes on after a failure; the handles of `Ownership` and the guards of `BufferPool` are
used in any order the C++ types allow. Clients of the server connect, send, hang up and reset at any
time.

## Runs

`tlc -config X.cfg M` for each row. All but the six marked *violation* finish without an error. `CHECK_DEADLOCK FALSE` in
all of them: the programs end (and a crashed process stops), so a last state without a successor is
expected; that nobody is stuck before the end is a liveness property where threads wait for each other.

| Run | Module and cfg | Instance | Shows |
|---|---|---|---|
| `mpmc` | `MPMCQueue` | 2 producers, 2 consumers, 2 slots, 2 items each: two laps of the ring, so that every slot is reused and a thread can be a lap behind | `SlotExclusive`, `ReadsWhatWasPushed`, `AnswersAreRight`, `ImplementsBoundedQueue`, `AllDelivered` |
| `spsc` | `MCSPSCQueue` | ring of 4 with indices modulo 16 started at 13, 24 items: the indices wrap twice, full and empty; wrapped queues of 3 slots and 8 items; an audio ring of 2 with 5 samples in blocks of 2 | `ArrivesInOrder` (all three programs, and the objects in the C++ slots), `NoDataRace`, `ExactCount`, `ImplementsBoundedQueue`, `WrappedImplementsBoundedQueue`, `EveryProgramReceives` |
| `stacks` | `MCTreiberStack` | one producer (two for the C++ stack), two consumers, 3 addresses, 2 messages, sweep on every second retire, tags modulo 2 | `StatesSound`, `ChainIsStack`, `OneOwner`, `HazardProtects`, `BothEndComplete` |
| `deadlock` | `MCDeadlockDetection` | three workers that nest three mutexes in crossing orders; `LockGraph` on the ring of its `main`; the search on all 512 graphs of three nodes; two traders with two updates, under either lock; three ticker updates, two callers | `NoDeadlock`, `GraphAgrees`, `RefusedOnlyInDeadlock`, `RingImplementsDetection`, `SearchFindsExactlyCycles`, `SharedStateWhole` (order book and ticker), `AllReturn` |
| `workers` | `MCThreadPool` | pool: 3 threads, ring of 2, 5 tasks, any creation may fail; actors: 2 producers of 3 orders, 2 workers, mailboxes of 2; pipeline: queues of 2, 4 frames; market: 3 workers, 4 ticks; job system: 2 threads, 3 tasks; single actor: mailbox of 2, 5 messages; server: 2 clients, 2 descriptors, 2 segments, a response twice the kernel's buffer; 3 NPCs | `RingIsFIFO`, `DrainedAtDestroy`, `NoTaskStranded` (pool), `HandedOverOnce` (the others that hand work over), `EventsHandled` (server), `EveryProgramEnds` |
| `storage` | `MCStorage` | pager: 2 frames for pages 0-2, 2 values, 2 pins per page, `malloc` and `pwrite` may fail, crashes; buffer pool: 2 frames, 2 guards; LRU cache of 3 with 4 keys in 2 chains; tables of 2, 4, 8 slots with 4 symbols; buddy pool of 8 smallest blocks; first fit in 128 bytes; 4 slots; arena of 12 bytes; 2 strings with an inline buffer of 2 and texts up to 4; 3 handles to 3 objects; tracker of 2 records, 3 addresses, 2 threads | `CacheSound`, `NoLostUpdate`, `FreeListSound` (pager), `BuffersSound`, `ImplementsLRU`, `ImplementsSymbolMap` (both tables), `BuddiesSound`, `FreeListsWhole` (day 23), `VectorIntact`, `OwnersFreeOnce` (days 12, 16, 21), `TableIsHeap` |
| `spsc_c_race` | `SPSCWrapped`, `_race.cfg` | 3 slots | *violation* of `WrittenBeforePublished` |
| `treiber_buffered` | `TreiberStack`, `_buffered.cfg` | hazard stores may be delayed | *violation* of `HazardProtects` |
| `actor_teardown` | `ActorModel`, `_teardown.cfg` | as in `workers` | *violation* of `HandlesOnlyWhileAlive` |
| `freelist_double_free` | `FreeLists`, `_double_free.cfg` | 128 bytes | *violation* of `DoubleFreeDetected` |
| `ticker_torn` | `PriceTracker`, `_torn.cfg` | 3 updates | *violation* of `PairConsistent` |
| `pager_crash` | `Pager`, `_crash.cfg` | 2 frames, nothing else fails | *violation* of `FreeListSurvivesCrash` |

### Why the bounds are enough

- *Queues.* A slot's history repeats with each lap: what can go wrong between two laps goes wrong with
  two. `MPMCQueue` needs `CAPACITY >= 2`: with one slot "published at k" and "free for k + 1" are the
  same number. The proofs cover all sizes. For the ring of day 22 what matters is that the modulus is a
  multiple of the capacity, larger than it, and crossed.
- *Stacks.* ABA needs a node popped, freed and pushed again while another thread holds the old head:
  and with another successor, which takes three pushes. Two messages reach a stale head and a reused address, not
  a stale successor: that case is covered by theorem `NoABA` alone, for any number of pushes. Tags modulo 2 make a tag that repeats
  reachable. With fewer than
  three addresses every address could sit on the retire list until the next sweep, and `malloc` would
  have none left: that wait would come from the bound.
- *Deadlocks.* Three workers and three mutexes are the shortest ring that is not a pair. `DeepOrder` is
  another user of the wrapper than `main`, who nests only two: a thread that holds two mutexes while it
  waits for a third is what the graph's lag could break.
- *Search.* Graphs of three nodes have loops, cycles of two and of three, and nodes that an earlier root has
  left behind. The proof covers all sizes.
- *Thread pool.* Two free slots for five tasks and three workers: the ring fills, tasks are refused,
  workers outnumber tasks, and creation fails at each position. A mailbox must have as many slots as
  senders (1024 and 5 in the code); with fewer a signal meant for the actor can be spent on a sender.
- *Pager.* With two frames the header and one page fill the cache, so that every `alloc` and `free` evicts
  in its middle; one pin of the caller leaves a single frame, two leave none. Pages 1 and 2 give free
  lists of length 0, 1 and 2 in both orders. A file that may be torn by a crash or by a failed write of
  the header or of a link is closed and reopened, but not used further: what a free list read from a torn file
  does is outside what the code promises.
- *LRU, table, allocators.* Three nodes have a first, a middle and a last; four symbols, two of which
  collide at every capacity, over three capacities; a buddy pool with four orders; enough first-fit bytes for four
  neighbours.
- *Buffer pool.* Two guards can pin both frames, or the same one twice, and one can be moved over the
  other while it holds a pin.
- *Strings and owners.* An inline buffer of two characters has texts below, at and above its size, and
  growth by doubling and by need; three blocks for two strings leave one for the copy that is made
  before the old block goes. Three handles: one to write through, one that shares, one that comes later.
- *Tracker.* Three addresses and two records: the table overflows; two threads and one free address: the
  second is given what the first has just freed. Any address that is not allocated may be deleted, in either language.
- *Server.* Two clients and two descriptors: a batch holds two events and the listener's, a closed
  descriptor is given to the client that was waiting. The response does not fit the kernel's buffer,
  so every client sees a partial write.
- *Pipeline, job system, market, single actor.* More items than a queue holds and fewer threads than
  items; the fifth message of a mailbox of two can be refused, and it is the pill.
- *Order book, ticker.* Two updates of each trader lose one if two loads meet; three ticker updates
  are enough for a reader that is one behind and one that skips one.

## Fairness

A thread that is not asleep runs: weak fairness of each thread's step, as any preemptive scheduler
gives. Sleeping threads get none (they wake by a signal; spurious wakeups are allowed and not
required). For a compare-and-swap in a retry loop weak fairness is not enough, since other threads can
make it fail each time; the loops of days 11 and 33 guarantee only that *some* thread succeeds. Their
tests end because each thread makes finitely many operations. For `MPMCQueue`, `TreiberStack` and
`StealStack` strong fairness of the successful CAS stands for that: a CAS that could succeed again and
again eventually does. Who spins on the flag of day 39 gets none at all: there it is enough that the others
make finitely many updates. `update_if_higher` needs weak fairness only, since its CAS fails only
when the price has risen. The server's loop goes around (weak fairness of `Server`), and a client reads what has reached its
socket; clients need not send or hang up. No fairness is assumed of sequential components, whose
properties are all safety.

## Proofs

Eight modules hold theorems; `tlapm X.tla` checks every step of `X`.

| Module | About | Theorems |
|---|---|---|
| `RingArithmetic` | `%` and `\div`, once for all rings | lemmas only |
| `MPMCQueueProofs` | `MPMCQueue` | `TypeCorrect`, `SlotsExclusive`, `ReadsArePushed`, `FullIsFull`, `EmptyIsEmpty`, `AnswersRight`, `IsBoundedQueue` |
| `SPSCQueueProofs` | `SPSCQueue`; `SPSCWrapped`, `AudioBuffer` in `MCSPSCQueue` | `TypeCorrect`, `CountIsExact`, `RaceFree`, `InOrder`, `IsBoundedQueue`, `WrappedIsBoundedQueue`, `ArrivalInOrder` |
| `DeadlockDetectionProofs` | `DeadlockDetection`; `CycleSearch`, `LockGraph`, `OrderBook`, `PriceTracker` in `MCDeadlockDetection` | `TypeCorrect`, `GraphCorrect`, `DeadlockFree`, `RefusalsJustified`, `SearchCorrect`, `RingCorrect`, `SharedStateCorrect` |
| `ThreadPoolProofs` | `ThreadPool`; the other programs of `MCThreadPool` | `TypeCorrect`, `FIFO`, `NoneStranded`, `Drained`, `HandedInvariance`, `EverythingHandedOver`, `EventsHandledProperly` |
| `TreiberStackProofs` | `TreiberStack`, `StealStack` | `TypeCorrect`, `NoABA`, `EveryNodeOwned`, `SafeToLookInto`, `SafeWhenVisible`, `StacksSound` |
| `ListStoresProofs` | `Pager`, `BufferPool`, `FreeLists` in `ListStores` | lemmas, among them `Induction`, `PagerInductive`, `BufferInductive`, `FitInductive`, `EntityInductive` |
| `StorageProofs` | all components of `MCStorage` but the buddy allocator, the LRU cache and the symbol tables | `TableExact`, `VectorKept`, `FreedOnce`, `PinnedStayCached`, `PagesKeepWrites`, `FreeListWhole`, `GuardsPinPages`, `FreeListsCover` |

The properties the theorems state are the definitions the runs check. The theorems about the component that an `MC` module
extends (`SPSCQueue`, `DeadlockDetection`, `ThreadPool`, `TreiberStack`) are about its own `Spec`; those about the other components
are about `MCSpec`, in which a step of another program leaves the variables in question alone.

**`RingArithmetic`.** A ring uses of `a % n` four things: it lies below `n` (`RemainderRange`); two numbers with the same
remainder that are less than `n` apart are equal (`ShortLaps`); taking it earlier makes no difference to a later sum,
difference or coarser remainder (`RemainderOfSum`, `RemainderOfDifference`, `RemainderOfRemainder`); and a
number with its quotient and remainder is determined by them (`Division`, `RemainderIs`).

**`MPMCQueueProofs`**, for every set of producers and of consumers, every `CAPACITY >= 2` and every
number of items, from `QueueAssumption` alone. `SlotExclusive` is not inductive: that two threads are
not in one slot follows from the positions they claimed, and those say nothing unless the sequence
numbers agree. The inductive invariant `Inv` adds `Cells`: the next `CAPACITY` positions from `tail`
occupy the slots once each, and the sequence number of a slot tells which of three states it is in -
free for its position, published from the lap before, or being worked on by exactly one thread that
claimed it. A lemma per step shows that a successful CAS moves this window by one position and a store of a
sequence number moves one slot to its next state (`PushCasOkStep`, `PushPublishStep`, `PopCasOkStep`,
`PopReleaseStep`); all other steps leave the window alone (`QuietStep`). `TypeCorrect`, `SlotsExclusive` and
`ReadsArePushed` follow from `Inv`; `FullIsFull`, `EmptyIsEmpty` and their conjunction `AnswersRight`
are action properties that follow from `Inv` in the state before. `IsBoundedQueue` is the refinement: under `Inv` the
CAS on `tail` is `Enq`, the CAS on `head` is `Deq`, the step in which a pop returns its value is `Return`, and every other step
is a stutter.

**`SPSCQueueProofs`**, for every capacity, every seed and every width of the indices, from `RingAssumption`: the capacity
divides the range of the indices, as the code's static assertion says. The invariant counts the pushes and pops without
wrapping (`Shape`); the capacity divides the modulus, so the wrap changes no slot (`WrapSlot`), and no difference of
indices as long as at most `CAPACITY` elements are held (`HeldIsDifference`). `CountIsExact`, `RaceFree` and the stress
test's assertion `InOrder` follow; `IsBoundedQueue` maps the stores of `tail` and `head` to `Enq` and `Deq`.

The same two counts carry the other two programs. Day 11's C++ queue (`WrappedInv`, from `WrappedUsable`: at least two slots) keeps its
indices reduced and one slot free; `WrappedIsBoundedQueue` is its refinement. `SPSC.c` is left out of this by the premise on
`program`, since what it gets wrong is shown by a run. The players of day 22 (`AudioInv`, from `AudioUsable`) write samples that are numbered, so
"nothing lost or repeated" is that each sound heard is the number of sounds heard before it. `ArrivalInOrder` is all three.

**`DeadlockDetectionProofs`**, for all threads, mutexes and orders, from `LockAssumption` (each order is a sequence of
distinct mutexes). The inductive invariant is `TypeOK /\ HoldsPrefix /\ GraphAgrees /\ Acyclic`: a worker holds a prefix of its
order; the graph differs from the native mutexes only for a worker between its native call and the
graph's update; the graph has no cycle. The step that could break the last is `Acquired`, which turns a
waiting edge into a holding edge without a search: its thread then has no edge out, so no cycle passes
through it (`EdgeIntoSink`). `DeadlockFree` shows that a deadlock would be a cycle; `RefusalsJustified`
that a refused request would have closed one (`CycleIsDeadlock`).

The other programs of `MCDeadlockDetection` follow in the same module, each with an invariant of its own:
- `SearchInv`, for any number of nodes (`SearchUsable`). What the search has left behind is black: visited, and on the stack no
  more. From a black node edges go to black nodes only, no set of black nodes has a cycle, and the calls in progress are a path
  (`Explored`, `IsPath`). A node that is left has only edges to black ones, so a cycle through it would have been one without it
  (`BlackGrows`); an edge to a node on the stack closes a cycle along the path (`FoundIsCycle`). The search is therefore
  right when it answers (`SearchCorrect`); that it answers is part of `AllReturn`.
- `RingInv`, for `LockGraph`, which is a closed program with three workers. The map of edges is a function of what the workers are
  doing (`GraphIs`). A request that closes a cycle finds every worker at its second mutex (`RefusedAtInner`), so each catch block unlocks what its
  worker holds. `RingCorrect` maps every step of a worker to one of `DeadlockDetection`.
- `OrdersInv`, for finitely many traders and any number of updates (`OrdersUsable`). The flag is the holder's (`Exclusive`), so what the holder has
  loaded is still true when it stores (`Carried`); the volume counts the updates stored (`VolumeCounts`).
- `PricesInv`, for any number of updates and any candidates (`PricesUsable`): the payload is never behind `seq` nor the reader ahead
  of it (`BehindSeq`); no caller's copy is above `best_price`, and `best_price` is a candidate that was taken (`BestTaken`). The last
  two make up `SharedStateCorrect`.

**`ThreadPoolProofs`**, for any number of workers, slots and tasks. `DrainedAtDestroy` speaks of the end only; what leads there is
that the accepted tasks are distinct (`Ordered`), that the first `taken` of them are in the hands of one worker each (`Held`) or
have run once (`Tally`), that the others are in the ring (`RingIsFIFO`), and that a worker leaves only after shutdown with the ring
empty, when nothing is added any more (`Lifecycle`). `NoTaskStranded` is inductive with these: `threadpool_add` signals a
sleeper, and a worker that takes a task while others are queued is itself awake.

The other programs of `MCThreadPool` follow, each with an invariant that says where everything handed over is at any moment;
`HandedInvariance` joins them, `EverythingHandedOver` and `EventsHandledProperly` draw the conclusions:
- `ActorInv`, for any number of producers, workers and orders (`ActorsUsable`). The orders of a producer that go to a worker stand in one line: handled by it,
  in its hands, in its mailbox, in the router's hands, in the router's mailbox, in the order sent (`Line`). Each step moves one order to the next
  place. The pill is last in every mailbox, and nothing follows it (`Pills`).
- `PipeInv`, for any queue capacity and number of frames (`PipelineUsable`): four counts of what was pushed and popped fix what each stage has in hand and
  what each queue holds, with the gain applied once behind the filter (`Flow`).
- `MarketInv`, for any number of workers and ticks (`MarketUsable`): a tick taken is in the hands of one worker or printed by one (`TicksHeld`); if `main` reports
  success every worker was started (`MarketEnds`).
- `JobInv`, for any number of workers and tasks (`JobsUsable`): the queue holds the last tasks, those before have their value unless a worker holds them
  (`TasksPlaced`).
- `MailInv`, for any mailbox of at least two slots and any number of messages (`MailboxUsable`): `Cells` is the window of sequence numbers known from
  `MPMCQueue`; a witness, the messages that got a position, says what each slot and each hand holds (`Letters`); the heap is what is not handled yet (`HeapIs`).
- `ScriptInv`, for any number of NPCs and any length (`NPCsUsable`): in a round, the NPCs before the current one are one action further than
  the others (`InRound`); the log is the rounds in order (`RoundsLogged`).
- `LoopInv`, for any clients, finitely many descriptors, any sizes (`ServerUsable`). What an event of the batch says is still true
  when it is handled (`EventsCurrent`), since a descriptor is closed only while its own event is handled, each is in a batch once, and what a client did cannot be
  undone. The response is sent and read in order, `write_pos` bytes of it (`Buffers`).

**`TreiberStackProofs`**, first part, for any number of threads and nodes, any sweep period and any `TAG_MODULUS`. The safety of the stack rests on hazard stores that are visible
before the second load of the head. The code's release store and acquire load do not ensure that, and run `treiber_buffered` shows what then happens.
`SafeToLookInto` allows stores to be delayed and names what it needs of an execution: no second load overtakes the store it follows (`InOrder`),
which a sequentially consistent store, or a fence, would guarantee. The other theorems (`TypeCorrect`, `NoABA`, `EveryNodeOwned`, `SafeWhenVisible`) assume the same of the machine, `~StoreBuffered`.
`HazardProtects` needs an argument about time: a pop that found the head unchanged after publishing its hazard looks at a node that was on the stack then, so whoever frees it has
popped it since and begins its scan of the hazard slots later still. `Protection` states this as a fact about one state: a
thread that is about to free this node still has the slot of this pop in front of it (`toScan`). The node is then neither freed nor in a
producer's hands, its `next` is what was read, and the CAS installs the true successor, whatever the tag says: `NoABA` holds with tags
that wrap. `Ownership` (a live node is in one place) carries both.

**`TreiberStackProofs`**, second part: `StealStack` for any number of threads, nodes and messages. The C++ stack needs no protection, because `push` looks into no node
but its own: an address that was stolen, deleted and allocated again is, when it is the head, the first node of the present
chain (`LinkInFront`). The invariant says where each node is (`Owned`) and that the chains are those of what was pushed.

**`StorageProofs`**, for any number of threads, addresses, records, handles, objects, strings and blocks, any arena and
any block sizes, from `ArenaUsable`, `HandlesFinite` and `TextsApart`: sizes and alignments are positive, handles are finitely many, the
marks for "no text" and "failed" are no texts. Four independent invariants, and those of the next paragraphs carried over to `MCSpec`:
- `TrackerInv`: the table is what is allocated *except* for addresses in the middle of a call, each of which belongs to one thread
  (`OneCaller`), or are deleted wrongly: such a delete must find nothing, report it, and reach `free`, which aborts. `malloc` may hand out
  an address in the middle of a wrong delete; nothing is promised of the program from there on, and the model ends (`clash`). That removal puts the last record in the place of the removed one needs the records to be distinct (`TableSound`).
- `VectorInv`: the arena only goes forward, so a block handed out lies behind all earlier ones (`OtherBlocks`), and
  growth copies into bytes that nobody has; padding is `%` again.
- `OwnerInv`: between two calls a count is the number of handles on the object (`Counted`). Each call is a composition of taking a handle away
  and putting one on, so the lemmas are about these (`HandleMoves`, `LastHandle`).
- `TextInv`: every block in use belongs to one string, and each string reads as the text its calls should have made, or as what a failed
  copy leaves. Each call changes one string and fills or frees a block that no other string holds: `StringReplaced`.

**`ListStoresProofs`**: the stores whose free space is a list that runs through that space. The properties follow such a
list from its head, a recursive function, so a proof of them is an induction on the length of the walk. The library's
induction theorems cannot be used, since they take an operator as a parameter; `Induction` is therefore proved here, for a set instead of
an operator: a set of numbers that holds 0 and each successor holds all of them, or else adding 1 would map the part below a missing number one to one
into less than itself. A free list is described by a witness, the sequence of what it visits (`Links`); `Distinct`, `Members` and the lemmas on
taking off the front, putting in front, removing and inserting at a place say how the helpers change it.

- *Pager*, for any number of pages, frames, values and pins, from `PagerAssumption`. A call is a chain of helpers, each with several
  outcomes, and between two helpers the file is in no state that the properties speak of: in the middle of
  `pager_alloc_page` the header has moved on and the page is nobody's. The lemmas are therefore about the helpers: each keeps the cache sound except for
  the pages that are being written (`CacheOK`), and keeps what every page shows, unless a failed write is recorded in `lost` or `torn`
  (`Shows`). `PagerInv` puts these together at the end of each call: pins are what the caller holds, each owned page shows what was written to
  it, and the header leads to a list of the pages that were allocated once and are not owned (`HeaderOK`). It must also remember that an owner's
  page is never on that list, and what is cached when `pager_alloc_page` ends in the NULL dereference, which happens only with pins in all frames but one.
- *Buffer pool*, for any number of pages, frames and guards, from `BufferPoolAssumption`; the written data is one value, as in
  the run, which is enough to tell a page that was written from one that was not. `BufferInv` is built like `PagerInv`. What is new is that
  pins are counted: the pin count of a frame is the number of guards on its page (`PinsMatch`), through moves that release one guard, fill another and
  empty a third.
- *First fit*, for any pool, header, alignment and requests, from `FreeListsAssumption`: sizes are multiples of the alignment. The invariant
  `FitInv` says that free blocks and blocks handed out together cover each byte of the pool once (`Tiles`), and that two free blocks never
  touch (`Apart`). Splitting and freeing keep the first half at once. The second is what `coalesce` restores: it is a fold over the list, whose
  state after n blocks is characterised by induction (`CoalesceSteps`, `Coalesced`): the blocks so far cover the bytes they covered before, apart from each other,
  and the last of them ends where the n-th block ended, so that the next block touches it or nothing.
- *Object pool*, for any number of slots. `EntityInv`: some sequence of the slots nobody holds is linked from `freelist` on. A
  second free of a slot changes nothing since the flag is clear; an owner that overwrites the link writes to a slot that is in no list.

### Only model-checked

- All liveness properties: fairness and ENABLED are out of the prover's reach.
- `BuddiesSound`, `ImplementsLRU`, `ImplementsSymbolMap`: the headers of the buddy pool, the chains and links of the cache and the probe paths
  of the tables are recursive data as well, and the lemmas about them (on powers of two, on doubly linked lists, on cyclic intervals) have not been written.

## Disagreements between code and documentation

1. **`Day11/C/SPSC.c` publishes before it writes** (line 32 before line 36), against the rule of its own
   Readme. Run `spsc_c_race`: a consumer can pop a slot that has not been written.
2. **`Day33/C/TrieberStack.c:209` publishes the hazard with a release store**, which does not order it
   before the second load of the head. Run `treiber_buffered`: another consumer frees the node after
   both loads, in spite of the comment "no one will free tp1.ptr while our hazard is set". With the store
   visible at once `HazardProtects` holds (run `stacks`).
3. **`Day37/C++/ActorModel.cpp:81` joins a worker in the base class destructor**, when its
   `process_message` is already pure. Run `actor_teardown`: a worker still has its pill to handle.
4. **`Day23/C/freelist.c:264` detects a double free only of a block that is still in the list.** Run
   `freelist_double_free`: a block that was merged into its left neighbour is freed again and accepted.
5. **`Day32/C/AtomicPriceTracker.c:50` reads the pair without looking at `seq` again.** Run `ticker_torn`: price
   of one update, volume of another, against "it never catches one field mid-update relative to the
   other" (`Day32/Readme.md:37`). The number of torn reads the program prints is never counted. What does hold is in
   `SharedStateWhole`: both are at least as new as the number that was seen.
6. **`Day25/C/src/pager.c:236`: the free list does not survive the end of a process** (`Day25/Readme.md:8` and `:38`
   speak of mid-write crash safety and of being durable). Run `pager_crash`: an eviction has written
   the header, the link of the freed page was still in the cache; after reopening the list leads from
   page 1 to page 0. The repository's crash test looks at the bytes of one data page only.

Seen while modelling, without a run: `Day6/C/arena.c:46` pads with the complement of the misalignment instead of its
negative, which moves an address that is aligned already (its Readme:35 says that alignment is correct); `StringPool` of day 16 refuses a string it
already holds once it is full; `SmallString` in C reads as text what a failed copy left (`Crash`, and the
`Failed` of `TextsKept`); the C audio producer can be left asleep on a full ring when the driver has heard
so much silence that it stops first (`Starved`); a client of day 35 that shuts down its sending side
after its request gets no answer (`handle_error`), and one whose request comes in two pieces may get the start of
the response twice (`handle_read` starts it over, `async.c:143`).

Three open points of the repository's own notes are answered: `Day25/Readme.md` asks for a test that the header survives
eviction from a full cache, for free-list reuse over several rounds, and for the path where
all pages are pinned. `FreeListSound` shows the first two. `CacheSound` shows that a fetch meets a full cache
only when the caller has pinned all frames but one, and what happens then: `pager_alloc_page`
and `pager_free_page` dereference NULL (`AllocFails`, `FreeFails`).

## What is not modelled, and why

- Weak memory beyond the delayed hazard stores: acquire and release are taken to order what they
  are meant to order.
- Limits that end the process: `MAX_HAZARD_THREADS`, `MAX_NODES`, `assert` on slot numbers.
- `pthread_self()` cut to an `int` (day 40): distinct threads are assumed to have distinct nodes.
- The server (day 35): a close with data of the client unread, which resets the connection; `EINTR`;
  the bound on events per `epoll_wait`. Without a free descriptor `accept` stops, and a queued client waits for the next
  connection; `AcceptedIsClosed` speaks only of those accepted.
- A reference from the mutable `operator[]` of `CowString` kept after a later copy (day 16): the test uses it
  within one expression.
- A failure to create the threads of day 38, and `SIGPIPE` (day 35): both end the process.
- Counts and handles of days 12 and 16 shared between threads: no program does so. `update_if_higher` (day 32) is the other
  way round: `main` calls it from one thread, `PriceTracker` lets several callers raise `best_price`, as the function is meant for.
- A failed `malloc` in `lru.c`; destruction of tables and caches, which ends their use; a pwrite that
  writes a part of a page (taken as writing nothing); `open` and `pread` that fail.
- Checks of `free_list_free` and `Entity_Free` that a pointer lies in the pool: callers pass pointers
  they were given.
- Growth of the symbol table beyond `MaxCapacity`, of files beyond `LastPage`.
- The arena of day 6, the lists of days 9 (`freelist.cpp`) and 18, the two earlier pools of day 23, the interning
  pool of day 16: each repeats, in a smaller form, a component that is modelled (`ArenaVector`, `FreeLists`,
  `SymbolTable`).
- Parsers, serialisation and bit boards (days 5, 13, 20, 26): functions of a single input without state or
  order of calls; the fuzz targets beside the parsers drive them.
- The first exercises of a day (`threads.c`, `atomics.cpp`, `context.c`, `fistTest.c`, `reentrency_guard.cpp`), and
  the days with no state worth a model: see the last rows of the inventory and `components`.

## Plan

Done: the bounded queues, stacks, detectors, pools and actors (days 11, 22, 33, 34, 37, 40); storage and
memory (days 9, 23, 24, 25, 27, 30); pipeline, market, locks, ticker, server, coroutines (days 31, 32, 35,
36, 38, 39); strings, owners, tracker (days 12, 16, 17, 21).

Proved: the queues of days 11 and 22 with their refinements, the audio players of day 22, the detector of day 40 in C and C++ with its search, the
locks of day 39, the ticker of day 32, the pool of day 34 in C, both stacks of day 33, tracker, vector, owners and small strings, pager and
buffer pool of day 25, first fit and object pool of day 23; actors and single actor of day 37, pipeline of day 38, market of day 31, job system of day 34,
server of day 35, coroutines of day 36.

Theorems that remain: `BuddiesSound`; the refinements `ImplementsLRU` and `ImplementsSymbolMap`.
