----------------------------- MODULE BufferPool -----------------------------
(***************************************************************************)
(* The C++ storage of Day 25 (BufferPoolManager, PageGuard and main.cpp):  *)
(* a fixed pool of frames, a page table, an LRU list of frames, and guards *)
(* that pin a page for as long as they hold it.  A page's content is       *)
(* <<total_pages, free_list_head>> in the header, <<next free page, 0>> in *)
(* a free page, <<value, 0>> in a page a guard wrote.  pwrite may fail.    *)
(***************************************************************************)
EXTENDS Integers, Sequences, FiniteSets, SequencesExt

CONSTANTS CAPACITY, LastPage, Guards, Values, WriteMayFail,
          NoPage        \* page_id -1, and the page_ of an empty guard

BufferPoolAssumption ==
  /\ CAPACITY \in Nat \ {0} /\ LastPage \in Nat \ {0}
  /\ IsFiniteSet(Guards) /\ NoPage \notin 0 .. LastPage
  /\ Values \subseteq Int /\ WriteMayFail \in BOOLEAN

VARIABLES pool,         \* the file, the fields of the manager, and what became of pages
          status,       \* "closed", "open", "segv"
          guard,        \* [page, dirty] of every guard
          owned,        \* history: pages allocated and not freed
          wrote         \* history: what was last written to each page

vars == <<pool, status, guard, owned, wrote>>

PageIds == 0 .. LastPage
Frames  == 1 .. CAPACITY
NoGuard == [page |-> NoPage, dirty |-> FALSE]
EveryFrame(x) == [f \in Frames |-> x]

NewPool(s) ==
  [s EXCEPT !.page = EveryFrame(NoPage), !.data = EveryFrame(<<0, 0>>), !.pin = EveryFrame(0),
            !.dirty = EveryFrame(FALSE), !.free = [i \in Frames |-> i], !.lru = <<>>]

Init ==
  /\ pool = [disk  |-> [p \in PageIds |-> <<0, 0>>],
             page  |-> EveryFrame(NoPage), data |-> EveryFrame(<<0, 0>>),
             pin   |-> EveryFrame(0), dirty |-> EveryFrame(FALSE),
             free  |-> [i \in Frames |-> i],      \* free_frames_
             lru   |-> <<>>,        \* lru_list_, the frame used last first
             empty |-> TRUE,        \* the file has length 0
             lost  |-> {},          \* pages whose last content a failed write lost
             torn  |-> FALSE]       \* so was the header or a link, or a crash happened
  /\ status = "closed" /\ guard = [g \in Guards |-> NoGuard]
  /\ owned = {} /\ wrote = [p \in PageIds |-> <<0, 0>>]

-----------------------------------------------------------------------------
InTable(s, p)  == \E f \in Frames : s.page[f] = p
FrameOf(s, p)  == CHOOSE f \in Frames : s.page[f] = p      \* page_table_
TouchLRU(s, f) == [s EXCEPT !.lru = <<f>> \o RemoveFirst(@, f)]
Data(s, p)     == s.data[FrameOf(s, p)]
SetData(s, p, d) == [s EXCEPT !.data[FrameOf(s, p)] = d]

\* A full write cleans the page; a failed one leaves it dirty.
FlushPage(s, p) ==
  LET f == FrameOf(s, p) IN
  IF ~s.dirty[f] THEN {s}
  ELSE {[s EXCEPT !.disk[p] = s.data[f], !.dirty[f] = FALSE, !.empty = FALSE]}
         \cup (IF WriteMayFail THEN {s} ELSE {})

Losing(s, ps) == [s EXCEPT !.lost = @ \cup (ps \cap owned), !.torn = @ \/ ~(ps \subseteq owned)]

\* The least recently used frame nobody has pinned
Unpinned(s)        == {i \in DOMAIN s.lru : s.pin[s.lru[i]] = 0}
Victim(s) == s.lru[CHOOSE i \in Unpinned(s) : \A j \in Unpinned(s) : j <= i]

\* The victim's frame is taken over whether its flush succeeded or not.
Evict(s) ==
  LET v == Victim(s) IN
  {[Losing(t, IF t.dirty[v] THEN {t.page[v]} ELSE {}) EXCEPT
      !.lru = RemoveFirst(@, v), !.free = <<v>>] : t \in FlushPage(s, s.page[v])}

\* The page goes to the first free frame; past the end of the file it reads as zeros.
Load(s, p) ==
  LET f == Head(s.free)
  IN TouchLRU([s EXCEPT !.free = Tail(@), !.page[f] = p, !.data[f] = s.disk[p],
                        !.pin[f] = 1, !.dirty[f] = FALSE], f)

\* The pools FetchPage may return a page in; none, when every frame is pinned.
FetchPage(s, p) ==
  IF InTable(s, p)
  THEN {TouchLRU([s EXCEPT !.pin[FrameOf(s, p)] = @ + 1], FrameOf(s, p))}
  ELSE IF s.free # <<>> THEN {Load(s, p)}
  ELSE IF Unpinned(s) = {} THEN {}
  ELSE {Load(t, p) : t \in Evict(s)}

UnpinPage(s, p, is_dirty) ==
  LET f == FrameOf(s, p)
  IN [s EXCEPT !.dirty[f] = @ \/ is_dirty, !.pin[f] = IF @ > 0 THEN @ - 1 ELSE 0]

-----------------------------------------------------------------------------
(* The constructor, the destructor, and the crash of TestCrashMidWrite       *)

Open ==
  /\ status = "closed" /\ status' = "open"
  /\ IF pool.empty
     THEN \E s \in FetchPage(pool, 0) :
            \E t \in FlushPage(UnpinPage(SetData(s, 0, <<1, -1>>), 0, TRUE), 0) : pool' = t
     ELSE UNCHANGED pool                \* Close and DestroyNoFlush left no frame in use
  /\ UNCHANGED <<guard, owned, wrote>>

\* FlushAllPages, each page whatever becomes of the others; no guard outlives the pool.
Close ==
  /\ status = "open" /\ status' = "closed"
  /\ \A g \in Guards : guard[g] = NoGuard
  /\ LET written == {pool.page[f] : f \in {f \in Frames : pool.dirty[f]}}
     IN \E failed \in SUBSET (IF WriteMayFail THEN written ELSE {}) :
          pool' = NewPool([Losing(pool, failed) EXCEPT !.empty = @ /\ written \subseteq failed,
            !.disk = [p \in PageIds |-> IF p \in written \ failed THEN Data(pool, p) ELSE @[p]]])
  /\ UNCHANGED <<guard, owned, wrote>>

DestroyNoFlush ==
  /\ status = "open" /\ status' = "closed"
  /\ pool' = NewPool([pool EXCEPT !.torn = TRUE])
  /\ guard' = [g \in Guards |-> NoGuard] /\ owned' = {}
  /\ UNCHANGED wrote

-----------------------------------------------------------------------------
(* PageGuard                                                                *)

\* FetchGuard: with every frame pinned the guard is empty.
FetchGuard(g, p) ==
  /\ guard[g] = NoGuard /\ p \in owned
  /\ IF FetchPage(pool, p) = {} THEN UNCHANGED vars
     ELSE /\ \E s \in FetchPage(pool, p) : pool' = s
          /\ guard' = [guard EXCEPT ![g].page = p]
          /\ UNCHANGED <<status, owned, wrote>>

\* Through GetData, then MarkDirty.
WriteGuard(g, v) ==
  LET p == guard[g].page IN
  /\ p # NoPage
  /\ pool' = SetData(pool, p, <<v, 0>>)
  /\ guard' = [guard EXCEPT ![g].dirty = TRUE]
  /\ wrote' = [wrote EXCEPT ![p] = <<v, 0>>]
  /\ UNCHANGED <<status, owned>>

Dropped(s, g) == IF guard[g].page = NoPage THEN s ELSE UnpinPage(s, guard[g].page, guard[g].dirty)

Drop(g) ==
  /\ pool' = Dropped(pool, g)
  /\ guard' = [guard EXCEPT ![g] = NoGuard]
  /\ UNCHANGED <<status, owned, wrote>>

\* A slip: the guard assigned to forgets the pin it has.
MoveKeepsPin(g, h) ==
  /\ UNCHANGED pool
  /\ guard' = [guard EXCEPT ![g] = guard[h], ![h] = NoGuard]
  /\ UNCHANGED <<status, owned, wrote>>

Move(g, h) ==                           \* g = std::move(h)
  /\ pool' = Dropped(pool, g)
  /\ guard' = [guard EXCEPT ![g] = guard[h], ![h] = NoGuard]
  /\ UNCHANGED <<status, owned, wrote>>

-----------------------------------------------------------------------------
(* AllocPage and FreePage: a nullptr page is dereferenced                    *)

Segv(s) == status' = "segv" /\ pool' = s /\ UNCHANGED <<guard, owned, wrote>>

Give(s, p) ==
  /\ pool' = [s EXCEPT !.lost = @ \ {p}]
  /\ owned' = owned \cup {p}
  /\ wrote' = [wrote EXCEPT ![p] = IF InTable(s, p) THEN Data(s, p) ELSE s.disk[p]]
  /\ UNCHANGED <<status, guard>>

Reuse(s, p) ==
  IF FetchPage(s, p) = {} THEN Segv(s)
  ELSE \E t \in FetchPage(s, p) :
         LET u == SetData(t, 0, <<Data(t, 0)[1], Data(t, p)[1]>>)
         IN Give(UnpinPage(UnpinPage(u, p, FALSE), 0, TRUE), p)

Append1(s, p) == p <= LastPage /\ Give(UnpinPage(SetData(s, 0, <<p + 1, -1>>), 0, TRUE), p)

AllocPage ==
  IF FetchPage(pool, 0) = {} THEN Segv(pool)
  ELSE \E s \in FetchPage(pool, 0) :
         IF Data(s, 0)[2] # -1 THEN Reuse(s, Data(s, 0)[2]) ELSE Append1(s, Data(s, 0)[1])

Link(s, p) == SetData(SetData(s, p, <<Data(s, 0)[2], 0>>), 0, <<Data(s, 0)[1], p>>)

FreePage(p) ==
  /\ p \in owned /\ \A g \in Guards : guard[g].page # p
  /\ IF FetchPage(pool, 0) = {} THEN Segv(pool)
     ELSE \E s \in FetchPage(pool, 0) :
            IF FetchPage(s, p) = {} THEN Segv(s)
            ELSE \E t \in FetchPage(s, p) :
                   LET u == UnpinPage(UnpinPage(Link(t, p), p, TRUE), 0, TRUE)
                   IN /\ pool' = [u EXCEPT !.lost = @ \ {p}]
                      /\ owned' = owned \ {p} /\ UNCHANGED <<status, guard, wrote>>

-----------------------------------------------------------------------------
\* Bound: a file that may be torn is reopened and closed, but no longer used.
Use ==
  /\ status = "open" /\ ~pool.torn
  /\ \/ AllocPage \/ \E p \in PageIds \ {0} : FreePage(p)
     \/ \E g \in Guards :
          \/ Drop(g)
          \/ \E p \in PageIds : FetchGuard(g, p)
          \/ \E v \in Values : WriteGuard(g, v)
          \/ \E h \in Guards \ {g} : Move(g, h)

Next == Open \/ Close \/ DestroyNoFlush \/ Use

View(p) == IF InTable(pool, p) THEN Data(pool, p) ELSE pool.disk[p]

\* Every frame is free or holds one page, no page is held twice, and the frame of a
\* page some guard holds is pinned exactly as often as guards hold it: it cannot be
\* evicted while a guard points into it, nor stay pinned when none does.
PinsAreGuards ==
  /\ ToSet(pool.free) \cup ToSet(pool.lru) = Frames /\ Len(pool.free) + Len(pool.lru) = CAPACITY
  /\ ToSet(pool.lru) = {f \in Frames : pool.page[f] # NoPage}
  /\ \A f, g \in ToSet(pool.lru) : pool.page[f] = pool.page[g] => f = g
  /\ \A g \in Guards : guard[g].page # NoPage => InTable(pool, guard[g].page)
  /\ status # "segv" => \A f \in ToSet(pool.lru) :
       pool.pin[f] = Cardinality({g \in Guards : guard[g].page = pool.page[f]})

\* Through eviction and reopening a page shows what a guard last wrote to it.
PagesKept == ~pool.torn => \A p \in owned \ pool.lost : View(p) = wrote[p]

\* The free list runs through exactly the pages allocated once and not owned now.
FreePagesListed ==
  ~pool.empty /\ ~pool.torn =>
    LET walk[n \in 0 .. LastPage + 1] ==
          IF n = 0 THEN View(0)[2]
          ELSE IF walk[n - 1] \in PageIds THEN View(walk[n - 1])[1] ELSE -1
        unowned == 1 .. View(0)[1] - 1 \ owned
    IN /\ {walk[n] : n \in 0 .. LastPage + 1} = unowned \cup {-1}
       /\ walk[Cardinality(unowned)] = -1
=============================================================================
