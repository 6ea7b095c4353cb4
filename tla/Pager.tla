------------------------------- MODULE Pager --------------------------------
(***************************************************************************)
(* The paged storage of Day 25 (pager.c; BufferPoolManager.cpp is the same *)
(* design): fixed-size pages in a file, a cache of CACHE_CAPACITY frames   *)
(* with pin counts and LRU eviction, and a list of free pages that runs    *)
(* from the header, page 0, through the first word of every free page.     *)
(*                                                                         *)
(* A page's content is its first three words: <<PAGE_SIZE, total_pages,    *)
(* free_list_head>> in the header, <<next free page, 0, 0>> in a free      *)
(* page, <<value, 0, 0>> in a page the caller has written.  Each operation *)
(* is one step of a single thread; it may fetch, evict and flush several   *)
(* pages.  malloc and pwrite may fail; a pwrite that fails writes nothing. *)
(* A NULL page that alloc or free dereferences ends the process ("segv").  *)
(***************************************************************************)
EXTENDS Integers, Sequences, FiniteSets, SequencesExt

CONSTANTS CACHE_CAPACITY, PAGE_SIZE,
          LastPage,       \* bound: page ids are 0 .. LastPage
          Values,         \* what the caller writes
          MaxPins,        \* bound: pins the caller holds on a page
          MallocMayFail, WriteMayFail

PagerAssumption ==
  /\ CACHE_CAPACITY \in Nat \ {0} /\ LastPage \in Nat \ {0}
  /\ PAGE_SIZE \in Nat \ {0}
  /\ Values \subseteq 0 .. LastPage
  /\ MaxPins \in Nat \ {0}
  /\ MallocMayFail \in BOOLEAN /\ WriteMayFail \in BOOLEAN

VARIABLES disk,      \* the content of every page in the file
          empty,     \* the file has length 0
          lru,       \* lru_list, and the keys of hash_map: the cached pages
          frame,     \* the Page of every cached page
          status,    \* "closed", "open", or "segv"
          held,      \* the pins the caller has on each page
          touched,   \* the pages the caller has written and not yet unpinned
          owned,     \* the pages allocated and not freed
          wrote,     \* history: what the caller last put into each page
          lost,      \* history: owned pages whose last content a failed write lost
          torn       \* history: a crash, or a failed write of the header or a link

file  == <<disk, empty>>
cache == <<lru, frame>>
ghost == <<owned, wrote, lost, torn>>
vars  == <<file, cache, status, held, touched, ghost>>

PageIds == 0 .. LastPage
Zeros   == <<0, 0, 0>>
Unused  == [data |-> Zeros, pin |-> 0, dirty |-> FALSE]

Init ==
  /\ disk = [p \in PageIds |-> Zeros] /\ empty = TRUE
  /\ lru = <<>> /\ frame = [p \in PageIds |-> Unused]
  /\ status = "closed"
  /\ held = [p \in PageIds |-> 0] /\ touched = {}
  /\ owned = {} /\ wrote = [p \in PageIds |-> Zeros]
  /\ lost = {} /\ torn = FALSE

-----------------------------------------------------------------------------
(* The state the helpers of pager.c work on, and what they do to it         *)

State == [disk |-> disk, lru |-> lru, frame |-> frame, lost |-> lost, torn |-> torn]

Become(s) ==
  /\ disk' = s.disk /\ lru' = s.lru /\ frame' = s.frame
  /\ lost' = s.lost /\ torn' = s.torn

Cached(s)     == {s.lru[i] : i \in DOMAIN s.lru}
Unlink(l, p)  == RemoveFirst(l, p)
ToFront(s, p) == [s EXCEPT !.lru = <<p>> \o Unlink(@, p)]

\* Slips: faulty forms of the definitions that follow them; not part of Next.
UnpinnedOverwrites(s, p, dirty) ==      \* a clean unpin undoes a dirty one
  [s EXCEPT !.frame[p].dirty = dirty,
            !.frame[p].pin = IF @ > 0 THEN @ - 1 ELSE @]
VictimsPinned(s) == DOMAIN s.lru        \* pins are not looked at

\* pager_unpin
Unpinned(s, p, dirty) ==
  [s EXCEPT !.frame[p].dirty = @ \/ dirty,
            !.frame[p].pin = IF @ > 0 THEN @ - 1 ELSE @]

\* pager_flush: a full write cleans the page, a short one leaves it dirty.
Flushes(s, p) ==
  IF ~s.frame[p].dirty THEN {s}
  ELSE {[s EXCEPT !.disk[p] = s.frame[p].data, !.frame[p].dirty = FALSE]}
         \cup (IF WriteMayFail THEN {s} ELSE {})

Victims(s) == {i \in DOMAIN s.lru : s.frame[s.lru[i]].pin = 0}
Victim(s)  == s.lru[CHOOSE i \in Victims(s) : \A j \in Victims(s) : j <= i]

Losing(s, ps) == [s EXCEPT !.lost = @ \cup (ps \cap owned), !.torn = @ \/ ~(ps \subseteq owned)]

\* The victim leaves the cache, whether its flush succeeded or not.
Drop(s, p) ==
  [Losing(s, {q \in {p} : s.frame[q].dirty}) EXCEPT
     !.lru = Unlink(@, p), !.frame[p] = Unused]

Evictions(s) == {Drop(f, Victim(s)) : f \in Flushes(s, Victim(s))}

\* A page past the end of the file reads as zeros.
Load(s, p) ==
  [s EXCEPT !.lru = <<p>> \o @,
            !.frame[p] = [data |-> s.disk[p], pin |-> 1, dirty |-> FALSE]]

\* pager_fetch: the states it may return a page in.  It may return NULL instead.
Fetches(s, p) ==
  IF p \in Cached(s) THEN {[ToFront(s, p) EXCEPT !.frame[p].pin = @ + 1]}
  ELSE IF Len(s.lru) < CACHE_CAPACITY THEN {Load(s, p)}
  ELSE IF Victims(s) = {} THEN {}
  ELSE {Load(e, p) : e \in Evictions(s)}

FetchFails(s, p) ==
  /\ p \notin Cached(s)
  /\ IF Len(s.lru) < CACHE_CAPACITY THEN MallocMayFail ELSE Victims(s) = {}

Content(s, p)        == s.frame[p].data
SetContent(s, p, d)  == [s EXCEPT !.frame[p].data = d]
TotalPages(s)        == Content(s, 0)[2]
FreeHead(s)          == Content(s, 0)[3]
SetTotal(s, n)       == [s EXCEPT !.frame[0].data[2] = n]
SetFreeHead(s, p)    == [s EXCEPT !.frame[0].data[3] = p]

-----------------------------------------------------------------------------
(* pager_open, pager_close, pager_destroy_no_flush                          *)

NewHeader == [data |-> <<PAGE_SIZE, 1, -1>>, pin |-> 0, dirty |-> TRUE]

\* In an empty file page 0 becomes the header, cached and written at once.
Open ==
  /\ status = "closed"
  /\ status' = "open"
  /\ IF empty
     THEN \E s \in Flushes([State EXCEPT !.lru = <<0>>, !.frame[0] = NewHeader], 0) :
            Become(s) /\ empty' = s.frame[0].dirty
     ELSE UNCHANGED <<file, cache, lost, torn>>
  /\ UNCHANGED <<held, touched, owned, wrote>>

Closed(s) == [s EXCEPT !.lru = <<>>, !.frame = [p \in PageIds |-> Unused]]

\* Every cached page is flushed, whatever becomes of the others' writes.
Close ==
  /\ status = "open"
  /\ \A p \in PageIds : held[p] = 0
  /\ \E failed \in SUBSET (IF WriteMayFail THEN {p \in PageIds : frame[p].dirty} ELSE {}) :
       LET written == {p \in PageIds : frame[p].dirty} \ failed
       IN  /\ Become(Closed([Losing(State, failed) EXCEPT
                 !.disk = [p \in PageIds |-> IF p \in written THEN frame[p].data ELSE @[p]]]))
           /\ empty' = (empty /\ written = {})
  /\ status' = "closed"
  /\ UNCHANGED <<held, touched, owned, wrote>>

\* The process ends without a flush; the caller, too, forgets what it had.
Destroy ==
  /\ status = "open"
  /\ Become(Closed([State EXCEPT !.torn = TRUE]))
  /\ status' = "closed"
  /\ held' = [p \in PageIds |-> 0] /\ touched' = {} /\ owned' = {}
  /\ UNCHANGED <<empty, wrote>>

-----------------------------------------------------------------------------
(* pager_fetch, a write through its pointer, pager_unpin                    *)

Wrote(s) == empty' = (empty /\ s.disk = disk)     \* any write makes the file longer

Fetch(p) ==
  /\ status = "open"
  /\ p \in owned /\ held[p] < MaxPins
  /\ \E s \in Fetches(State, p) : Become(s) /\ Wrote(s)
  /\ held' = [held EXCEPT ![p] = @ + 1]
  /\ UNCHANGED <<status, touched, owned, wrote>>

Write(p, v) ==
  /\ status = "open"
  /\ held[p] > 0
  /\ Become(SetContent(State, p, <<v, 0, 0>>))
  /\ wrote' = [wrote EXCEPT ![p] = <<v, 0, 0>>]
  /\ touched' = touched \cup {p}
  /\ UNCHANGED <<empty, status, held, owned>>

Unpin(p) ==                             \* dirty if the caller has written
  /\ status = "open"
  /\ held[p] > 0
  /\ Become(Unpinned(State, p, p \in touched))
  /\ held' = [held EXCEPT ![p] = @ - 1]
  /\ touched' = touched \ {p}
  /\ UNCHANGED <<empty, status, owned, wrote>>

-----------------------------------------------------------------------------
(* pager_alloc_page and pager_free_page                                     *)

\* A NULL page is dereferenced, after what the first fetch has done.
Segv(s) ==
  /\ status' = "segv"
  /\ Become(s) /\ Wrote(s)
  /\ UNCHANGED <<held, touched, owned, wrote>>

Give(s, p) ==                           \* page p is the caller's
  /\ Become([s EXCEPT !.lost = @ \ {p}]) /\ Wrote(s)
  /\ owned' = owned \cup {p}
  /\ wrote' = [wrote EXCEPT ![p] = IF p \in Cached(s) THEN Content(s, p) ELSE s.disk[p]]
  /\ UNCHANGED <<status, held, touched>>

AllocReuse ==                           \* the head of the free list
  /\ status = "open"
  /\ \E s \in Fetches(State, 0) :
       /\ FreeHead(s) # -1
       /\ FreeHead(s) <= LastPage        \* bound: the list is read from the file
       /\ LET p == FreeHead(s)
          IN  \E t \in Fetches(s, p) :
                Give(Unpinned(Unpinned(SetFreeHead(t, Content(t, p)[1]), p, FALSE), 0, TRUE), p)

AllocAppend ==                          \* a new page at the end of the file
  /\ status = "open"
  /\ \E s \in Fetches(State, 0) :
       /\ FreeHead(s) = -1
       /\ TotalPages(s) <= LastPage
       /\ Give(Unpinned(SetTotal(s, TotalPages(s) + 1), 0, TRUE), TotalPages(s))

AllocFails ==
  /\ status = "open"
  /\ \/ FetchFails(State, 0) /\ Segv(State)
     \/ \E s \in Fetches(State, 0) :
          FreeHead(s) \in PageIds /\ FetchFails(s, FreeHead(s)) /\ Segv(s)

LinkedLate(s, p) ==                     \* a slip: the new head linked to itself
  LET h == SetFreeHead(s, p) IN SetContent(h, p, <<FreeHead(h), 0, 0>>)

Linked(s, p) == SetFreeHead(SetContent(s, p, <<FreeHead(s), 0, 0>>), p)

Free(p) ==                              \* an owned page nobody has pinned
  /\ status = "open"
  /\ p \in owned /\ p > 0 /\ held[p] = 0
  /\ \E s \in Fetches(State, 0) : \E t \in Fetches(s, p) :
       LET u == Unpinned(Unpinned(Linked(t, p), p, TRUE), 0, TRUE)
       IN  Become([u EXCEPT !.lost = @ \ {p}]) /\ Wrote(u)
  /\ owned' = owned \ {p}
  /\ UNCHANGED <<status, held, touched, wrote>>

FreeFails(p) ==
  /\ status = "open"
  /\ p \in owned /\ p > 0 /\ held[p] = 0
  /\ \/ FetchFails(State, 0) /\ Segv(State)
     \/ \E s \in Fetches(State, 0) : FetchFails(s, p) /\ Segv(s)

-----------------------------------------------------------------------------
\* Bound: a file that may be torn is closed and reopened, but no longer used.
Use ==
  \/ AllocReuse \/ AllocAppend \/ AllocFails
  \/ \E p \in PageIds :
       \/ Fetch(p) \/ Unpin(p) \/ Free(p) \/ FreeFails(p)
       \/ \E v \in Values : Write(p, v)

Next == Open \/ Close \/ Destroy \/ (~torn /\ Use)

Spec == Init /\ [][Next]_vars
-----------------------------------------------------------------------------
(* Properties *)

\* A page as the next fetch will see it.
View(p) == IF p \in Cached(State) THEN frame[p].data ELSE disk[p]

\* The cache holds each page once, within its capacity, and every page the caller
\* has pinned with as many pins as the caller has: "cache pressure mid-operation
\* silently evicts a page someone still holds a pointer into" cannot happen.  alloc
\* and free meet a NULL page of a full cache only if the caller has left them at
\* most one frame.
CacheSound ==
  /\ lru \in Seq(PageIds) /\ Len(lru) <= CACHE_CAPACITY
  /\ Cardinality(Cached(State)) = Len(lru)
  /\ \A p \in PageIds :
       /\ status # "segv" => frame[p].pin = held[p]
       /\ held[p] > 0 => p \in Cached(State)
       /\ p \notin Cached(State) => frame[p] = Unused
  /\ status = "segv" /\ Len(lru) = CACHE_CAPACITY =>
       Cardinality({p \in PageIds : held[p] > 0}) >= CACHE_CAPACITY - 1

\* Through eviction, reload, close and reopening, a page shows what its owner last
\* wrote, unless a failed write of that page lost it; no other page's allocation, link
\* or header reaches it.
NoLostUpdate ==
  ~torn => \A p \in owned \ lost : View(p) = wrote[p]

\* The free list runs through exactly the pages that were allocated once and are
\* not owned now, each once, and ends; the header survives every eviction.
FreeListSound ==
  ~empty /\ ~torn =>
    LET header == View(0)
        walk[n \in 0 .. LastPage + 1] ==    \* the page n links down the list
          IF n = 0 THEN header[3]
          ELSE IF walk[n - 1] \in PageIds THEN View(walk[n - 1])[1] ELSE -1
        free == 1 .. header[2] - 1 \ owned
    IN  /\ header[1] = PAGE_SIZE /\ owned \subseteq 1 .. header[2] - 1
        /\ {walk[n] : n \in 0 .. LastPage + 1} = free \cup {-1}
        /\ walk[Cardinality(free)] = -1

\* Contradicted.  After a process that died and reopened the file, too, the free list
\* is a list: it runs through allocated pages, other than the header, and ends.
FreeListSurvivesCrash ==
  ~empty =>
    LET total == View(0)[2]
        walk[n \in 0 .. total] ==
          IF n = 0 THEN View(0)[3]
          ELSE IF walk[n - 1] \in PageIds THEN View(walk[n - 1])[1] ELSE walk[n - 1]
    IN  walk[total] = -1 /\ \A n \in 0 .. total : walk[n] \in 1 .. total - 1 \cup {-1}
=============================================================================
