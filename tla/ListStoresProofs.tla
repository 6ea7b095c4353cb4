-------------------------- MODULE ListStoresProofs --------------------------
(***************************************************************************)
(* The memory managers of ListStores, whose lists are their hard part, for *)
(* any number of pages, frames, pins, guards, bytes and slots.             *)
(*                                                                         *)
(* Pager of Day 25: a cached page that is pinned stays, pages keep what    *)
(* was written to them, and the free list on disk is a list of exactly the *)
(* free pages.  Each helper of pager.c keeps a sound cache (CacheOK) and   *)
(* what the pages show, up to a failed write that the history variables    *)
(* lost and torn record (Shows).  Each call is a chain of helpers, after   *)
(* which the free pages again form one list from the header on (PagerInv). *)
(*                                                                         *)
(* Buffer pool of Day 25: the same, and a frame is pinned once for every   *)
(* guard on its page, wherever the guards are moved to (BufferInv).        *)
(*                                                                         *)
(* First fit of Day 23: the blocks of the free list and those handed out   *)
(* tile the pool, and the free ones lie apart in address order; a block    *)
(* that is split, freed or merged leaves its bytes where they were         *)
(* (FitInv).  coalesce is a fold over the list: it does a finite number of *)
(* steps, each of which keeps the tiling (CoalesceSteps).                  *)
(*                                                                         *)
(* Object pool of Day 23: there is one list through the free slots,        *)
(* starting at freelist (EntityInv).                                       *)
(*                                                                         *)
(* What the recursive walks of the properties find on these lists follows  *)
(* by induction on their length: the induction is itself proved, from the  *)
(* pigeonhole principle.                                                   *)
(***************************************************************************)
EXTENDS ListStores, FiniteSetTheorems, TLAPS

-----------------------------------------------------------------------------
(* Induction, and what it gives of numbers and of sequences *)

\* A set of numbers that holds 0 and with each number the next one holds all of them:
\* were k missing, adding 1 would map the numbers of the set below k one to one into
\* those of them other than 0.
LEMMA Induction ==
  ASSUME NEW S \in SUBSET Nat, 0 \in S, \A n \in S : n + 1 \in S
  PROVE  S = Nat
<1>1. SUFFICES ASSUME NEW k \in Nat, k \notin S PROVE FALSE
  OBVIOUS
<1> DEFINE L == {s \in S : s < k}
           f == [s \in L |-> s + 1]
<1>2. IsFiniteSet(L)
  <2>1. \A s \in L : s \in 0 .. k
    OBVIOUS
  <2>2. IsFiniteSet(0 .. k)
    BY FS_Interval
  <2>3. L \subseteq 0 .. k
    BY <2>1
  <2> HIDE DEF L
  <2> QED BY <2>2, <2>3, FS_Subset
<1>3. 0 \in L
  BY <1>1
<1>4. IsFiniteSet(L \ {0}) /\ Cardinality(L \ {0}) = Cardinality(L) - 1
  <2> HIDE DEF L
  <2> QED BY <1>2, <1>3, FS_RemoveElement
<1>5. Cardinality(L \ {0}) < Cardinality(L)
  <2> HIDE DEF L
  <2> QED BY <1>2, <1>4, FS_CardinalityType
<1>6. \A s \in L : s + 1 \in L \ {0}
  BY <1>1
<1>7. f \in [L -> L \ {0}]
  BY <1>6
<1>8. \E x, y \in L : x # y /\ f[x] = f[y]
  <2> HIDE DEF L, f
  <2> QED BY <1>2, <1>4, <1>5, <1>7, FS_PigeonHole
<1> QED BY <1>8

\* A set of numbers that are at most n has a largest one.
LEMMA LargestExists ==
  ASSUME NEW n \in Nat, NEW T \in SUBSET (1 .. n), T # {}
  PROVE  \E x \in T : \A y \in T : y <= x
<1> DEFINE Has(m) == \A U \in SUBSET (1 .. m) : U # {} => \E x \in U : \A y \in U : y <= x
           S == {m \in Nat : Has(m)}
<1>1. Has(0)
  <2> SUFFICES ASSUME NEW U \in SUBSET (1 .. 0), NEW x \in U PROVE FALSE
    OBVIOUS
  <2> QED OBVIOUS
<1>2. ASSUME NEW m \in Nat, Has(m) PROVE Has(m + 1)
  <2> SUFFICES ASSUME NEW U \in SUBSET (1 .. m + 1), U # {}
               PROVE  \E x \in U : \A y \in U : y <= x
    OBVIOUS
  <2>1. CASE m + 1 \in U
    BY <2>1
  <2>2. CASE m + 1 \notin U
    <3>1. \A x \in U : x \in 1 .. m
      BY <2>2
    <3>2. U \in SUBSET (1 .. m)
      BY <3>1
    <3> QED BY <3>2, <1>2
  <2> QED BY <2>1, <2>2
<1> HIDE DEF Has
<1>3. 0 \in S /\ \A m \in S : m + 1 \in S
  BY <1>1, <1>2
<1>4. S = Nat
  <2>1. S \in SUBSET Nat
    OBVIOUS
  <2> HIDE DEF S
  <2> QED BY <1>3, <2>1, Induction
<1>5. Has(n)
  BY <1>4
<1> QED BY <1>5 DEF Has

Distinct(l) == \A i, j \in DOMAIN l : l[i] = l[j] => i = j
Members(l)  == {l[i] : i \in DOMAIN l}

\* A sequence without repetition is as long as the set of its members is large.
LEMMA DistinctCount ==
  ASSUME NEW S, NEW l \in Seq(S), Distinct(l)
  PROVE  IsFiniteSet(Members(l)) /\ Cardinality(Members(l)) = Len(l)
<1>1. l \in Bijection(1 .. Len(l), Members(l))
  BY DEF Distinct, Members, Bijection, Injection, Surjection, IsInjective
<1>2. ExistsBijection(1 .. Len(l), Members(l)) /\ Len(l) \in Nat
  BY <1>1 DEF ExistsBijection
<1>3. Cardinality(Members(l)) = Len(l)
  <2> HIDE DEF Members
  <2> QED BY <1>2, FS_CountingElements
<1>4. IsFiniteSet(Members(l))
  <2>1. IsFiniteSet(1 .. Len(l))
    BY <1>2, FS_Interval
  <2> QED BY <1>1, <2>1, FS_Bijection DEF ExistsBijection
<1> QED BY <1>3, <1>4

-----------------------------------------------------------------------------
(* Day 25: the pager *)

Triples    == [1 .. 3 -> Int]
PageFrames == [data : Triples, pin : Nat, dirty : BOOLEAN]
PageStates ==
  [disk : [Pages!PageIds -> Triples], lru : Seq(Pages!PageIds),
   frame : [Pages!PageIds -> PageFrames], lost : SUBSET Pages!PageIds, torn : BOOLEAN]

\* What a fetch of p will show.
Seen(s, p) == IF p \in Pages!Cached(s) THEN s.frame[p].data ELSE s.disk[p]

\* Each page is cached once, and a page that is not has an empty frame; a clean page that
\* nobody is writing is as it is on disk, so that it may be dropped without a flush.  A
\* page somebody is writing is pinned.
CacheOK(s, writing) ==
  /\ s \in PageStates
  /\ Len(s.lru) <= CACHE_CAPACITY /\ Distinct(s.lru)
  /\ \A p \in Pages!PageIds :
       /\ p \notin Pages!Cached(s) => s.frame[p] = Pages!Unused
       /\ p \in Pages!Cached(s) =>
            s.frame[p].dirty \/ p \in writing \/ s.disk[p] = s.frame[p].data
       /\ p \in writing => s.frame[p].pin > 0

\* In t every page shows what it showed in s, if no failed write lost it.
Shows(s, t) ==
  /\ s.lost \subseteq t.lost /\ (s.torn => t.torn)
  /\ \A p \in Pages!PageIds :
       \/ Seen(t, p) = Seen(s, p)
       \/ p \in owned /\ p \in t.lost
       \/ p \notin owned /\ t.torn

LEMMA PagerConstants ==
  /\ CACHE_CAPACITY \in Nat \ {0} /\ LastPage \in Nat \ {0} /\ PAGE_SIZE \in Nat \ {0}
  /\ Values \subseteq 0 .. LastPage /\ MallocMayFail \in BOOLEAN /\ WriteMayFail \in BOOLEAN
  /\ Pages!Zeros \in Triples /\ Pages!Unused \in PageFrames
BY PagesUsable DEF Pages!PagerAssumption, Pages!Zeros, Pages!Unused, Triples, PageFrames

LEMMA Behind ==
  ASSUME NEW S, NEW a \in Seq(S), NEW b \in Seq(S), NEW i \in 1 .. Len(a) + Len(b),
         i - Len(a) \in 1 .. Len(b)
  PROVE  (a \o b)[i] = b[i - Len(a)]
OBVIOUS

\* The list without what is at place k.
LEMMA Dropped ==
  ASSUME NEW S, NEW l \in Seq(S), NEW k \in DOMAIN l
  PROVE  LET m == SubSeq(l, 1, k - 1) \o SubSeq(l, k + 1, Len(l))
         IN  /\ m \in Seq(S) /\ Len(m) = Len(l) - 1
             /\ \A i \in 1 .. Len(l) - 1 : m[i] = IF i < k THEN l[i] ELSE l[i + 1]
<1> DEFINE a == SubSeq(l, 1, k - 1)
           b == SubSeq(l, k + 1, Len(l))
<1>1. /\ a \in Seq(S) /\ Len(a) = k - 1 /\ \A i \in 1 .. k - 1 : a[i] = l[i]
      /\ b \in Seq(S) /\ Len(b) = Len(l) - k /\ \A i \in 1 .. Len(l) - k : b[i] = l[i + k]
  OBVIOUS
<1>2. k \in 1 .. Len(l) /\ Len(l) \in Nat
  OBVIOUS
<1> HIDE DEF a, b
<1>3. a \o b \in Seq(S) /\ Len(a \o b) = Len(l) - 1
  BY <1>1, <1>2
<1>4. ASSUME NEW i \in 1 .. Len(l) - 1
      PROVE  (a \o b)[i] = IF i < k THEN l[i] ELSE l[i + 1]
  <2>1. CASE i < k
    <3>1. (a \o b)[i] = a[i]
      BY <1>1, <1>2, <2>1
    <3> QED BY <3>1, <1>1, <1>2, <2>1
  <2>2. CASE ~(i < k)
    <3>1. i - (k - 1) \in 1 .. Len(l) - k /\ i \in 1 .. (k - 1) + (Len(l) - k)
      BY <1>2, <2>2
    <3>2. Len(a) = k - 1 /\ Len(b) = Len(l) - k
      BY <1>1
    <3>3. i - Len(a) \in 1 .. Len(b) /\ i \in 1 .. Len(a) + Len(b)
      BY <3>2, <3>1
    <3>4. (a \o b)[i] = b[i - Len(a)]
      BY <1>1, <3>3, Behind
    <3>5. i - Len(a) \in 1 .. Len(l) - k /\ (i - Len(a)) + k = i + 1
      BY <1>1, <1>2, <2>2
    <3>6. b[i - Len(a)] = l[(i - Len(a)) + k]
      BY <3>5, <1>1
    <3> QED BY <3>5, <3>6, <3>4, <2>2
  <2> QED BY <2>1, <2>2
<1> QED BY <1>3, <1>4 DEF a, b

\* The list without p.
LEMMA Unlinked ==
  ASSUME NEW S, NEW l \in Seq(S), NEW p, Distinct(l), p \in Members(l)
  PROVE  /\ Pages!Unlink(l, p) \in Seq(S) /\ Distinct(Pages!Unlink(l, p))
         /\ Members(Pages!Unlink(l, p)) = Members(l) \ {p}
         /\ Len(Pages!Unlink(l, p)) = Len(l) - 1
<1>1. PICK k \in DOMAIN l : l[k] = p
  BY DEF Members
<1> DEFINE m == SubSeq(l, 1, k - 1) \o SubSeq(l, k + 1, Len(l))
<1>2. {i \in 1 .. Len(l) : l[i] = p} = {k}
  BY <1>1 DEF Distinct
<1>3. Pages!Min({k}) = k
  BY DEF Pages!Min
<1>4. Pages!Unlink(l, p) = m
  BY <1>1, <1>2, <1>3
     DEF Pages!Unlink, Pages!RemoveFirst, Pages!RemoveAt, Pages!SelectInSeq
<1>5. /\ m \in Seq(S) /\ Len(m) = Len(l) - 1
      /\ \A i \in 1 .. Len(m) : m[i] = IF i < k THEN l[i] ELSE l[i + 1]
  <2>1. /\ m \in Seq(S) /\ Len(m) = Len(l) - 1
        /\ \A i \in 1 .. Len(l) - 1 : m[i] = IF i < k THEN l[i] ELSE l[i + 1]
    BY Dropped
  <2> HIDE DEF m
  <2> QED BY <2>1
<1>6. Distinct(m)
  <2> HIDE DEF m
  <2> DEFINE at(i) == IF i < k THEN i ELSE i + 1
  <2>1. \A i \in DOMAIN m : at(i) \in DOMAIN l /\ m[i] = l[at(i)]
    BY <1>1, <1>5
  <2>2. \A i, j \in DOMAIN m : at(i) = at(j) => i = j
    BY <1>1, <1>5
  <2> HIDE DEF at
  <2> QED BY <2>1, <2>2 DEF Distinct
<1>7. Members(m) = Members(l) \ {p}
  <2> HIDE DEF m
  <2>1. ASSUME NEW i \in DOMAIN m PROVE m[i] \in Members(l) \ {p}
    <3>1. CASE i < k
      BY <3>1, <1>1, <1>5 DEF Members, Distinct
    <3>2. CASE ~(i < k)
      <4>1. i + 1 \in DOMAIN l /\ m[i] = l[i + 1] /\ i + 1 # k
        BY <3>2, <1>1, <1>5
      <4> QED BY <4>1, <1>1 DEF Members, Distinct
    <3> QED BY <3>1, <3>2
  <2>2. ASSUME NEW i \in DOMAIN l, l[i] # p PROVE l[i] \in Members(m)
    <3>1. CASE i < k
      <4>1. i \in DOMAIN m /\ m[i] = l[i]
        BY <3>1, <1>1, <1>5
      <4> QED BY <4>1 DEF Members
    <3>2. CASE i > k
      <4>1. i - 1 \in DOMAIN m /\ m[i - 1] = l[i]
        BY <3>2, <1>1, <1>5
      <4> QED BY <4>1 DEF Members
    <3> QED BY <3>1, <3>2, <2>2, <1>1
  <2> QED BY <2>1, <2>2 DEF Members
<1> QED BY <1>4, <1>5, <1>6, <1>7

\* The list with p in front.
LEMMA InFront ==
  ASSUME NEW S, NEW l \in Seq(S), NEW p \in S, Distinct(l), p \notin Members(l)
  PROVE  /\ <<p>> \o l \in Seq(S) /\ Distinct(<<p>> \o l)
         /\ Members(<<p>> \o l) = Members(l) \cup {p}
         /\ Len(<<p>> \o l) = Len(l) + 1
<1> DEFINE m == <<p>> \o l
<1>1. /\ m \in Seq(S) /\ Len(m) = Len(l) + 1
      /\ m[1] = p /\ \A i \in 2 .. Len(m) : m[i] = l[i - 1]
  OBVIOUS
<1>2. \A i \in DOMAIN l : m[i + 1] = l[i] /\ i + 1 \in DOMAIN m
  BY <1>1
<1> HIDE DEF m
<1>3. Distinct(m)
  <2>1. \A i \in DOMAIN l : l[i] # p
    BY DEF Members
  <2>2. ASSUME NEW i \in DOMAIN m, NEW j \in DOMAIN m, m[i] = m[j] PROVE i = j
    <3>1. /\ i \in 1 .. Len(l) + 1 /\ j \in 1 .. Len(l) + 1 /\ Len(l) \in Nat
          /\ DOMAIN l = 1 .. Len(l)
      BY <1>1
    <3>2. CASE i = 1 \/ j = 1
      BY <3>1, <3>2, <2>1, <2>2, <1>1
    <3>3. CASE i # 1 /\ j # 1
      <4>1. i - 1 \in DOMAIN l /\ j - 1 \in DOMAIN l /\ l[i - 1] = l[j - 1]
        BY <3>1, <3>3, <2>2, <1>1
      <4>2. i - 1 = j - 1
        BY <4>1 DEF Distinct
      <4> QED BY <4>2, <3>1
    <3> QED BY <3>2, <3>3
  <2> QED BY <2>2 DEF Distinct
<1>4. Members(m) = Members(l) \cup {p}
  <2>1. ASSUME NEW i \in DOMAIN m PROVE m[i] \in Members(l) \cup {p}
    BY <1>1 DEF Members
  <2>2. ASSUME NEW i \in DOMAIN l PROVE l[i] \in Members(m)
    BY <1>1, <1>2 DEF Members
  <2>3. p \in Members(m)
    BY <1>1 DEF Members
  <2> QED BY <2>1, <2>2, <2>3 DEF Members
<1> QED BY <1>1, <1>3, <1>4 DEF m

LEMMA CachedIs ==
  ASSUME NEW s
  PROVE  Pages!Cached(s) = Members(s.lru)
BY DEF Pages!Cached, Members

\* Two states whose lists hold the same pages in any order are the same to a fetch.
LEMMA Reordered ==
  ASSUME NEW s, NEW writing, CacheOK(s, writing),
         NEW l \in Seq(Pages!PageIds), Distinct(l), Members(l) = Members(s.lru),
         Len(l) <= CACHE_CAPACITY
  PROVE  LET t == [s EXCEPT !.lru = l]
         IN  /\ CacheOK(t, writing) /\ Pages!Cached(t) = Pages!Cached(s)
             /\ t.frame = s.frame /\ t.disk = s.disk /\ t.lost = s.lost /\ t.torn = s.torn
             /\ \A p : Seen(t, p) = Seen(s, p)
<1> DEFINE t == [s EXCEPT !.lru = l]
<1>1. s \in PageStates
  BY DEF CacheOK
<1>2. /\ t \in PageStates /\ t.lru = l
      /\ t.frame = s.frame /\ t.disk = s.disk /\ t.lost = s.lost /\ t.torn = s.torn
  BY <1>1 DEF PageStates
<1> HIDE DEF t
<1>3. Pages!Cached(t) = Pages!Cached(s)
  BY <1>2, CachedIs
<1> QED BY <1>2, <1>3 DEF CacheOK, Seen, t

\* A page that is used again goes to the front.
LEMMA FrontKeeps ==
  ASSUME NEW s, NEW writing, CacheOK(s, writing), NEW p \in Pages!Cached(s)
  PROVE  LET t == Pages!ToFront(s, p)
         IN  /\ CacheOK(t, writing) /\ Pages!Cached(t) = Pages!Cached(s)
             /\ t.frame = s.frame /\ t.disk = s.disk /\ t.lost = s.lost /\ t.torn = s.torn
             /\ \A q : Seen(t, q) = Seen(s, q)
<1> DEFINE m == Pages!Unlink(s.lru, p)
<1>1. s.lru \in Seq(Pages!PageIds) /\ Distinct(s.lru) /\ Len(s.lru) <= CACHE_CAPACITY
  BY DEF CacheOK, PageStates
<1>2. p \in Members(s.lru) /\ p \in Pages!PageIds
  BY <1>1, CachedIs DEF Members
<1>3. /\ m \in Seq(Pages!PageIds) /\ Distinct(m)
      /\ Members(m) = Members(s.lru) \ {p} /\ Len(m) = Len(s.lru) - 1
  BY <1>1, <1>2, Unlinked
<1> HIDE DEF m
<1>4. /\ <<p>> \o m \in Seq(Pages!PageIds) /\ Distinct(<<p>> \o m)
      /\ Members(<<p>> \o m) = Members(m) \cup {p} /\ Len(<<p>> \o m) = Len(m) + 1
  BY <1>2, <1>3, InFront
<1>5. Len(s.lru) \in Nat
  BY <1>1
<1>6. Members(<<p>> \o m) = Members(s.lru)
  BY <1>2, <1>3, <1>4
<1>8. Len(<<p>> \o m) = Len(s.lru)
  BY <1>3, <1>4, <1>5
<1>7. Pages!ToFront(s, p) = [s EXCEPT !.lru = <<p>> \o m]
  BY DEF Pages!ToFront, m
<1> DEFINE l == <<p>> \o m
<1>9. /\ l \in Seq(Pages!PageIds) /\ Distinct(l) /\ Members(l) = Members(s.lru)
      /\ Len(l) <= CACHE_CAPACITY /\ Pages!ToFront(s, p) = [s EXCEPT !.lru = l]
  BY <1>1, <1>4, <1>6, <1>7, <1>8
<1> HIDE DEF l
<1> QED BY <1>9, Reordered

\* A flush that succeeds brings the disk up to date; one that fails changes nothing.
LEMMA FlushKeeps ==
  ASSUME NEW s, NEW writing, CacheOK(s, writing), NEW p \in Pages!Cached(s),
         NEW t \in Pages!Flushes(s, p)
  PROVE  /\ CacheOK(t, writing) /\ t.lru = s.lru /\ t.lost = s.lost /\ t.torn = s.torn
         /\ \A q \in Pages!PageIds : t.frame[q].pin = s.frame[q].pin
         /\ \A q \in Pages!PageIds : Seen(t, q) = Seen(s, q)
<1>1. s \in PageStates /\ p \in Pages!PageIds
  BY CachedIs DEF CacheOK, PageStates, Members
<1>2. CASE t = s
  BY <1>2
<1>3. CASE t = [s EXCEPT !.disk[p] = s.frame[p].data, !.frame[p].dirty = FALSE]
  <2>1. /\ s.frame[p] \in PageFrames
        /\ t.disk = [s.disk EXCEPT ![p] = s.frame[p].data]
        /\ t.frame = [s.frame EXCEPT ![p] = [@ EXCEPT !.dirty = FALSE]]
        /\ t.lru = s.lru /\ t.lost = s.lost /\ t.torn = s.torn
        /\ t = [disk |-> t.disk, lru |-> t.lru, frame |-> t.frame, lost |-> t.lost,
                torn |-> t.torn]
    BY <1>1, <1>3 DEF PageStates
  <2>2. /\ \A q \in Pages!PageIds \ {p} : t.frame[q] = s.frame[q] /\ t.disk[q] = s.disk[q]
        /\ t.frame[p].data = s.frame[p].data /\ t.frame[p].pin = s.frame[p].pin
        /\ t.disk[p] = s.frame[p].data
    BY <1>1, <2>1 DEF PageStates, PageFrames
  <2>3. t \in PageStates
    <3>1. [s.frame[p] EXCEPT !.dirty = FALSE] \in PageFrames /\ s.frame[p].data \in Triples
      BY <2>1 DEF PageFrames
    <3>2. t.disk \in [Pages!PageIds -> Triples] /\ t.frame \in [Pages!PageIds -> PageFrames]
      BY <1>1, <2>1, <3>1 DEF PageStates
    <3> QED BY <1>1, <2>1, <3>2 DEF PageStates
  <2>4. Pages!Cached(t) = Pages!Cached(s)
    BY <2>1 DEF Pages!Cached
  <2>5. CacheOK(t, writing)
    BY <2>1, <2>2, <2>3, <2>4 DEF CacheOK
  <2>6. \A q \in Pages!PageIds : Seen(t, q) = Seen(s, q)
    BY <2>2, <2>4 DEF Seen
  <2> QED BY <2>1, <2>2, <2>5, <2>6
<1> QED BY <1>2, <1>3 DEF Pages!Flushes

\* An unpinned page leaves the cache, flushed or not.
LEMMA DropKeeps ==
  ASSUME NEW s, NEW writing, CacheOK(s, writing), NEW p \in Pages!Cached(s),
         s.frame[p].pin = 0
  PROVE  LET t == Pages!Drop(s, p)
         IN  /\ CacheOK(t, writing) /\ Pages!Cached(t) = Pages!Cached(s) \ {p}
             /\ Len(t.lru) = Len(s.lru) - 1
             /\ \A q \in Pages!PageIds : t.frame[q].pin = s.frame[q].pin
             /\ \A q \in Pages!PageIds \ {p} : Seen(t, q) = Seen(s, q)
             /\ Shows(s, t)
<1> DEFINE t == Pages!Drop(s, p)
           m == Pages!Unlink(s.lru, p)
           loses == {q \in {p} : s.frame[q].dirty}
<1>1. /\ s \in PageStates /\ Distinct(s.lru) /\ s.lru \in Seq(Pages!PageIds)
      /\ Len(s.lru) <= CACHE_CAPACITY /\ Len(s.lru) \in Nat
  BY DEF CacheOK, PageStates
<1>2. p \in Members(s.lru) /\ p \in Pages!PageIds
  BY <1>1, CachedIs DEF Members
<1>3. /\ m \in Seq(Pages!PageIds) /\ Distinct(m)
      /\ Members(m) = Members(s.lru) \ {p} /\ Len(m) = Len(s.lru) - 1
  BY <1>1, <1>2, Unlinked
<1> HIDE DEF m
<1>4. /\ t.disk = s.disk /\ t.lru = m /\ t.frame = [s.frame EXCEPT ![p] = Pages!Unused]
      /\ t.lost = s.lost \cup (loses \cap owned)
      /\ t.torn = (s.torn \/ ~(loses \subseteq owned))
      /\ t = [disk |-> t.disk, lru |-> t.lru, frame |-> t.frame, lost |-> t.lost,
              torn |-> t.torn]
  <2> DEFINE x == Pages!Losing(s, loses)
  <2>1. /\ x.disk = s.disk /\ x.lru = s.lru /\ x.frame = s.frame
        /\ x.lost = s.lost \cup (loses \cap owned)
        /\ x.torn = (s.torn \/ ~(loses \subseteq owned))
        /\ x = [disk |-> x.disk, lru |-> x.lru, frame |-> x.frame, lost |-> x.lost,
                torn |-> x.torn]
    <3> DEFINE gone == s.lost \cup (loses \cap owned)
               tears == s.torn \/ ~(loses \subseteq owned)
    <3>1. x = [s EXCEPT !.lost = gone, !.torn = tears]
      BY DEF Pages!Losing
    <3> HIDE DEF loses, x, gone, tears
    <3>2. x.disk = s.disk /\ x.lru = s.lru /\ x.frame = s.frame /\ x.lost = gone
      BY <1>1, <3>1 DEF PageStates
    <3>3. x.torn = tears
      BY <1>1, <3>1 DEF PageStates
    <3>4. x = [disk |-> x.disk, lru |-> x.lru, frame |-> x.frame, lost |-> x.lost,
               torn |-> x.torn]
      BY <1>1, <3>1 DEF PageStates
    <3> QED BY <3>2, <3>3, <3>4 DEF gone, tears
  <2>2. t = [x EXCEPT !.lru = Pages!Unlink(@, p), !.frame[p] = Pages!Unused]
    BY DEF Pages!Drop
  <2> HIDE DEF x, t, loses
  <2> QED BY <2>1, <2>2 DEF m
<1> HIDE DEF t
<1>5. loses \subseteq {p} /\ (s.frame[p].dirty <=> p \in loses)
  OBVIOUS
<1> HIDE DEF loses
<1>6. t \in PageStates
  <2>1. t.frame \in [Pages!PageIds -> PageFrames] /\ t.lost \in SUBSET Pages!PageIds
    BY <1>1, <1>2, <1>4, <1>5, PagerConstants DEF PageStates
  <2>2. t.torn \in BOOLEAN
    BY <1>4
  <2> QED BY <1>1, <1>3, <1>4, <2>1, <2>2 DEF PageStates
<1>7. Pages!Cached(t) = Pages!Cached(s) \ {p}
  BY <1>3, <1>4, CachedIs
<1>8. /\ \A q \in Pages!PageIds \ {p} : t.frame[q] = s.frame[q]
      /\ t.frame[p] = Pages!Unused /\ t.frame[p].pin = 0
  BY <1>1, <1>2, <1>4 DEF PageStates, Pages!Unused
<1>9. CacheOK(t, writing)
  <2>1. Len(t.lru) <= CACHE_CAPACITY
    BY <1>1, <1>3, <1>4, PagerConstants
  <2>2. p \notin writing
    BY <1>2 DEF CacheOK
  <2> QED BY <1>3, <1>4, <1>6, <1>7, <1>8, <2>1, <2>2 DEF CacheOK
<1>10. \A q \in Pages!PageIds \ {p} : Seen(t, q) = Seen(s, q)
  BY <1>4, <1>7, <1>8 DEF Seen
<1>11. Seen(t, p) = Seen(s, p) \/ p \in loses
  <2>1. p \notin writing
    BY <1>2 DEF CacheOK
  <2>2. s.frame[p].dirty \/ s.disk[p] = s.frame[p].data
    BY <1>2, <2>1 DEF CacheOK
  <2> QED BY <2>2, <1>4, <1>5, <1>7 DEF Seen
<1>12. Shows(s, t)
  BY <1>4, <1>10, <1>11 DEF Shows
<1> QED BY <1>3, <1>4, <1>7, <1>8, <1>9, <1>10, <1>12 DEF t

\* A page that is not cached is read into a frame of its own, pinned once.
LEMMA LoadKeeps ==
  ASSUME NEW s, NEW writing, CacheOK(s, writing), NEW p \in Pages!PageIds \ Pages!Cached(s),
         Len(s.lru) < CACHE_CAPACITY
  PROVE  LET t == Pages!Load(s, p)
         IN  /\ CacheOK(t, writing) /\ p \in Pages!Cached(t)
             /\ \A q \in Pages!PageIds :
                  t.frame[q].pin = IF q = p THEN s.frame[q].pin + 1 ELSE s.frame[q].pin
             /\ \A q \in Pages!PageIds : Seen(t, q) = Seen(s, q)
             /\ t.lost = s.lost /\ t.torn = s.torn
<1> DEFINE t == Pages!Load(s, p)
           new == [data |-> s.disk[p], pin |-> 1, dirty |-> FALSE]
<1>1. /\ s \in PageStates /\ Distinct(s.lru) /\ s.lru \in Seq(Pages!PageIds)
      /\ Len(s.lru) \in Nat
  BY DEF CacheOK, PageStates
<1>2. /\ t.disk = s.disk /\ t.lru = <<p>> \o s.lru
      /\ t.frame = [s.frame EXCEPT ![p] = new]
      /\ t.lost = s.lost /\ t.torn = s.torn
      /\ t = [disk |-> t.disk, lru |-> t.lru, frame |-> t.frame, lost |-> t.lost,
              torn |-> t.torn]
  <2>1. t = [s EXCEPT !.lru = <<p>> \o @, !.frame[p] = new]
    BY DEF Pages!Load
  <2> HIDE DEF t, new
  <2> QED BY <2>1, <1>1 DEF PageStates
<1>3. p \notin Members(s.lru)
  BY CachedIs
<1>4. /\ t.lru \in Seq(Pages!PageIds) /\ Distinct(t.lru)
      /\ Members(t.lru) = Members(s.lru) \cup {p} /\ Len(t.lru) = Len(s.lru) + 1
  BY <1>1, <1>2, <1>3, InFront
<1> HIDE DEF t
<1>5. new \in PageFrames /\ new.data = s.disk[p] /\ new.pin = 1
  BY <1>1 DEF PageStates, PageFrames
<1> HIDE DEF new
<1>6. t \in PageStates
  <2>1. t.frame \in [Pages!PageIds -> PageFrames]
    BY <1>1, <1>2, <1>5 DEF PageStates
  <2> QED BY <1>1, <1>2, <1>4, <2>1 DEF PageStates
<1>7. Pages!Cached(t) = Pages!Cached(s) \cup {p}
  BY <1>4, CachedIs
<1>8. /\ \A q \in Pages!PageIds \ {p} : t.frame[q] = s.frame[q]
      /\ t.frame[p] = new
  BY <1>1, <1>2 DEF PageStates
<1>9. s.frame[p].pin = 0 /\ p \notin writing
  BY DEF CacheOK, Pages!Unused
<1>10. CacheOK(t, writing)
  <2>1. Len(t.lru) <= CACHE_CAPACITY
    BY <1>1, <1>4, PagerConstants
  <2> QED BY <1>2, <1>4, <1>5, <1>6, <1>7, <1>8, <1>9, <2>1 DEF CacheOK
<1>11. \A q \in Pages!PageIds : Seen(t, q) = Seen(s, q)
  BY <1>2, <1>5, <1>7, <1>8 DEF Seen
<1> QED BY <1>2, <1>5, <1>7, <1>8, <1>9, <1>10, <1>11 DEF t

\* The victim is a page nobody has pinned.
LEMMA VictimIs ==
  ASSUME NEW s, NEW writing, CacheOK(s, writing), Pages!Victims(s) # {}
  PROVE  Pages!Victim(s) \in Pages!Cached(s) /\ s.frame[Pages!Victim(s)].pin = 0
<1>1. s.lru \in Seq(Pages!PageIds) /\ Len(s.lru) \in Nat
  BY DEF CacheOK, PageStates
<1>2. Pages!Victims(s) \in SUBSET (1 .. Len(s.lru))
  BY <1>1 DEF Pages!Victims
<1>3. \E i \in Pages!Victims(s) : \A j \in Pages!Victims(s) : j <= i
  BY <1>1, <1>2, LargestExists
<1>4. PICK i \in Pages!Victims(s) : Pages!Victim(s) = s.lru[i]
  BY <1>3 DEF Pages!Victim
<1> QED BY <1>4 DEF Pages!Victims, Pages!Cached

\* What a fetch that finds a frame does: p is cached with one more pin, and p and every
\* pinned page show what they did.
LEMMA FetchKeeps ==
  ASSUME NEW s, NEW writing, CacheOK(s, writing), NEW p \in Pages!PageIds,
         NEW t \in Pages!Fetches(s, p)
  PROVE  /\ CacheOK(t, writing) /\ p \in Pages!Cached(t)
         /\ \A q \in Pages!PageIds :
              t.frame[q].pin = IF q = p THEN s.frame[q].pin + 1 ELSE s.frame[q].pin
         /\ \A q \in Pages!PageIds :
              q = p \/ s.frame[q].pin > 0 => Seen(t, q) = Seen(s, q)
         /\ Shows(s, t)
<1>1. CASE p \in Pages!Cached(s)
  <2> DEFINE f == Pages!ToFront(s, p)
  <2>1. /\ CacheOK(f, writing) /\ Pages!Cached(f) = Pages!Cached(s)
        /\ f.frame = s.frame /\ f.disk = s.disk /\ f.lost = s.lost /\ f.torn = s.torn
        /\ \A q : Seen(f, q) = Seen(s, q)
    BY <1>1, FrontKeeps
  <2>2. t = [f EXCEPT !.frame[p].pin = @ + 1]
    BY <1>1 DEF Pages!Fetches
  <2> HIDE DEF f
  <2>3. f \in PageStates
    BY <2>1 DEF CacheOK
  <2>4. /\ t.disk = f.disk /\ t.lru = f.lru /\ t.lost = f.lost /\ t.torn = f.torn
        /\ t.frame = [f.frame EXCEPT ![p].pin = @ + 1]
        /\ t = [disk |-> t.disk, lru |-> t.lru, frame |-> t.frame, lost |-> t.lost,
                torn |-> t.torn]
    BY <2>2, <2>3 DEF PageStates
  <2>5. /\ \A q \in Pages!PageIds \ {p} : t.frame[q] = f.frame[q]
        /\ f.frame[p] \in PageFrames /\ t.frame[p] = [f.frame[p] EXCEPT !.pin = @ + 1]
    BY <2>3, <2>4 DEF PageStates
  <2>6. /\ t.frame[p] \in PageFrames
        /\ t.frame[p].data = f.frame[p].data /\ t.frame[p].dirty = f.frame[p].dirty
        /\ t.frame[p].pin = f.frame[p].pin + 1 /\ f.frame[p].pin \in Nat
    BY <2>5 DEF PageFrames
  <2>7. t \in PageStates
    <3>1. t.frame \in [Pages!PageIds -> PageFrames]
      BY <2>3, <2>4, <2>5, <2>6 DEF PageStates
    <3> QED BY <2>3, <2>4, <3>1 DEF PageStates
  <2>8. Pages!Cached(t) = Pages!Cached(f)
    BY <2>4 DEF Pages!Cached
  <2>9. CacheOK(t, writing)
    BY <1>1, <2>1, <2>4, <2>5, <2>6, <2>7, <2>8 DEF CacheOK
  <2>10. \A q \in Pages!PageIds : Seen(t, q) = Seen(s, q)
    BY <2>1, <2>4, <2>5, <2>6, <2>8 DEF Seen
  <2>11. Shows(s, t)
    BY <2>1, <2>4, <2>10 DEF Shows
  <2> QED BY <1>1, <2>1, <2>5, <2>6, <2>8, <2>9, <2>10, <2>11
<1>2. CASE p \notin Pages!Cached(s) /\ Len(s.lru) < CACHE_CAPACITY
  <2>1. t = Pages!Load(s, p)
    BY <1>2 DEF Pages!Fetches
  <2> QED BY <1>2, <2>1, LoadKeeps DEF Shows
<1>3. CASE p \notin Pages!Cached(s) /\ ~(Len(s.lru) < CACHE_CAPACITY)
  <2> DEFINE v == Pages!Victim(s)
  <2>1. Pages!Victims(s) # {} /\ \E e \in Pages!Evictions(s) : t = Pages!Load(e, p)
    BY <1>3 DEF Pages!Fetches
  <2>2. v \in Pages!Cached(s) /\ s.frame[v].pin = 0
    BY <2>1, VictimIs
  <2>3. PICK f \in Pages!Flushes(s, v) : t = Pages!Load(Pages!Drop(f, v), p)
    BY <2>1 DEF Pages!Evictions
  <2> HIDE DEF v
  <2>4. /\ CacheOK(f, writing) /\ f.lru = s.lru /\ f.lost = s.lost /\ f.torn = s.torn
        /\ \A q \in Pages!PageIds : f.frame[q].pin = s.frame[q].pin
        /\ \A q \in Pages!PageIds : Seen(f, q) = Seen(s, q)
    BY <2>2, FlushKeeps
  <2>5. Pages!Cached(f) = Pages!Cached(s) /\ v \in Pages!PageIds
    BY <2>2, <2>4 DEF Pages!Cached, CacheOK, PageStates
  <2>6. v \in Pages!Cached(f) /\ f.frame[v].pin = 0
    BY <2>2, <2>4, <2>5
  <2> DEFINE e == Pages!Drop(f, v)
  <2>7. /\ CacheOK(e, writing) /\ Pages!Cached(e) = Pages!Cached(f) \ {v}
        /\ Len(e.lru) = Len(f.lru) - 1
        /\ \A q \in Pages!PageIds : e.frame[q].pin = f.frame[q].pin
        /\ \A q \in Pages!PageIds \ {v} : Seen(e, q) = Seen(f, q)
        /\ Shows(f, e)
    BY <2>4, <2>6, DropKeeps
  <2>8. Len(s.lru) \in Nat /\ Len(s.lru) <= CACHE_CAPACITY
    BY DEF CacheOK, PageStates
  <2> HIDE DEF e
  <2>9. p \in Pages!PageIds \ Pages!Cached(e) /\ Len(e.lru) < CACHE_CAPACITY
    BY <1>3, <2>4, <2>5, <2>7, <2>8, PagerConstants
  <2>10. /\ CacheOK(t, writing) /\ p \in Pages!Cached(t)
         /\ \A q \in Pages!PageIds :
              t.frame[q].pin = IF q = p THEN e.frame[q].pin + 1 ELSE e.frame[q].pin
         /\ \A q \in Pages!PageIds : Seen(t, q) = Seen(e, q)
         /\ t.lost = e.lost /\ t.torn = e.torn
    BY <2>3, <2>7, <2>9, LoadKeeps DEF e
  <2>11. v # p
    BY <1>3, <2>2
  <2>12. \A q \in Pages!PageIds : q = p \/ s.frame[q].pin > 0 => Seen(t, q) = Seen(s, q)
    BY <2>2, <2>4, <2>7, <2>10, <2>11
  <2>13. Shows(s, t)
    BY <2>4, <2>7, <2>10 DEF Shows
  <2> QED BY <2>4, <2>7, <2>10, <2>12, <2>13
<1> QED BY <1>1, <1>2, <1>3

\* w is the free list of s when the pages own are in use: it runs through the others,
\* each once, from the header on.
Chained(s, own, w) ==
  /\ w \in Seq(Pages!PageIds) /\ Distinct(w)
  /\ Members(w) = 1 .. Seen(s, 0)[2] - 1 \ own
  /\ Seen(s, 0)[3] = IF w = <<>> THEN -1 ELSE w[1]
  /\ \A i \in DOMAIN w : Seen(s, w[i])[1] = IF i < Len(w) THEN w[i + 1] ELSE -1

HeaderOK(s, own) ==
  /\ Seen(s, 0)[1] = PAGE_SIZE /\ Seen(s, 0)[2] \in 1 .. LastPage + 1
  /\ own \subseteq 1 .. Seen(s, 0)[2] - 1
  /\ \E w : Chained(s, own, w)

Keeps(s, own, written) == \A p \in own \ s.lost : Seen(s, p) = written[p]

PagerInv ==
  /\ /\ status \in {"closed", "open", "segv"} /\ empty \in BOOLEAN
     /\ held \in [Pages!PageIds -> Nat] /\ touched \subseteq Pages!PageIds
     /\ wrote \in [Pages!PageIds -> Triples] /\ owned \subseteq Pages!PageIds \ {0}
  /\ CacheOK(Pages!State, touched)
  /\ \A p \in Pages!PageIds :
       /\ held[p] <= frame[p].pin /\ (status # "segv" => held[p] = frame[p].pin)
       /\ held[p] > 0 => p \in owned
  /\ status = "closed" => lru = <<>> /\ \A p \in Pages!PageIds : held[p] = 0
  /\ status = "segv" /\ Len(lru) = CACHE_CAPACITY =>
       Cardinality({p \in Pages!PageIds : held[p] > 0}) >= CACHE_CAPACITY - 1
  /\ empty => disk = [p \in Pages!PageIds |-> Pages!Zeros]
  /\ ~torn =>
       /\ IF status = "closed" /\ empty THEN owned = {} ELSE HeaderOK(Pages!State, owned)
       /\ Keeps(Pages!State, owned, wrote)

LEMMA StateIs ==
  /\ Pages!State.disk = disk /\ Pages!State.lru = lru /\ Pages!State.frame = frame
  /\ Pages!State.lost = lost /\ Pages!State.torn = torn
BY DEF Pages!State

LEMMA Becoming ==
  ASSUME NEW t \in PageStates, Pages!Become(t)
  PROVE  /\ Pages!State' = t
         /\ disk' = t.disk /\ lru' = t.lru /\ frame' = t.frame /\ lost' = t.lost
         /\ torn' = t.torn
BY DEF Pages!Become, Pages!State, PageStates

\* The header and the free pages are nobody's, so that losing one of them shows.
LEMMA ListShown ==
  ASSUME NEW s, NEW t, NEW written, Shows(s, t), ~t.torn, 0 \notin owned,
         Keeps(s, owned, written), owned \subseteq Pages!PageIds
  PROVE  /\ \A p \in Pages!PageIds \ owned : Seen(t, p) = Seen(s, p)
         /\ \A w : Chained(s, owned, w) => Chained(t, owned, w)
         /\ HeaderOK(s, owned) => HeaderOK(t, owned)
         /\ Keeps(t, owned, written)
<1>1. \A p \in Pages!PageIds \ owned : Seen(t, p) = Seen(s, p)
  BY DEF Shows
<1>2. Seen(t, 0) = Seen(s, 0)
  BY <1>1, PagerConstants DEF Pages!PageIds
<1>3. ASSUME NEW w, Chained(s, owned, w) PROVE Chained(t, owned, w)
  <2>1. \A i \in DOMAIN w : w[i] \in Pages!PageIds \ owned
    <3>1. \A i \in DOMAIN w : w[i] \in Members(w)
      BY DEF Members
    <3> QED BY <1>3, <3>1 DEF Chained
  <2>2. \A i \in DOMAIN w : Seen(t, w[i]) = Seen(s, w[i])
    BY <1>1, <2>1
  <2> QED BY <1>2, <1>3, <2>2 DEF Chained
<1>4. Keeps(t, owned, written)
  BY DEF Keeps, Shows
<1>5. HeaderOK(s, owned) => HeaderOK(t, owned)
  BY <1>2, <1>3 DEF HeaderOK
<1> QED BY <1>1, <1>3, <1>4, <1>5

\* The first page of the list is taken.
LEMMA ListTaken ==
  ASSUME NEW s, NEW t, NEW own, NEW w, HeaderOK(s, own), Chained(s, own, w), w # <<>>,
         \A q \in Pages!PageIds \ {0} : Seen(t, q) = Seen(s, q),
         Seen(s, 0) \in Triples, Seen(t, 0) = [Seen(s, 0) EXCEPT ![3] = Seen(s, w[1])[1]]
  PROVE  /\ w[1] \in Pages!PageIds \ {0} /\ w[1] \notin own
         /\ HeaderOK(t, own \cup {w[1]})
<1>1. /\ w \in Seq(Pages!PageIds) /\ Len(w) \in Nat \ {0} /\ 1 \in DOMAIN w
      /\ w[1] \in Members(w)
  BY DEF Chained, Members
<1>2. w[1] \in Pages!PageIds \ {0} /\ w[1] \notin own /\ w[1] < Seen(s, 0)[2]
  <2>1. w[1] \in 1 .. Seen(s, 0)[2] - 1 /\ w[1] \notin own /\ w[1] \in Pages!PageIds
    BY <1>1 DEF Chained
  <2>2. Seen(s, 0)[2] \in Int
    BY PagerConstants DEF HeaderOK
  <2> QED BY <2>1, <2>2
<1>3. /\ Seen(t, 0)[1] = PAGE_SIZE /\ Seen(t, 0)[2] = Seen(s, 0)[2]
      /\ Seen(t, 0)[3] = Seen(s, w[1])[1]
  BY DEF HeaderOK, Triples
<1> DEFINE m == Tail(w)
<1>4. /\ m \in Seq(Pages!PageIds) /\ Len(m) = Len(w) - 1
      /\ \A i \in DOMAIN m : i + 1 \in DOMAIN w /\ m[i] = w[i + 1]
  BY <1>1
<1> HIDE DEF m
<1>5. Distinct(m)
  BY <1>1, <1>4 DEF Chained, Distinct
<1>6. Members(m) = Members(w) \ {w[1]}
  <2>1. ASSUME NEW i \in DOMAIN m PROVE m[i] \in Members(w) \ {w[1]}
    <3>1. i + 1 \in DOMAIN w /\ m[i] = w[i + 1] /\ i + 1 # 1
      BY <1>1, <1>4
    <3> QED BY <3>1, <1>1 DEF Chained, Distinct, Members
  <2>2. ASSUME NEW i \in DOMAIN w, w[i] # w[1] PROVE w[i] \in Members(m)
    <3>1. i - 1 \in DOMAIN m /\ (i - 1) + 1 = i
      BY <1>1, <1>4, <2>2
    <3> QED BY <3>1, <1>4 DEF Members
  <2> QED BY <2>1, <2>2 DEF Members
<1>7. Members(m) = 1 .. Seen(t, 0)[2] - 1 \ (own \cup {w[1]})
  BY <1>3, <1>6 DEF Chained
<1>8. Seen(t, 0)[3] = IF m = <<>> THEN -1 ELSE m[1]
  <2>1. CASE m = <<>>
    <3>1. Len(m) = 0
      BY <2>1
    <3>2. Len(m) = Len(w) - 1 /\ Len(w) \in Nat
      BY <1>1, <1>4
    <3>3. Len(w) = 1
      BY <3>1, <3>2
    <3> QED BY <3>3, <2>1, <1>1, <1>3 DEF Chained
  <2>2. CASE m # <<>>
    <3>1. 1 \in DOMAIN m /\ 1 < Len(w)
      BY <2>2, <1>1, <1>4
    <3> QED BY <3>1, <2>2, <1>1, <1>3, <1>4 DEF Chained
  <2> QED BY <2>1, <2>2
<1>9. ASSUME NEW i \in DOMAIN m PROVE Seen(t, m[i])[1] = IF i < Len(m) THEN m[i + 1] ELSE -1
  <2>1. m[i] # 0 /\ m[i] \in Pages!PageIds
    <3>1. m[i] \in Members(m)
      BY DEF Members
    <3> QED BY <3>1, <1>4, <1>7
  <2>2. Seen(t, m[i])[1] = Seen(s, w[i + 1])[1]
    BY <2>1, <1>4
  <2>3. Seen(s, w[i + 1])[1] = IF i + 1 < Len(w) THEN w[(i + 1) + 1] ELSE -1
    BY <1>4 DEF Chained
  <2>4. i < Len(m) => i + 1 \in DOMAIN m /\ i + 1 < Len(w)
    BY <1>1, <1>4
  <2> QED BY <2>2, <2>3, <2>4, <1>1, <1>4
<1>10. Chained(t, own \cup {w[1]}, m)
  BY <1>4, <1>5, <1>7, <1>8, <1>9 DEF Chained
<1>11. own \cup {w[1]} \subseteq 1 .. Seen(t, 0)[2] - 1
  BY <1>1, <1>3 DEF Chained, HeaderOK
<1> QED BY <1>2, <1>3, <1>10, <1>11 DEF HeaderOK

\* A page is put in front of the list.
LEMMA ListGiven ==
  ASSUME NEW s, NEW t, NEW own, NEW p \in own, HeaderOK(s, own),
         own \subseteq Pages!PageIds \ {0}, Seen(s, 0) \in Triples,
         \A q \in Pages!PageIds \ {0, p} : Seen(t, q) = Seen(s, q),
         Seen(t, p)[1] = Seen(s, 0)[3], Seen(t, 0) = [Seen(s, 0) EXCEPT ![3] = p]
  PROVE  HeaderOK(t, own \ {p})
<1>1. PICK w : Chained(s, own, w)
  BY DEF HeaderOK
<1>2. /\ w \in Seq(Pages!PageIds) /\ Len(w) \in Nat /\ Distinct(w)
      /\ p \notin Members(w) /\ 0 \notin Members(w)
  BY <1>1 DEF Chained
<1>3. /\ Seen(t, 0)[1] = PAGE_SIZE /\ Seen(t, 0)[2] = Seen(s, 0)[2] /\ Seen(t, 0)[3] = p
  BY DEF HeaderOK, Triples
<1> DEFINE m == <<p>> \o w
<1>4. /\ m \in Seq(Pages!PageIds) /\ Distinct(m) /\ Members(m) = Members(w) \cup {p}
      /\ Len(m) = Len(w) + 1
  BY <1>2, InFront
<1>5. m[1] = p /\ \A i \in DOMAIN w : i + 1 \in DOMAIN m /\ m[i + 1] = w[i]
  BY <1>2
<1> HIDE DEF m
<1>6. Members(m) = 1 .. Seen(t, 0)[2] - 1 \ (own \ {p})
  BY <1>1, <1>3, <1>4 DEF Chained, HeaderOK
<1>7. m # <<>> /\ 1 \in DOMAIN m
  BY <1>2, <1>4
<1>8. ASSUME NEW i \in DOMAIN m PROVE Seen(t, m[i])[1] = IF i < Len(m) THEN m[i + 1] ELSE -1
  <2>1. CASE i = 1
    <3>1. Seen(t, m[i])[1] = IF w = <<>> THEN -1 ELSE w[1]
      BY <2>1, <1>1, <1>5 DEF Chained
    <3>2. CASE w = <<>>
      BY <3>1, <3>2, <2>1, <1>4
    <3>3. CASE w # <<>>
      <4>1. 1 \in DOMAIN w
        BY <3>3, <1>2
      <4>2. m[1 + 1] = w[1] /\ 1 < Len(m)
        BY <4>1, <1>2, <1>4, <1>5
      <4> QED BY <3>1, <3>3, <2>1, <4>2
    <3> QED BY <3>2, <3>3
  <2>2. CASE i # 1
    <3>1. i - 1 \in DOMAIN w /\ (i - 1) + 1 = i
      BY <2>2, <1>2, <1>4
    <3>2. m[i] = w[i - 1] /\ w[i - 1] \in Members(w) /\ w[i - 1] \in Pages!PageIds
      BY <3>1, <1>2, <1>5 DEF Members
    <3>3. Seen(t, m[i])[1] = Seen(s, w[i - 1])[1]
      BY <3>2, <1>2
    <3>4. Seen(s, w[i - 1])[1] = IF i - 1 < Len(w) THEN w[(i - 1) + 1] ELSE -1
      BY <3>1, <1>1 DEF Chained
    <3>5. CASE i - 1 < Len(w)
      <4>1. i \in DOMAIN w /\ i < Len(m)
        BY <3>1, <3>5, <1>2, <1>4
      <4> QED BY <3>1, <3>3, <3>4, <3>5, <4>1, <1>5
    <3>6. CASE ~(i - 1 < Len(w))
      <4>1. ~(i < Len(m))
        BY <3>1, <3>6, <1>2, <1>4
      <4> QED BY <3>3, <3>4, <3>6, <4>1
    <3> QED BY <3>5, <3>6
  <2> QED BY <2>1, <2>2
<1>9. Chained(t, own \ {p}, m)
  BY <1>3, <1>4, <1>5, <1>6, <1>7, <1>8 DEF Chained
<1> QED BY <1>3, <1>9 DEF HeaderOK

\* The file gets a new page.
LEMMA ListAppended ==
  ASSUME NEW s, NEW t, NEW own, HeaderOK(s, own), Seen(s, 0) \in Triples, Seen(s, 0)[3] = -1,
         Seen(s, 0)[2] <= LastPage,
         Seen(t, 0) = [Seen(s, 0) EXCEPT ![2] = Seen(s, 0)[2] + 1]
  PROVE  /\ Seen(s, 0)[2] \in Pages!PageIds \ {0} /\ Seen(s, 0)[2] \notin own
         /\ HeaderOK(t, own \cup {Seen(s, 0)[2]})
<1> DEFINE n == Seen(s, 0)[2]
<1>1. n \in 1 .. LastPage /\ own \subseteq 1 .. n - 1
  BY PagerConstants DEF HeaderOK
<1>2. /\ Seen(t, 0)[1] = PAGE_SIZE /\ Seen(t, 0)[2] = n + 1 /\ Seen(t, 0)[3] = -1
  BY DEF HeaderOK, Triples
<1>3. PICK w : Chained(s, own, w)
  BY DEF HeaderOK
<1>4. w = <<>>
  <2> SUFFICES ASSUME w # <<>> PROVE FALSE
    OBVIOUS
  <2>1. w \in Seq(Pages!PageIds) /\ 1 \in DOMAIN w
    BY <1>3 DEF Chained
  <2>2. w[1] \in Nat /\ w[1] = -1
    BY <2>1, <1>3, PagerConstants DEF Chained, Pages!PageIds
  <2> QED BY <2>2
<1>5. Members(w) = {}
  BY <1>4 DEF Members
<1>6. 1 .. n - 1 \subseteq own
  BY <1>3, <1>5 DEF Chained
<1> HIDE DEF n
<1>7. 1 .. (n + 1) - 1 \ (own \cup {n}) = {} /\ own \cup {n} \subseteq 1 .. (n + 1) - 1
  BY <1>1, <1>6, PagerConstants
<1>8. Chained(t, own \cup {n}, <<>>)
  <2>1. Members(<<>>) = {} /\ Distinct(<<>>) /\ <<>> \in Seq(Pages!PageIds)
    BY DEF Members, Distinct
  <2> QED BY <2>1, <1>2, <1>7 DEF Chained
<1>9. n + 1 \in 1 .. LastPage + 1 /\ n \in Pages!PageIds \ {0} /\ n \notin own
  BY <1>1, PagerConstants DEF Pages!PageIds
<1>10. HeaderOK(t, own \cup {n})
  BY <1>2, <1>7, <1>8, <1>9 DEF HeaderOK
<1> QED BY <1>9, <1>10 DEF n

\* An unpin takes one pin and adds to the dirty bit; nothing else changes.
LEMMA UnpinnedIs ==
  ASSUME NEW s \in PageStates, NEW p \in Pages!PageIds, NEW d \in BOOLEAN,
         s.frame[p].pin > 0
  PROVE  LET t == Pages!Unpinned(s, p, d)
         IN  /\ t \in PageStates /\ t.disk = s.disk /\ t.lru = s.lru
             /\ t.lost = s.lost /\ t.torn = s.torn
             /\ \A q \in Pages!PageIds \ {p} : t.frame[q] = s.frame[q]
             /\ t.frame[p].data = s.frame[p].data /\ t.frame[p].pin = s.frame[p].pin - 1
             /\ t.frame[p].dirty = (s.frame[p].dirty \/ d)
<1> DEFINE t == Pages!Unpinned(s, p, d)
           dirties == s.frame[p].dirty \/ d
           takes == IF s.frame[p].pin > 0 THEN s.frame[p].pin - 1 ELSE s.frame[p].pin
           x == [s EXCEPT !.frame[p].dirty = dirties]
<1>1. s.frame[p] \in PageFrames /\ s.frame \in [Pages!PageIds -> PageFrames]
  BY DEF PageStates
<1>2. s.frame[p].pin - 1 \in Nat /\ dirties \in BOOLEAN /\ takes = s.frame[p].pin - 1
  BY <1>1 DEF PageFrames
<1>3. t = [s EXCEPT !.frame[p].dirty = dirties,
                    !.frame[p].pin = IF @ > 0 THEN @ - 1 ELSE @]
  BY DEF Pages!Unpinned
<1> HIDE DEF t, dirties
<1>4. /\ x.disk = s.disk /\ x.lru = s.lru /\ x.lost = s.lost /\ x.torn = s.torn
      /\ x.frame = [s.frame EXCEPT ![p].dirty = dirties]
      /\ x = [disk |-> x.disk, lru |-> x.lru, frame |-> x.frame, lost |-> x.lost,
              torn |-> x.torn]
  BY DEF PageStates
<1>5. t = [x EXCEPT !.frame[p].pin = IF @ > 0 THEN @ - 1 ELSE @]
  BY <1>3
<1> HIDE DEF x
<1>6. /\ \A q \in Pages!PageIds \ {p} : x.frame[q] = s.frame[q]
      /\ x.frame[p] = [s.frame[p] EXCEPT !.dirty = dirties]
      /\ DOMAIN x.frame = Pages!PageIds
  BY <1>1, <1>4
<1>7. /\ x.frame[p].data = s.frame[p].data /\ x.frame[p].pin = s.frame[p].pin
      /\ x.frame[p].dirty = dirties /\ x.frame[p] \in PageFrames
  BY <1>1, <1>2, <1>6 DEF PageFrames
<1>8. /\ t.disk = x.disk /\ t.lru = x.lru /\ t.lost = x.lost /\ t.torn = x.torn
      /\ t.frame = [x.frame EXCEPT ![p].pin = IF @ > 0 THEN @ - 1 ELSE @]
      /\ t = [disk |-> t.disk, lru |-> t.lru, frame |-> t.frame, lost |-> t.lost,
              torn |-> t.torn]
  BY <1>4, <1>5
<1>9. /\ \A q \in Pages!PageIds \ {p} : t.frame[q] = x.frame[q]
      /\ t.frame[p] = [x.frame[p] EXCEPT !.pin = takes]
      /\ t.frame = [q \in Pages!PageIds |-> t.frame[q]]
  BY <1>4, <1>6, <1>7, <1>8
<1>10. /\ t.frame[p].data = s.frame[p].data /\ t.frame[p].pin = s.frame[p].pin - 1
       /\ t.frame[p].dirty = dirties /\ t.frame[p] \in PageFrames
  BY <1>2, <1>7, <1>9 DEF PageFrames
<1>11. t.frame \in [Pages!PageIds -> PageFrames]
  <2>1. \A q \in Pages!PageIds : t.frame[q] \in PageFrames
    BY <1>1, <1>6, <1>9, <1>10
  <2> QED BY <2>1, <1>9
<1>12. t \in PageStates
  BY <1>4, <1>8, <1>11 DEF PageStates
<1> QED BY <1>4, <1>6, <1>8, <1>9, <1>10, <1>12 DEF t, dirties

\* A write through a page's pointer.
LEMMA ContentIs ==
  ASSUME NEW s \in PageStates, NEW p \in Pages!PageIds, NEW d \in Triples
  PROVE  LET t == Pages!SetContent(s, p, d)
         IN  /\ t \in PageStates /\ t.disk = s.disk /\ t.lru = s.lru
             /\ t.lost = s.lost /\ t.torn = s.torn
             /\ \A q \in Pages!PageIds \ {p} : t.frame[q] = s.frame[q]
             /\ t.frame[p].data = d /\ t.frame[p].pin = s.frame[p].pin
             /\ t.frame[p].dirty = s.frame[p].dirty
<1> DEFINE t == Pages!SetContent(s, p, d)
<1>1. s.frame[p] \in PageFrames /\ s.frame \in [Pages!PageIds -> PageFrames]
  BY DEF PageStates
<1>2. /\ t.disk = s.disk /\ t.lru = s.lru /\ t.lost = s.lost /\ t.torn = s.torn
      /\ t.frame = [s.frame EXCEPT ![p].data = d]
      /\ t = [disk |-> t.disk, lru |-> t.lru, frame |-> t.frame, lost |-> t.lost,
              torn |-> t.torn]
  BY DEF PageStates, Pages!SetContent
<1> HIDE DEF t
<1>3. /\ \A q \in Pages!PageIds \ {p} : t.frame[q] = s.frame[q]
      /\ t.frame[p] = [s.frame[p] EXCEPT !.data = d]
      /\ t.frame = [q \in Pages!PageIds |-> t.frame[q]]
  BY <1>1, <1>2
<1>4. /\ t.frame[p].data = d /\ t.frame[p].pin = s.frame[p].pin
      /\ t.frame[p].dirty = s.frame[p].dirty /\ t.frame[p] \in PageFrames
  BY <1>1, <1>3 DEF PageFrames
<1>5. t.frame \in [Pages!PageIds -> PageFrames]
  <2>1. \A q \in Pages!PageIds : t.frame[q] \in PageFrames
    BY <1>1, <1>3, <1>4
  <2> QED BY <2>1, <1>3
<1>6. t \in PageStates
  BY <1>2, <1>5 DEF PageStates
<1> QED BY <1>2, <1>3, <1>4, <1>6 DEF t

LEMMA HeaderSet ==
  ASSUME NEW s \in PageStates, NEW n \in Int
  PROVE  /\ Pages!SetTotal(s, n) = Pages!SetContent(s, 0, [s.frame[0].data EXCEPT ![2] = n])
         /\ Pages!SetFreeHead(s, n) = Pages!SetContent(s, 0, [s.frame[0].data EXCEPT ![3] = n])
         /\ [s.frame[0].data EXCEPT ![2] = n] \in Triples
         /\ [s.frame[0].data EXCEPT ![3] = n] \in Triples
<1>1. 0 \in Pages!PageIds
  BY PagerConstants DEF Pages!PageIds
<1>2. s.frame[0] \in PageFrames /\ s.frame[0].data \in Triples
  BY <1>1 DEF PageStates, PageFrames
<1> QED BY <1>2 DEF Pages!SetTotal, Pages!SetFreeHead, Pages!SetContent, Triples

\* u is t after pages were written through their pointers, marked dirty and unpinned.
LEMMA Rewritten ==
  ASSUME NEW t, NEW u, NEW writing, NEW now, CacheOK(t, writing), u \in PageStates,
         u.disk = t.disk, u.lru = t.lru,
         \A p \in Pages!PageIds \ Pages!Cached(t) : u.frame[p] = t.frame[p],
         \A p \in Pages!Cached(t) :
           \/ u.frame[p].dirty \/ p \in now
           \/ p \notin writing /\ u.frame[p].data = t.frame[p].data
                /\ u.frame[p].dirty = t.frame[p].dirty,
         \A p \in now : u.frame[p].pin > 0
  PROVE  /\ CacheOK(u, now)
         /\ Pages!Cached(u) = Pages!Cached(t)
         /\ \A p \in Pages!PageIds :
              u.frame[p].data = t.frame[p].data => Seen(u, p) = Seen(t, p)
         /\ \A p \in Pages!Cached(t) : Seen(u, p) = u.frame[p].data
<1>1. Pages!Cached(u) = Pages!Cached(t)
  BY DEF Pages!Cached
<1>2. Pages!Cached(t) \subseteq Pages!PageIds
  BY DEF Pages!Cached, CacheOK, PageStates
<1> QED BY <1>1, <1>2 DEF CacheOK, Seen

\* While the pager is open, a fetch of a page keeps the header and what owners wrote.
LEMMA Fetched ==
  ASSUME PagerInv, status = "open", ~torn, NEW p \in Pages!PageIds,
         NEW s \in Pages!Fetches(Pages!State, p)
  PROVE  /\ CacheOK(s, touched) /\ s \in PageStates /\ p \in Pages!Cached(s)
         /\ \A q \in Pages!PageIds :
              s.frame[q].pin = IF q = p THEN held[q] + 1 ELSE held[q]
         /\ Shows(Pages!State, s)
         /\ Seen(s, p) = Seen(Pages!State, p)
         /\ ~s.torn => /\ HeaderOK(s, owned) /\ Keeps(s, owned, wrote)
                       /\ \A q \in Pages!PageIds \ owned : Seen(s, q) = Seen(Pages!State, q)
                       /\ \A w : Chained(Pages!State, owned, w) => Chained(s, owned, w)
<1>1. CacheOK(Pages!State, touched)
  BY DEF PagerInv
<1>2. /\ CacheOK(s, touched) /\ p \in Pages!Cached(s)
      /\ \A q \in Pages!PageIds : s.frame[q].pin =
           IF q = p THEN Pages!State.frame[q].pin + 1 ELSE Pages!State.frame[q].pin
      /\ Seen(s, p) = Seen(Pages!State, p)
      /\ Shows(Pages!State, s)
  BY <1>1, FetchKeeps
<1>3. \A q \in Pages!PageIds : Pages!State.frame[q].pin = held[q]
  BY StateIs DEF PagerInv
<1>4. /\ HeaderOK(Pages!State, owned) /\ Keeps(Pages!State, owned, wrote)
      /\ owned \subseteq Pages!PageIds /\ 0 \notin owned
  BY DEF PagerInv
<1>5. s \in PageStates
  BY <1>2 DEF CacheOK
<1> QED BY <1>2, <1>3, <1>4, <1>5, ListShown

\* The header and the list an operation finds with its first fetch.
LEMMA HeaderFetched ==
  ASSUME PagerInv, status = "open", ~torn, NEW s \in Pages!Fetches(Pages!State, 0)
  PROVE  /\ HeaderOK(Pages!State, owned) /\ Seen(s, 0) = Seen(Pages!State, 0)
         /\ Pages!FreeHead(s) = Seen(Pages!State, 0)[3]
         /\ Pages!TotalPages(s) = Seen(Pages!State, 0)[2]
         /\ Seen(Pages!State, 0) \in Triples
<1>1. 0 \in Pages!PageIds
  BY PagerConstants DEF Pages!PageIds
<1>2. /\ s \in PageStates /\ 0 \in Pages!Cached(s)
      /\ Seen(s, 0) = Seen(Pages!State, 0)
  BY <1>1, Fetched
<1>3. s.frame[0] \in PageFrames /\ s.frame[0].data \in Triples
  BY <1>1, <1>2 DEF PageStates, PageFrames
<1>4. Seen(s, 0) = s.frame[0].data
  BY <1>2 DEF Seen
<1> QED BY <1>2, <1>3, <1>4 DEF PagerInv, Pages!FreeHead, Pages!TotalPages, Pages!Content

\* An operation that ends in a NULL page leaves what it had fetched.
LEMMA Crashed ==
  ASSUME PagerInv, status = "open", ~torn, NEW s, CacheOK(s, touched),
         \A q \in Pages!PageIds : held[q] <= s.frame[q].pin,
         \A q \in Pages!PageIds \ {0} : s.frame[q].pin = held[q],
         ~s.torn => HeaderOK(s, owned) /\ Keeps(s, owned, wrote),
         NEW p, Pages!FetchFails(s, p), Pages!Segv(s)
  PROVE  PagerInv'
<1>1. s \in PageStates /\ Distinct(s.lru) /\ s.lru \in Seq(Pages!PageIds)
  BY DEF CacheOK, PageStates
<1>2. /\ Pages!State' = s /\ disk' = s.disk /\ lru' = s.lru /\ frame' = s.frame
      /\ lost' = s.lost /\ torn' = s.torn
      /\ status' = "segv" /\ empty' = (empty /\ s.disk = disk)
      /\ UNCHANGED <<held, touched, owned, wrote>>
  BY <1>1, Becoming DEF Pages!Segv, Pages!Wrote
<1>3. ASSUME Len(s.lru) = CACHE_CAPACITY
      PROVE  Cardinality({q \in Pages!PageIds : held[q] > 0}) >= CACHE_CAPACITY - 1
  <2> DEFINE pinned == {q \in Pages!PageIds : held[q] > 0}
  <2>1. Pages!Victims(s) = {}
    BY <1>3, PagerConstants DEF Pages!FetchFails
  <2>2. \A i \in DOMAIN s.lru : s.lru[i] \in Pages!PageIds /\ s.frame[s.lru[i]].pin # 0
    BY <1>1, <2>1 DEF Pages!Victims
  <2>3. Members(s.lru) \ {0} \subseteq pinned
    <3>1. ASSUME NEW q \in Members(s.lru) \ {0} PROVE q \in pinned
      <4>1. q \in Pages!PageIds /\ s.frame[q].pin # 0
        BY <2>2 DEF Members
      <4>2. held[q] # 0 /\ held[q] \in Nat
        BY <4>1 DEF PagerInv
      <4> QED BY <4>1, <4>2
    <3> QED BY <3>1
  <2>4. IsFiniteSet(Members(s.lru)) /\ Cardinality(Members(s.lru)) = CACHE_CAPACITY
    BY <1>1, <1>3, DistinctCount
  <2>5. IsFiniteSet(pinned)
    <3>1. IsFiniteSet(Pages!PageIds)
      BY PagerConstants, FS_Interval DEF Pages!PageIds
    <3> QED BY <3>1, FS_Subset
  <2> HIDE DEF pinned
  <2>6. IsFiniteSet(Members(s.lru) \ {0})
        /\ Cardinality(Members(s.lru) \ {0}) >= CACHE_CAPACITY - 1
    <3>1. CASE 0 \in Members(s.lru)
      <4>1. /\ IsFiniteSet(Members(s.lru) \ {0})
            /\ Cardinality(Members(s.lru) \ {0}) = Cardinality(Members(s.lru)) - 1
        BY <3>1, <2>4, FS_RemoveElement
      <4> QED BY <4>1, <2>4, PagerConstants
    <3>2. CASE 0 \notin Members(s.lru)
      <4>1. Members(s.lru) \ {0} = Members(s.lru)
        BY <3>2
      <4> QED BY <4>1, <2>4, PagerConstants
    <3> QED BY <3>1, <3>2
  <2>7. /\ Cardinality(Members(s.lru) \ {0}) <= Cardinality(pinned)
        /\ Cardinality(pinned) \in Nat /\ Cardinality(Members(s.lru) \ {0}) \in Nat
    BY <2>3, <2>5, <2>6, FS_Subset, FS_CardinalityType
  <2> QED BY <2>6, <2>7, PagerConstants DEF pinned
<1>4. empty' => disk' = [q \in Pages!PageIds |-> Pages!Zeros]
  BY <1>2 DEF PagerInv
<1>5. /\ \A q \in Pages!PageIds : held'[q] <= frame'[q].pin /\ (held'[q] > 0 => q \in owned')
      /\ CacheOK(Pages!State', touched')
      /\ (~torn' => HeaderOK(Pages!State', owned') /\ Keeps(Pages!State', owned', wrote'))
      /\ (Len(lru') = CACHE_CAPACITY =>
            Cardinality({q \in Pages!PageIds : held'[q] > 0}) >= CACHE_CAPACITY - 1)
  BY <1>2, <1>3 DEF PagerInv
<1>6. empty' \in BOOLEAN
  BY <1>2 DEF PagerInv
<1> QED BY <1>2, <1>4, <1>5, <1>6 DEF PagerInv

LEMMA PageFetched ==
  ASSUME PagerInv, ~torn, NEW p \in Pages!PageIds, Pages!Fetch(p)
  PROVE  PagerInv'
<1>1. PICK s \in Pages!Fetches(Pages!State, p) : Pages!Become(s) /\ Pages!Wrote(s)
  BY DEF Pages!Fetch
<1>2. /\ status = "open" /\ p \in owned /\ held' = [held EXCEPT ![p] = @ + 1]
      /\ UNCHANGED <<status, touched, owned, wrote>>
  BY DEF Pages!Fetch
<1>3. /\ CacheOK(s, touched) /\ s \in PageStates
      /\ \A q \in Pages!PageIds :
           s.frame[q].pin = IF q = p THEN held[q] + 1 ELSE held[q]
      /\ ~s.torn => HeaderOK(s, owned) /\ Keeps(s, owned, wrote)
  BY <1>1, <1>2, Fetched
<1>4. /\ Pages!State' = s /\ disk' = s.disk /\ lru' = s.lru /\ frame' = s.frame
      /\ lost' = s.lost /\ torn' = s.torn /\ empty' = (empty /\ s.disk = disk)
  BY <1>1, <1>3, Becoming DEF Pages!Wrote
<1>5. /\ held \in [Pages!PageIds -> Nat] /\ held' \in [Pages!PageIds -> Nat]
      /\ \A q \in Pages!PageIds : held'[q] = IF q = p THEN held[q] + 1 ELSE held[q]
  BY <1>2 DEF PagerInv
<1>6. /\ \A q \in Pages!PageIds : held'[q] = frame'[q].pin /\ (held'[q] > 0 => q \in owned')
      /\ CacheOK(Pages!State', touched')
      /\ (~torn' => HeaderOK(Pages!State', owned') /\ Keeps(Pages!State', owned', wrote'))
  BY <1>2, <1>3, <1>4, <1>5 DEF PagerInv
<1>7. /\ (empty' => disk' = [q \in Pages!PageIds |-> Pages!Zeros]) /\ empty' \in BOOLEAN
  BY <1>4 DEF PagerInv
<1> QED BY <1>2, <1>5, <1>6, <1>7 DEF PagerInv

LEMMA PageWritten ==
  ASSUME PagerInv, NEW p \in Pages!PageIds, NEW v \in Values, Pages!Write(p, v)
  PROVE  PagerInv'
<1> DEFINE d == <<v, 0, 0>>
           s == Pages!SetContent(Pages!State, p, d)
<1>1. /\ status = "open" /\ held[p] > 0 /\ Pages!Become(s)
      /\ wrote' = [wrote EXCEPT ![p] = d] /\ touched' = touched \cup {p}
      /\ UNCHANGED <<empty, status, held, owned>>
  BY DEF Pages!Write
<1>2. CacheOK(Pages!State, touched) /\ Pages!State \in PageStates
  BY DEF PagerInv, CacheOK
<1>3. d \in Triples /\ d = <<v, 0, 0>>
  BY PagerConstants DEF Triples
<1> HIDE DEF d
<1>4. /\ s \in PageStates /\ s.disk = disk /\ s.lru = lru
      /\ s.lost = lost /\ s.torn = torn
      /\ \A q \in Pages!PageIds \ {p} : s.frame[q] = frame[q]
      /\ s.frame[p].data = d /\ s.frame[p].pin = frame[p].pin
      /\ s.frame[p].dirty = frame[p].dirty
  BY <1>2, <1>3, ContentIs, StateIs
<1> HIDE DEF s
<1>5. /\ Pages!State' = s /\ disk' = s.disk /\ lru' = s.lru /\ frame' = s.frame
      /\ lost' = s.lost /\ torn' = s.torn
  BY <1>1, <1>4, Becoming
<1>6. p \in owned /\ p # 0 /\ frame[p].pin > 0 /\ p \in Pages!Cached(Pages!State)
  <2>1. held[p] = frame[p].pin /\ p \in owned
    BY <1>1 DEF PagerInv
  <2>2. p \in Pages!Cached(Pages!State)
    BY <1>1, <1>2, <2>1, StateIs DEF CacheOK, Pages!Unused
  <2> QED BY <1>1, <2>1, <2>2 DEF PagerInv
<1>7. /\ CacheOK(s, touched \cup {p})
      /\ \A q \in Pages!PageIds \ {p} : Seen(s, q) = Seen(Pages!State, q)
      /\ Seen(s, p) = d
  <2>1. \A q \in touched \cup {p} : q \in Pages!PageIds /\ s.frame[q].pin > 0
    BY <1>2, <1>4, <1>6, StateIs DEF CacheOK, PagerInv
  <2>2. \A q \in Pages!Cached(Pages!State) :
          \/ s.frame[q].dirty \/ q \in touched \cup {p}
          \/ q \notin touched /\ s.frame[q].data = Pages!State.frame[q].data
               /\ s.frame[q].dirty = Pages!State.frame[q].dirty
    BY <1>2, <1>4, StateIs DEF CacheOK, PageStates, Pages!Cached
  <2>3. /\ s.disk = Pages!State.disk /\ s.lru = Pages!State.lru
        /\ \A q \in Pages!PageIds \ Pages!Cached(Pages!State) : s.frame[q] = Pages!State.frame[q]
    BY <1>4, <1>6, StateIs
  <2> DEFINE now == touched \cup {p}
  <2>4. /\ \A q \in now : s.frame[q].pin > 0
        /\ \A q \in Pages!Cached(Pages!State) :
             \/ s.frame[q].dirty \/ q \in now
             \/ q \notin touched /\ s.frame[q].data = Pages!State.frame[q].data
                  /\ s.frame[q].dirty = Pages!State.frame[q].dirty
    BY <2>1, <2>2
  <2> HIDE DEF now
  <2>5. /\ CacheOK(s, now)
        /\ \A q \in Pages!PageIds :
             s.frame[q].data = Pages!State.frame[q].data => Seen(s, q) = Seen(Pages!State, q)
    BY <1>2, <1>4, <2>3, <2>4, Rewritten
  <2>6. Seen(s, p) = s.frame[p].data
    BY <1>6, <2>3 DEF Seen, Pages!Cached
  <2> USE DEF now
  <2> QED BY <1>4, <1>6, <2>5, <2>6, StateIs
<1>8. ~torn => HeaderOK(s, owned) /\ Keeps(s, owned, wrote')
  <2> SUFFICES ASSUME ~torn PROVE HeaderOK(s, owned) /\ Keeps(s, owned, wrote')
    OBVIOUS
  <2>1. /\ HeaderOK(Pages!State, owned) /\ Keeps(Pages!State, owned, wrote)
        /\ owned \subseteq Pages!PageIds \ {0} /\ wrote \in [Pages!PageIds -> Triples]
    BY <1>1 DEF PagerInv
  <2>2. \A q \in Pages!PageIds \ owned : Seen(s, q) = Seen(Pages!State, q)
    BY <1>6, <1>7
  <2>3. HeaderOK(s, owned)
    <3>1. Seen(s, 0) = Seen(Pages!State, 0)
      BY <2>1, <2>2, PagerConstants DEF Pages!PageIds
    <3>2. ASSUME NEW w, Chained(Pages!State, owned, w) PROVE Chained(s, owned, w)
      <4>1. \A i \in DOMAIN w : w[i] \in Members(w)
        BY DEF Members
      <4>2. \A i \in DOMAIN w : w[i] \in Pages!PageIds \ owned
        BY <3>2, <4>1 DEF Chained
      <4> QED BY <2>2, <3>1, <3>2, <4>2 DEF Chained
    <3> QED BY <2>1, <3>1, <3>2 DEF HeaderOK
  <2>4. Keeps(s, owned, wrote')
    BY <1>1, <1>4, <1>7, <2>1, StateIs DEF Keeps
  <2> QED BY <2>3, <2>4
<1>9. /\ wrote' \in [Pages!PageIds -> Triples] /\ touched' \subseteq Pages!PageIds
      /\ CacheOK(Pages!State', touched')
      /\ \A q \in Pages!PageIds : frame'[q].pin = frame[q].pin
      /\ (~torn' => HeaderOK(Pages!State', owned') /\ Keeps(Pages!State', owned', wrote'))
  BY <1>1, <1>3, <1>4, <1>5, <1>7, <1>8 DEF PagerInv
<1> QED BY <1>1, <1>4, <1>5, <1>9 DEF PagerInv

LEMMA PageUnpinned ==
  ASSUME PagerInv, NEW p \in Pages!PageIds, Pages!Unpin(p)
  PROVE  PagerInv'
<1> DEFINE s == Pages!Unpinned(Pages!State, p, p \in touched)
<1>1. /\ status = "open" /\ held[p] > 0 /\ Pages!Become(s)
      /\ held' = [held EXCEPT ![p] = @ - 1] /\ touched' = touched \ {p}
      /\ UNCHANGED <<empty, status, owned, wrote>>
  BY DEF Pages!Unpin
<1>2. CacheOK(Pages!State, touched) /\ Pages!State \in PageStates
  BY DEF PagerInv, CacheOK
<1>3. held[p] = frame[p].pin /\ frame[p].pin > 0 /\ (p \in touched) \in BOOLEAN
  BY <1>1 DEF PagerInv
<1>4. /\ s \in PageStates /\ s.disk = disk /\ s.lru = lru
      /\ s.lost = lost /\ s.torn = torn
      /\ \A q \in Pages!PageIds \ {p} : s.frame[q] = frame[q]
      /\ s.frame[p].data = frame[p].data /\ s.frame[p].pin = frame[p].pin - 1
      /\ s.frame[p].dirty = (frame[p].dirty \/ p \in touched)
  <2> DEFINE b == p \in touched
  <2>1. b \in BOOLEAN /\ Pages!State.frame[p].pin > 0
    BY <1>3, StateIs
  <2> HIDE DEF b
  <2>2. LET t == Pages!Unpinned(Pages!State, p, b)
        IN  /\ t \in PageStates /\ t.disk = disk /\ t.lru = lru
            /\ t.lost = lost /\ t.torn = torn
            /\ \A q \in Pages!PageIds \ {p} : t.frame[q] = frame[q]
            /\ t.frame[p].data = frame[p].data /\ t.frame[p].pin = frame[p].pin - 1
            /\ t.frame[p].dirty = (frame[p].dirty \/ b)
    BY <1>2, <2>1, UnpinnedIs, StateIs
  <2> QED BY <2>2 DEF b
<1> HIDE DEF s
<1>5. /\ Pages!State' = s /\ disk' = s.disk /\ lru' = s.lru /\ frame' = s.frame
      /\ lost' = s.lost /\ torn' = s.torn
  BY <1>1, <1>4, Becoming
<1>6. Pages!Cached(Pages!State) \subseteq Pages!PageIds
  BY <1>2, StateIs DEF Pages!Cached, PageStates
<1>7. /\ CacheOK(s, touched \ {p})
      /\ \A q \in Pages!PageIds : Seen(s, q) = Seen(Pages!State, q)
  <2>1. \A q \in touched \ {p} : q \in Pages!PageIds /\ s.frame[q].pin > 0
    BY <1>2, <1>4, StateIs DEF CacheOK, PagerInv
  <2>2. \A q \in Pages!Cached(Pages!State) :
          \/ s.frame[q].dirty \/ q \in touched \ {p}
          \/ q \notin touched /\ s.frame[q].data = Pages!State.frame[q].data
               /\ s.frame[q].dirty = Pages!State.frame[q].dirty
    <3> TAKE q \in Pages!Cached(Pages!State)
    <3>1. CASE q = p
      <4>1. CASE p \in touched
        BY <1>4, <3>1, <4>1
      <4>2. CASE p \notin touched
        <5>1. s.frame[p].dirty = frame[p].dirty
          <6>1. frame[p].dirty \in BOOLEAN
            BY <1>2, StateIs DEF PageStates, PageFrames
          <6> QED BY <6>1, <1>4, <4>2
        <5> QED BY <5>1, <1>4, <3>1, <4>2, StateIs
      <4> QED BY <4>1, <4>2
    <3>2. CASE q # p
      BY <1>2, <1>4, <1>6, <3>2, StateIs DEF CacheOK
    <3> QED BY <3>1, <3>2
  <2>3. \A q \in Pages!PageIds \ Pages!Cached(Pages!State) :
          s.frame[q] = Pages!State.frame[q]
    <3>1. p \in Pages!Cached(Pages!State)
      BY <1>2, <1>3, StateIs DEF CacheOK, Pages!Unused
    <3> QED BY <3>1, <1>4, StateIs
  <2>4. \A q \in Pages!PageIds : s.frame[q].data = Pages!State.frame[q].data
    BY <1>4, StateIs
  <2>5. s.disk = Pages!State.disk /\ s.lru = Pages!State.lru
    BY <1>4, StateIs
  <2>6. /\ CacheOK(s, touched \ {p})
        /\ \A q \in Pages!PageIds :
             s.frame[q].data = Pages!State.frame[q].data => Seen(s, q) = Seen(Pages!State, q)
    BY <1>2, <1>4, <2>1, <2>2, <2>3, <2>5, Rewritten
  <2> QED BY <2>4, <2>6
<1>8. Shows(Pages!State, s)
  BY <1>4, <1>7, StateIs DEF Shows
<1>9. ~torn => HeaderOK(s, owned) /\ Keeps(s, owned, wrote)
  <2>1. owned \subseteq Pages!PageIds /\ 0 \notin owned
    BY DEF PagerInv
  <2>2. ~torn => HeaderOK(Pages!State, owned) /\ Keeps(Pages!State, owned, wrote)
    BY <1>1 DEF PagerInv
  <2> QED BY <1>4, <1>8, <2>1, <2>2, ListShown
<1>10. /\ held' \in [Pages!PageIds -> Nat] /\ touched' \subseteq Pages!PageIds
       /\ \A q \in Pages!PageIds : held'[q] = s.frame[q].pin /\ (held'[q] > 0 => q \in owned)
  BY <1>1, <1>3, <1>4 DEF PagerInv
<1>11. /\ CacheOK(Pages!State', touched')
       /\ \A q \in Pages!PageIds :
            held'[q] <= frame'[q].pin /\ held'[q] = frame'[q].pin /\ (held'[q] > 0 => q \in owned')
       /\ (~torn' => HeaderOK(Pages!State', owned') /\ Keeps(Pages!State', owned', wrote'))
  BY <1>1, <1>4, <1>5, <1>7, <1>9, <1>10
<1> QED BY <1>1, <1>4, <1>5, <1>10, <1>11 DEF PagerInv

\* An operation that returns has put back the pins it took.
LEMMA Settled ==
  ASSUME PagerInv, status = "open", ~torn, NEW f, CacheOK(f, touched), Pages!Become(f),
         \A q \in Pages!PageIds : f.frame[q].pin = held[q],
         NEW d, d.disk = f.disk, Pages!Wrote(d), UNCHANGED <<status, held, touched>>,
         owned' \subseteq Pages!PageIds \ {0}, wrote' \in [Pages!PageIds -> Triples],
         \A q \in Pages!PageIds : held[q] > 0 => q \in owned',
         ~f.torn => HeaderOK(f, owned') /\ Keeps(f, owned', wrote')
  PROVE  PagerInv'
<1>1. f \in PageStates
  BY DEF CacheOK
<1>2. /\ Pages!State' = f /\ disk' = f.disk /\ lru' = f.lru /\ frame' = f.frame
      /\ lost' = f.lost /\ torn' = f.torn /\ empty' = (empty /\ f.disk = disk)
  BY <1>1, Becoming DEF Pages!Wrote
<1>3. /\ (empty' => disk' = [q \in Pages!PageIds |-> Pages!Zeros]) /\ empty' \in BOOLEAN
  BY <1>2 DEF PagerInv
<1>4. /\ \A q \in Pages!PageIds : held'[q] = frame'[q].pin /\ (held'[q] > 0 => q \in owned')
      /\ held' \in [Pages!PageIds -> Nat] /\ touched' \subseteq Pages!PageIds
      /\ status' = "open" /\ CacheOK(Pages!State', touched')
      /\ (~torn' => HeaderOK(Pages!State', owned') /\ Keeps(Pages!State', owned', wrote'))
  BY <1>2 DEF PagerInv
<1> QED BY <1>3, <1>4 DEF PagerInv

\* The second fetch of an operation leaves the header where it is.
LEMMA FetchedTwice ==
  ASSUME PagerInv, status = "open", ~torn, NEW p \in Pages!PageIds \ {0},
         NEW s \in Pages!Fetches(Pages!State, 0), NEW t \in Pages!Fetches(s, p)
  PROVE  /\ CacheOK(t, touched) /\ t \in PageStates
         /\ 0 \in Pages!Cached(t) /\ p \in Pages!Cached(t)
         /\ \A q \in Pages!PageIds :
              t.frame[q].pin = IF q = 0 \/ q = p THEN held[q] + 1 ELSE held[q]
         /\ Seen(t, 0) = Seen(Pages!State, 0)
         /\ ~t.torn => /\ HeaderOK(t, owned) /\ Keeps(t, owned, wrote)
                       /\ \A w : Chained(Pages!State, owned, w) => Chained(t, owned, w)
<1>1. 0 \in Pages!PageIds
  BY PagerConstants DEF Pages!PageIds
<1>2. /\ CacheOK(s, touched) /\ Seen(s, 0) = Seen(Pages!State, 0)
      /\ \A q \in Pages!PageIds :
           s.frame[q].pin = IF q = 0 THEN held[q] + 1 ELSE held[q]
      /\ ~s.torn => /\ HeaderOK(s, owned) /\ Keeps(s, owned, wrote)
                    /\ \A w : Chained(Pages!State, owned, w) => Chained(s, owned, w)
  BY <1>1, Fetched
<1>3. /\ CacheOK(t, touched) /\ p \in Pages!Cached(t)
      /\ \A q \in Pages!PageIds :
           t.frame[q].pin = IF q = p THEN s.frame[q].pin + 1 ELSE s.frame[q].pin
      /\ \A q \in Pages!PageIds :
           q = p \/ s.frame[q].pin > 0 => Seen(t, q) = Seen(s, q)
      /\ Shows(s, t)
  BY <1>2, FetchKeeps
<1>4. held \in [Pages!PageIds -> Nat]
  BY DEF PagerInv
<1>5. s.frame[0].pin > 0 /\ t.frame[0].pin > 0
  BY <1>1, <1>2, <1>3, <1>4
<1>6. 0 \in Pages!Cached(t)
  BY <1>1, <1>3, <1>5 DEF CacheOK, Pages!Unused
<1>7. Seen(t, 0) = Seen(Pages!State, 0)
  BY <1>1, <1>2, <1>3, <1>5
<1>8. /\ owned \subseteq Pages!PageIds /\ 0 \notin owned
  BY DEF PagerInv
<1>9. ~t.torn => /\ HeaderOK(t, owned) /\ Keeps(t, owned, wrote)
                 /\ \A w : Chained(Pages!State, owned, w) => Chained(t, owned, w)
  <2> SUFFICES ASSUME ~t.torn
               PROVE  /\ HeaderOK(t, owned) /\ Keeps(t, owned, wrote)
                      /\ \A w : Chained(Pages!State, owned, w) => Chained(t, owned, w)
    OBVIOUS
  <2>1. ~s.torn
    BY <1>3 DEF Shows
  <2> QED BY <1>2, <1>3, <1>8, <2>1, ListShown
<1>10. t \in PageStates
  BY <1>3 DEF CacheOK
<1>11. \A q \in Pages!PageIds :
         t.frame[q].pin = IF q = 0 \/ q = p THEN held[q] + 1 ELSE held[q]
  BY <1>2, <1>3
<1> QED BY <1>3, <1>6, <1>7, <1>9, <1>10, <1>11

\* The end of an operation: a page and then the header are unpinned, and what was lost of
\* the page no longer counts.
Finished(s, p, d) == Pages!Unpinned(Pages!Unpinned(s, p, d), 0, TRUE)
Forgotten(s, p)   == [s EXCEPT !.lost = @ \ {p}]

LEMMA FinishedIs ==
  ASSUME NEW s \in PageStates, NEW p \in Pages!PageIds \ {0}, NEW d \in BOOLEAN,
         s.frame[p].pin > 0, s.frame[0].pin > 0
  PROVE  LET t == Finished(s, p, d)
         IN  /\ t \in PageStates /\ t.disk = s.disk /\ t.lru = s.lru
             /\ t.lost = s.lost /\ t.torn = s.torn
             /\ \A q \in Pages!PageIds \ {0, p} : t.frame[q] = s.frame[q]
             /\ t.frame[p].data = s.frame[p].data /\ t.frame[p].pin = s.frame[p].pin - 1
             /\ t.frame[p].dirty = (s.frame[p].dirty \/ d)
             /\ t.frame[0].data = s.frame[0].data /\ t.frame[0].pin = s.frame[0].pin - 1
             /\ t.frame[0].dirty
<1> DEFINE b == Pages!Unpinned(s, p, d)
           t == Pages!Unpinned(b, 0, TRUE)
<1>1. 0 \in Pages!PageIds
  BY PagerConstants DEF Pages!PageIds
<1>2. /\ b \in PageStates /\ b.disk = s.disk /\ b.lru = s.lru
      /\ b.lost = s.lost /\ b.torn = s.torn
      /\ \A q \in Pages!PageIds \ {p} : b.frame[q] = s.frame[q]
      /\ b.frame[p].data = s.frame[p].data /\ b.frame[p].pin = s.frame[p].pin - 1
      /\ b.frame[p].dirty = (s.frame[p].dirty \/ d)
  BY UnpinnedIs
<1> HIDE DEF b
<1>3. b.frame[0].pin > 0 /\ b.frame[0] = s.frame[0]
  BY <1>1, <1>2
<1>4. /\ t \in PageStates /\ t.disk = b.disk /\ t.lru = b.lru
      /\ t.lost = b.lost /\ t.torn = b.torn
      /\ \A q \in Pages!PageIds \ {0} : t.frame[q] = b.frame[q]
      /\ t.frame[0].data = b.frame[0].data /\ t.frame[0].pin = b.frame[0].pin - 1
      /\ t.frame[0].dirty = (b.frame[0].dirty \/ TRUE)
  BY <1>1, <1>2, <1>3, UnpinnedIs
<1> HIDE DEF t
<1>5. t.frame[0].dirty
  BY <1>4
<1>6. Finished(s, p, d) = t
  BY DEF Finished, b, t
<1> QED BY <1>1, <1>2, <1>3, <1>4, <1>5, <1>6

LEMMA ForgottenIs ==
  ASSUME NEW s \in PageStates, NEW p
  PROVE  LET t == Forgotten(s, p)
         IN  /\ t \in PageStates /\ t.disk = s.disk /\ t.lru = s.lru /\ t.frame = s.frame
             /\ t.lost = s.lost \ {p} /\ t.torn = s.torn
             /\ Pages!Cached(t) = Pages!Cached(s) /\ \A q : Seen(t, q) = Seen(s, q)
<1> DEFINE t == Forgotten(s, p)
<1>1. /\ t \in PageStates /\ t.disk = s.disk /\ t.lru = s.lru /\ t.frame = s.frame
      /\ t.lost = s.lost \ {p} /\ t.torn = s.torn
  BY DEF PageStates, Forgotten
<1> HIDE DEF t
<1>2. Pages!Cached(t) = Pages!Cached(s)
  BY <1>1 DEF Pages!Cached
<1>3. \A q : Seen(t, q) = Seen(s, q)
  BY <1>1, <1>2 DEF Seen
<1> QED BY <1>1, <1>2, <1>3 DEF t

\* The end of an operation on the header and the page p, cached and pinned in t, whose
\* contents it may have changed to those in a.
LEMMA TwoPages ==
  ASSUME PagerInv, status = "open", NEW p \in Pages!PageIds \ {0}, p \notin touched,
         NEW t, CacheOK(t, touched), 0 \in Pages!Cached(t), p \in Pages!Cached(t),
         \A q \in Pages!PageIds :
           t.frame[q].pin = IF q = 0 \/ q = p THEN held[q] + 1 ELSE held[q],
         NEW a \in PageStates, a.disk = t.disk, a.lru = t.lru, a.lost = t.lost, a.torn = t.torn,
         \A q \in Pages!PageIds \ {0, p} : a.frame[q] = t.frame[q],
         a.frame[0].pin = t.frame[0].pin, a.frame[p].pin = t.frame[p].pin,
         a.frame[p].dirty = t.frame[p].dirty,
         NEW d \in BOOLEAN, d \/ a.frame[p].data = t.frame[p].data
  PROVE  LET back == Finished(a, p, d)
             f    == Forgotten(back, p)
         IN  /\ back \in PageStates /\ f.disk = back.disk
             /\ CacheOK(f, touched) /\ f.lost = t.lost \ {p} /\ f.torn = t.torn
             /\ \A q \in Pages!PageIds : f.frame[q].pin = held[q]
             /\ Seen(f, 0) = a.frame[0].data /\ Seen(f, p) = a.frame[p].data
             /\ Seen(back, p) = a.frame[p].data
             /\ \A q \in Pages!PageIds \ {0, p} : Seen(f, q) = Seen(t, q)
<1> DEFINE back == Finished(a, p, d)
           f    == Forgotten(back, p)
<1>1. 0 \in Pages!PageIds /\ held \in [Pages!PageIds -> Nat]
  BY PagerConstants DEF Pages!PageIds, PagerInv
<1>2. a.frame[p].pin = held[p] + 1 /\ a.frame[0].pin = held[0] + 1
  BY <1>1
<1>3. a.frame[p].pin > 0 /\ a.frame[0].pin > 0
  BY <1>1, <1>2
<1>4. /\ back \in PageStates /\ back.disk = a.disk /\ back.lru = a.lru
      /\ back.lost = a.lost /\ back.torn = a.torn
      /\ \A q \in Pages!PageIds \ {0, p} : back.frame[q] = a.frame[q]
      /\ back.frame[p].data = a.frame[p].data /\ back.frame[p].pin = a.frame[p].pin - 1
      /\ back.frame[p].dirty = (a.frame[p].dirty \/ d)
      /\ back.frame[0].data = a.frame[0].data /\ back.frame[0].pin = a.frame[0].pin - 1
      /\ back.frame[0].dirty
  BY <1>3, FinishedIs
<1> HIDE DEF back
<1>5. /\ f \in PageStates /\ f.disk = back.disk /\ f.lru = back.lru /\ f.frame = back.frame
      /\ f.lost = back.lost \ {p} /\ f.torn = back.torn
      /\ Pages!Cached(f) = Pages!Cached(back) /\ \A q : Seen(f, q) = Seen(back, q)
  BY <1>4, ForgottenIs
<1> HIDE DEF f
<1>6. ASSUME NEW q \in Pages!PageIds PROVE f.frame[q].pin = held[q]
  <2>1. CASE q = 0 \/ q = p
    BY <2>1, <1>1, <1>2, <1>4, <1>5
  <2>2. CASE q # 0 /\ q # p
    BY <2>2, <1>4, <1>5
  <2> QED BY <2>1, <2>2
<1>7. Pages!Cached(f) = Pages!Cached(t)
  BY <1>4, <1>5 DEF Pages!Cached
<1>8. \A q \in Pages!Cached(t) : q \in Pages!PageIds
  BY DEF CacheOK, PageStates, Pages!Cached
<1>9. a.frame[p] \in PageFrames /\ t.frame[p] \in PageFrames
  BY DEF PageStates, CacheOK
<1>10. ASSUME NEW q \in Pages!Cached(t)
       PROVE  \/ f.frame[q].dirty \/ q \in touched
              \/ q \notin touched /\ f.frame[q].data = t.frame[q].data
                   /\ f.frame[q].dirty = t.frame[q].dirty
  <2>1. CASE q = 0
    BY <2>1, <1>4, <1>5
  <2>2. CASE q = p /\ d
    BY <2>2, <1>4, <1>5
  <2>3. CASE q = p /\ ~d
    <3>1. f.frame[p].data = t.frame[p].data
      BY <2>3, <1>4, <1>5
    <3>2. f.frame[p].dirty = t.frame[p].dirty
      <4>1. t.frame[p].dirty \in BOOLEAN
        BY <1>9 DEF PageFrames
      <4> QED BY <4>1, <2>3, <1>4, <1>5
    <3> QED BY <3>1, <3>2, <2>3
  <2>4. CASE q # 0 /\ q # p
    BY <2>4, <1>4, <1>5, <1>8
  <2> QED BY <2>1, <2>2, <2>3, <2>4
<1>11. \A q \in touched : f.frame[q].pin > 0
  <2>1. ASSUME NEW q \in touched PROVE f.frame[q].pin > 0
    <3>1. CacheOK(Pages!State, touched) /\ q \in Pages!PageIds
      BY DEF PagerInv
    <3>2. frame[q].pin > 0 /\ held[q] = frame[q].pin
      BY <3>1, StateIs DEF CacheOK, PagerInv
    <3> QED BY <3>1, <3>2, <1>6
  <2> QED BY <2>1
<1>12. \A q \in Pages!PageIds \ Pages!Cached(t) : f.frame[q] = t.frame[q]
  BY <1>4, <1>5
<1>13. /\ CacheOK(f, touched)
       /\ \A q \in Pages!PageIds : f.frame[q].data = t.frame[q].data => Seen(f, q) = Seen(t, q)
  <2>1. f.disk = t.disk /\ f.lru = t.lru
    BY <1>4, <1>5
  <2>2. \A q \in Pages!Cached(t) :
          \/ f.frame[q].dirty \/ q \in touched
          \/ q \notin touched /\ f.frame[q].data = t.frame[q].data
               /\ f.frame[q].dirty = t.frame[q].dirty
    BY <1>10
  <2>3. CacheOK(f, touched)
    BY <1>5, <1>7, <1>11, <1>12, <2>1, <2>2 DEF CacheOK
  <2>4. \A q \in Pages!PageIds : f.frame[q].data = t.frame[q].data => Seen(f, q) = Seen(t, q)
    BY <1>7, <2>1 DEF Seen
  <2> QED BY <2>3, <2>4
<1>14. Seen(f, 0) = a.frame[0].data /\ Seen(f, p) = a.frame[p].data
  BY <1>4, <1>5, <1>7 DEF Seen
<1>15. \A q \in Pages!PageIds \ {0, p} : Seen(f, q) = Seen(t, q)
  BY <1>4, <1>5, <1>13
<1> QED BY <1>4, <1>5, <1>6, <1>13, <1>14, <1>15 DEF f, back

LEMMA PageReused ==
  ASSUME PagerInv, ~torn, Pages!AllocReuse
  PROVE  PagerInv'
<1>1. status = "open"
  BY DEF Pages!AllocReuse
<1>2. PICK s \in Pages!Fetches(Pages!State, 0) :
        /\ Pages!FreeHead(s) # -1
        /\ LET p == Pages!FreeHead(s)
           IN  \E t \in Pages!Fetches(s, p) :
                 Pages!Give(Pages!Unpinned(Pages!Unpinned(
                   Pages!SetFreeHead(t, Pages!Content(t, p)[1]), p, FALSE), 0, TRUE), p)
  BY DEF Pages!AllocReuse
<1> DEFINE p == Pages!FreeHead(s)
<1>3. PICK t \in Pages!Fetches(s, p) :
        Pages!Give(Pages!Unpinned(Pages!Unpinned(
          Pages!SetFreeHead(t, Pages!Content(t, p)[1]), p, FALSE), 0, TRUE), p)
  BY <1>2
<1>4. /\ HeaderOK(Pages!State, owned) /\ Seen(s, 0) = Seen(Pages!State, 0)
      /\ p = Seen(Pages!State, 0)[3] /\ Seen(Pages!State, 0) \in Triples
  BY <1>1, HeaderFetched
<1>5. PICK w : Chained(Pages!State, owned, w)
  BY <1>4 DEF HeaderOK
<1>6. w # <<>> /\ p = w[1]
  BY <1>2, <1>4, <1>5 DEF Chained
<1> HIDE DEF p
<1>7. p \in Pages!PageIds \ {0} /\ p \notin owned
  <2>1. w \in Seq(Pages!PageIds) /\ 1 \in DOMAIN w /\ w[1] \in Members(w)
    BY <1>5, <1>6 DEF Chained, Members
  <2> QED BY <1>5, <1>6, <2>1 DEF Chained
<1>8. /\ CacheOK(t, touched) /\ t \in PageStates
      /\ 0 \in Pages!Cached(t) /\ p \in Pages!Cached(t)
      /\ \A q \in Pages!PageIds :
           t.frame[q].pin = IF q = 0 \/ q = p THEN held[q] + 1 ELSE held[q]
      /\ Seen(t, 0) = Seen(Pages!State, 0)
      /\ ~t.torn => /\ HeaderOK(t, owned) /\ Keeps(t, owned, wrote)
                    /\ \A x : Chained(Pages!State, owned, x) => Chained(t, owned, x)
  BY <1>1, <1>3, <1>7, FetchedTwice
<1> DEFINE link == Pages!Content(t, p)[1]
           a == Pages!SetFreeHead(t, link)
           clean == FALSE
           back == Finished(a, p, clean)
           f == Forgotten(back, p)
<1>9. 0 \in Pages!PageIds
  BY PagerConstants DEF Pages!PageIds
<1>10. link \in Int /\ link = Seen(t, p)[1] /\ Seen(t, 0) = t.frame[0].data
  <2>1. t.frame[p] \in PageFrames
    BY <1>7, <1>8 DEF PageStates
  <2> QED BY <2>1, <1>8 DEF PageFrames, Triples, Pages!Content, Seen
<1> HIDE DEF link
<1>11. /\ a \in PageStates /\ a.disk = t.disk /\ a.lru = t.lru
       /\ a.lost = t.lost /\ a.torn = t.torn
       /\ \A q \in Pages!PageIds \ {0} : a.frame[q] = t.frame[q]
       /\ a.frame[0].data = [t.frame[0].data EXCEPT ![3] = link]
       /\ a.frame[0].pin = t.frame[0].pin
  <2> DEFINE e == [t.frame[0].data EXCEPT ![3] = link]
  <2>1. a = Pages!SetContent(t, 0, e) /\ e \in Triples
    BY <1>8, <1>10, HeaderSet
  <2> HIDE DEF a, e
  <2>2. /\ a \in PageStates /\ a.disk = t.disk /\ a.lru = t.lru
        /\ a.lost = t.lost /\ a.torn = t.torn
        /\ \A q \in Pages!PageIds \ {0} : a.frame[q] = t.frame[q]
        /\ a.frame[0].data = e /\ a.frame[0].pin = t.frame[0].pin
    BY <1>8, <1>9, <2>1, ContentIs
  <2> QED BY <2>2 DEF e
<1> HIDE DEF a
<1>12. p \notin touched
  <2>1. p \in touched => frame[p].pin > 0
    BY StateIs DEF PagerInv, CacheOK
  <2> QED BY <2>1, <1>1, <1>7 DEF PagerInv
<1>13. /\ back \in PageStates /\ f.disk = back.disk
       /\ CacheOK(f, touched) /\ f.lost = t.lost \ {p} /\ f.torn = t.torn
       /\ \A q \in Pages!PageIds : f.frame[q].pin = held[q]
       /\ Seen(f, 0) = a.frame[0].data /\ Seen(f, p) = a.frame[p].data
       /\ Seen(back, p) = a.frame[p].data
       /\ \A q \in Pages!PageIds \ {0, p} : Seen(f, q) = Seen(t, q)
  <2>1. /\ \A q \in Pages!PageIds \ {0, p} : a.frame[q] = t.frame[q]
        /\ a.frame[p].pin = t.frame[p].pin
        /\ a.frame[p].dirty = t.frame[p].dirty
        /\ clean \in BOOLEAN /\ (clean \/ a.frame[p].data = t.frame[p].data)
    BY <1>7, <1>11
  <2> HIDE DEF clean
  <2> QED BY <1>1, <1>7, <1>8, <1>11, <1>12, <2>1, TwoPages
<1>14. Pages!Give(back, p)
  BY <1>3 DEF back, a, link, Finished
<1> HIDE DEF back, f
<1>15. /\ Pages!Become(f) /\ Pages!Wrote(back) /\ back.disk = f.disk
       /\ owned' = owned \cup {p} /\ wrote' = [wrote EXCEPT ![p] = Seen(back, p)]
       /\ UNCHANGED <<status, held, touched>>
  BY <1>13, <1>14 DEF Pages!Give, Seen, Pages!Content, f, Forgotten
<1>16. Seen(t, p) = t.frame[p].data /\ a.frame[p] = t.frame[p] /\ Seen(f, p) = Seen(t, p)
  BY <1>7, <1>8, <1>11, <1>13 DEF Seen
<1>17. \A q \in Pages!PageIds \ {0} : Seen(f, q) = Seen(t, q)
  BY <1>7, <1>13, <1>16
<1>18. wrote' \in [Pages!PageIds -> Triples]
  <2>1. a.frame[p] \in PageFrames
    BY <1>7, <1>11 DEF PageStates
  <2> QED BY <2>1, <1>13, <1>15 DEF PagerInv, PageFrames
<1>19. ~f.torn => HeaderOK(f, owned') /\ Keeps(f, owned', wrote')
  <2> SUFFICES ASSUME ~f.torn PROVE HeaderOK(f, owned') /\ Keeps(f, owned', wrote')
    OBVIOUS
  <2>1. HeaderOK(t, owned) /\ Keeps(t, owned, wrote) /\ Chained(t, owned, w)
    BY <1>5, <1>8, <1>13
  <2>2. Seen(t, 0) \in Triples /\ Seen(f, 0) = [Seen(t, 0) EXCEPT ![3] = Seen(t, w[1])[1]]
    BY <1>4, <1>6, <1>8, <1>10, <1>11, <1>13
  <2>3. HeaderOK(f, owned \cup {w[1]})
    BY <2>1, <2>2, <1>6, <1>17, ListTaken
  <2>4. Keeps(f, owned', wrote')
    <3>1. ASSUME NEW q \in owned' \ f.lost PROVE Seen(f, q) = wrote'[q]
      <4>1. CASE q = p
        BY <4>1, <1>7, <1>13, <1>15 DEF PagerInv
      <4>2. CASE q # p
        <5>1. q \in owned \ t.lost /\ q \in Pages!PageIds \ {0}
          BY <4>2, <1>13, <1>15 DEF PagerInv
        <5>2. wrote'[q] = wrote[q]
          BY <4>2, <1>15, <5>1 DEF PagerInv
        <5> QED BY <5>1, <5>2, <2>1, <1>17 DEF Keeps
      <4> QED BY <4>1, <4>2
    <3> QED BY <3>1 DEF Keeps
  <2> QED BY <2>3, <2>4, <1>6, <1>15
<1>20. /\ owned' \subseteq Pages!PageIds \ {0}
       /\ \A q \in Pages!PageIds : held[q] > 0 => q \in owned'
  BY <1>7, <1>15 DEF PagerInv
<1> QED BY <1>1, <1>13, <1>15, <1>18, <1>19, <1>20, Settled

LEMMA PageAppended ==
  ASSUME PagerInv, ~torn, Pages!AllocAppend
  PROVE  PagerInv'
<1>1. status = "open"
  BY DEF Pages!AllocAppend
<1>2. PICK s \in Pages!Fetches(Pages!State, 0) :
        /\ Pages!FreeHead(s) = -1 /\ Pages!TotalPages(s) <= LastPage
        /\ Pages!Give(Pages!Unpinned(Pages!SetTotal(s, Pages!TotalPages(s) + 1), 0, TRUE),
                      Pages!TotalPages(s))
  BY DEF Pages!AllocAppend
<1> DEFINE n == Pages!TotalPages(s)
<1>3. /\ HeaderOK(Pages!State, owned) /\ Seen(s, 0) = Seen(Pages!State, 0)
      /\ Seen(s, 0)[3] = -1 /\ Seen(s, 0)[2] = n /\ n <= LastPage /\ Seen(s, 0) \in Triples
  BY <1>1, <1>2, HeaderFetched
<1>4. Pages!Give(Pages!Unpinned(Pages!SetTotal(s, n + 1), 0, TRUE), n)
  BY <1>2
<1> HIDE DEF n
<1>5. 0 \in Pages!PageIds /\ held \in [Pages!PageIds -> Nat]
  BY PagerConstants DEF Pages!PageIds, PagerInv
<1>6. /\ CacheOK(s, touched) /\ s \in PageStates /\ 0 \in Pages!Cached(s)
      /\ \A q \in Pages!PageIds : s.frame[q].pin = IF q = 0 THEN held[q] + 1 ELSE held[q]
      /\ ~s.torn => HeaderOK(s, owned) /\ Keeps(s, owned, wrote)
  BY <1>1, <1>5, Fetched
<1>7. n \in Pages!PageIds \ {0} /\ n \notin owned /\ n + 1 \in Int
  <2>1. n \in 1 .. LastPage + 1 /\ owned \subseteq 1 .. n - 1
    BY <1>3, PagerConstants DEF HeaderOK
  <2> QED BY <1>3, <2>1, PagerConstants DEF Pages!PageIds
<1> DEFINE a == Pages!SetTotal(s, n + 1)
           back == Pages!Unpinned(a, 0, TRUE)
           f == Forgotten(back, n)
<1>8. Seen(s, 0) = s.frame[0].data
  BY <1>6 DEF Seen
<1>9. /\ a \in PageStates /\ a.disk = s.disk /\ a.lru = s.lru
      /\ a.lost = s.lost /\ a.torn = s.torn
      /\ \A q \in Pages!PageIds \ {0} : a.frame[q] = s.frame[q]
      /\ a.frame[0].data = [s.frame[0].data EXCEPT ![2] = n + 1]
      /\ a.frame[0].pin = s.frame[0].pin
  <2> DEFINE e == [s.frame[0].data EXCEPT ![2] = n + 1]
  <2>1. a = Pages!SetContent(s, 0, e) /\ e \in Triples
    BY <1>6, <1>7, HeaderSet
  <2> HIDE DEF a, e
  <2>2. /\ a \in PageStates /\ a.disk = s.disk /\ a.lru = s.lru
        /\ a.lost = s.lost /\ a.torn = s.torn
        /\ \A q \in Pages!PageIds \ {0} : a.frame[q] = s.frame[q]
        /\ a.frame[0].data = e /\ a.frame[0].pin = s.frame[0].pin
    BY <1>5, <1>6, <2>1, ContentIs
  <2> QED BY <2>2 DEF e
<1> HIDE DEF a
<1>10. a.frame[0].pin > 0 /\ a.frame[0].pin - 1 = held[0]
  BY <1>5, <1>6, <1>9
<1>11. /\ back \in PageStates /\ back.disk = a.disk /\ back.lru = a.lru
       /\ back.lost = a.lost /\ back.torn = a.torn
       /\ \A q \in Pages!PageIds \ {0} : back.frame[q] = a.frame[q]
       /\ back.frame[0].data = a.frame[0].data /\ back.frame[0].pin = a.frame[0].pin - 1
       /\ back.frame[0].dirty
  <2>1. /\ back \in PageStates /\ back.disk = a.disk /\ back.lru = a.lru
        /\ back.lost = a.lost /\ back.torn = a.torn
        /\ \A q \in Pages!PageIds \ {0} : back.frame[q] = a.frame[q]
        /\ back.frame[0].data = a.frame[0].data /\ back.frame[0].pin = a.frame[0].pin - 1
        /\ back.frame[0].dirty = (a.frame[0].dirty \/ TRUE)
    BY <1>5, <1>9, <1>10, UnpinnedIs
  <2> HIDE DEF back
  <2> QED BY <2>1
<1>12. Pages!Give(back, n)
  BY <1>4 DEF a
<1> HIDE DEF back
<1>13. /\ f \in PageStates /\ f.disk = back.disk /\ f.lru = back.lru /\ f.frame = back.frame
       /\ f.lost = back.lost \ {n} /\ f.torn = back.torn
       /\ Pages!Cached(f) = Pages!Cached(back) /\ \A q : Seen(f, q) = Seen(back, q)
  BY <1>11, ForgottenIs
<1>14. /\ Pages!Become(f) /\ Pages!Wrote(back)
       /\ owned' = owned \cup {n} /\ wrote' = [wrote EXCEPT ![n] = Seen(back, n)]
       /\ UNCHANGED <<status, held, touched>>
  BY <1>12 DEF Pages!Give, Seen, Pages!Content, Forgotten
<1> HIDE DEF f
<1>15. /\ f.disk = s.disk /\ f.lru = s.lru /\ f.torn = s.torn /\ f.lost = s.lost \ {n}
       /\ \A q \in Pages!PageIds \ {0} : f.frame[q] = s.frame[q]
       /\ f.frame[0].data = [s.frame[0].data EXCEPT ![2] = n + 1]
       /\ f.frame[0].dirty /\ f.frame[0].pin = held[0]
       /\ Pages!Cached(f) = Pages!Cached(s)
  BY <1>9, <1>10, <1>11, <1>13 DEF Pages!Cached
<1>16. \A q \in Pages!PageIds : f.frame[q].pin = held[q]
  BY <1>6, <1>15
<1>17. CacheOK(f, touched)
  <2>1. \A q \in touched : f.frame[q].pin > 0
    <3>1. \A q \in touched : q \in Pages!PageIds /\ frame[q].pin > 0
      BY StateIs DEF PagerInv, CacheOK
    <3> QED BY <3>1, <1>1, <1>16 DEF PagerInv
  <2> QED BY <1>6, <1>13, <1>15, <2>1 DEF CacheOK
<1>18. /\ \A q \in Pages!PageIds \ {0} : Seen(f, q) = Seen(s, q)
       /\ Seen(f, 0) = [Seen(s, 0) EXCEPT ![2] = Seen(s, 0)[2] + 1]
  BY <1>3, <1>6, <1>8, <1>15 DEF Seen
<1>19. wrote' \in [Pages!PageIds -> Triples]
  <2>1. Seen(back, n) \in Triples
    BY <1>7, <1>11 DEF Seen, PageStates, PageFrames
  <2> QED BY <2>1, <1>14 DEF PagerInv
<1>20. ~f.torn => HeaderOK(f, owned') /\ Keeps(f, owned', wrote')
  <2> SUFFICES ASSUME ~f.torn PROVE HeaderOK(f, owned') /\ Keeps(f, owned', wrote')
    OBVIOUS
  <2>1. HeaderOK(s, owned) /\ Keeps(s, owned, wrote)
    BY <1>6, <1>15
  <2>2. HeaderOK(f, owned \cup {Seen(s, 0)[2]})
    BY <1>3, <1>18, <2>1, ListAppended
  <2>3. Keeps(f, owned', wrote')
    <3>1. ASSUME NEW q \in owned' \ f.lost PROVE Seen(f, q) = wrote'[q]
      <4>1. CASE q = n
        BY <4>1, <1>7, <1>13, <1>14 DEF PagerInv
      <4>2. CASE q # n
        <5>1. q \in owned \ s.lost /\ q \in Pages!PageIds \ {0}
          BY <4>2, <1>14, <1>15 DEF PagerInv
        <5>2. wrote'[q] = wrote[q]
          BY <4>2, <1>14, <5>1 DEF PagerInv
        <5> QED BY <5>1, <5>2, <2>1, <1>18 DEF Keeps
      <4> QED BY <4>1, <4>2
    <3> QED BY <3>1 DEF Keeps
  <2> QED BY <2>2, <2>3, <1>3, <1>14
<1>21. /\ owned' \subseteq Pages!PageIds \ {0} /\ back.disk = f.disk
       /\ \A q \in Pages!PageIds : held[q] > 0 => q \in owned'
  BY <1>7, <1>13, <1>14 DEF PagerInv
<1> QED BY <1>1, <1>14, <1>16, <1>17, <1>19, <1>20, <1>21, Settled

LEMMA PageFreed ==
  ASSUME PagerInv, ~torn, NEW p \in Pages!PageIds, Pages!Free(p)
  PROVE  PagerInv'
<1>1. /\ status = "open" /\ p \in owned /\ p > 0 /\ held[p] = 0
      /\ owned' = owned \ {p} /\ UNCHANGED <<status, held, touched, wrote>>
  BY DEF Pages!Free
<1>2. PICK s \in Pages!Fetches(Pages!State, 0) : \E t \in Pages!Fetches(s, p) :
        LET u == Finished(Pages!Linked(t, p), p, TRUE)
        IN  Pages!Become([u EXCEPT !.lost = @ \ {p}]) /\ Pages!Wrote(u)
  BY DEF Pages!Free, Finished
<1>3. PICK t \in Pages!Fetches(s, p) :
        LET u == Finished(Pages!Linked(t, p), p, TRUE)
        IN  Pages!Become(Forgotten(u, p)) /\ Pages!Wrote(u)
  BY <1>2 DEF Forgotten
<1>4. p \in Pages!PageIds \ {0} /\ 0 \in Pages!PageIds
  BY <1>1, PagerConstants DEF Pages!PageIds
<1>5. /\ CacheOK(t, touched) /\ t \in PageStates
      /\ 0 \in Pages!Cached(t) /\ p \in Pages!Cached(t)
      /\ \A q \in Pages!PageIds :
           t.frame[q].pin = IF q = 0 \/ q = p THEN held[q] + 1 ELSE held[q]
      /\ Seen(t, 0) = Seen(Pages!State, 0)
      /\ ~t.torn => HeaderOK(t, owned) /\ Keeps(t, owned, wrote)
  BY <1>1, <1>4, FetchedTwice
<1>6. Seen(t, 0) = t.frame[0].data /\ Seen(t, 0) \in Triples
  BY <1>4, <1>5 DEF Seen, PageStates, PageFrames
<1> DEFINE head == Seen(t, 0)[3]
           d == <<head, 0, 0>>
           b == Pages!SetContent(t, p, d)
           a == Pages!SetFreeHead(b, p)
           marked == TRUE
           back == Finished(a, p, marked)
           f == Forgotten(back, p)
<1>7. Pages!FreeHead(t) = head /\ head \in Int
  BY <1>6 DEF Pages!FreeHead, Pages!Content, Triples
<1>8. Pages!Linked(t, p) = a
  BY <1>7 DEF Pages!Linked
<1>9. Pages!Become(f) /\ Pages!Wrote(back)
  BY <1>3, <1>8
<1> HIDE DEF head
<1>10. d \in Triples /\ d[1] = head
  BY <1>7 DEF Triples
<1> HIDE DEF d
<1>11. /\ b \in PageStates /\ b.disk = t.disk /\ b.lru = t.lru
       /\ b.lost = t.lost /\ b.torn = t.torn
       /\ \A q \in Pages!PageIds \ {p} : b.frame[q] = t.frame[q]
       /\ b.frame[p].data = d /\ b.frame[p].pin = t.frame[p].pin
       /\ b.frame[p].dirty = t.frame[p].dirty
  BY <1>5, <1>10, ContentIs
<1> HIDE DEF b
<1>12. /\ a \in PageStates /\ a.disk = b.disk /\ a.lru = b.lru
       /\ a.lost = b.lost /\ a.torn = b.torn
       /\ \A q \in Pages!PageIds \ {0} : a.frame[q] = b.frame[q]
       /\ a.frame[0].data = [b.frame[0].data EXCEPT ![3] = p]
       /\ a.frame[0].pin = b.frame[0].pin
  <2> DEFINE e == [b.frame[0].data EXCEPT ![3] = p]
  <2>1. p \in Int
    BY <1>4, PagerConstants DEF Pages!PageIds
  <2>2. a = Pages!SetContent(b, 0, e) /\ e \in Triples
    BY <1>11, <2>1, HeaderSet
  <2> HIDE DEF a, e
  <2>3. /\ a \in PageStates /\ a.disk = b.disk /\ a.lru = b.lru
        /\ a.lost = b.lost /\ a.torn = b.torn
        /\ \A q \in Pages!PageIds \ {0} : a.frame[q] = b.frame[q]
        /\ a.frame[0].data = e /\ a.frame[0].pin = b.frame[0].pin
    BY <1>4, <1>11, <2>2, ContentIs
  <2> QED BY <2>3 DEF e
<1> HIDE DEF a
<1>13. p \notin touched
  <2>1. p \in touched => frame[p].pin > 0
    BY StateIs DEF PagerInv, CacheOK
  <2> QED BY <2>1, <1>1 DEF PagerInv
<1>14. /\ back \in PageStates /\ f.disk = back.disk
       /\ CacheOK(f, touched) /\ f.lost = t.lost \ {p} /\ f.torn = t.torn
       /\ \A q \in Pages!PageIds : f.frame[q].pin = held[q]
       /\ Seen(f, 0) = a.frame[0].data /\ Seen(f, p) = a.frame[p].data
       /\ \A q \in Pages!PageIds \ {0, p} : Seen(f, q) = Seen(t, q)
  <2>1. /\ \A q \in Pages!PageIds \ {0, p} : a.frame[q] = t.frame[q]
        /\ a.frame[0].pin = t.frame[0].pin
        /\ a.frame[p].pin = t.frame[p].pin /\ a.frame[p].dirty = t.frame[p].dirty
        /\ marked \in BOOLEAN /\ (marked \/ a.frame[p].data = t.frame[p].data)
    BY <1>4, <1>11, <1>12
  <2> HIDE DEF marked
  <2>2. a.disk = t.disk /\ a.lru = t.lru /\ a.lost = t.lost /\ a.torn = t.torn
    BY <1>11, <1>12
  <2> QED BY <1>1, <1>4, <1>5, <1>12, <1>13, <2>1, <2>2, TwoPages
<1> HIDE DEF back, f
<1>15. Seen(f, p)[1] = Seen(t, 0)[3] /\ Seen(f, 0) = [Seen(t, 0) EXCEPT ![3] = p]
  BY <1>4, <1>6, <1>10, <1>11, <1>12, <1>14 DEF head
<1>16. ~f.torn => HeaderOK(f, owned') /\ Keeps(f, owned', wrote')
  <2> SUFFICES ASSUME ~f.torn PROVE HeaderOK(f, owned') /\ Keeps(f, owned', wrote')
    OBVIOUS
  <2>1. HeaderOK(t, owned) /\ Keeps(t, owned, wrote) /\ owned \subseteq Pages!PageIds \ {0}
    BY <1>5, <1>14 DEF PagerInv
  <2>2. HeaderOK(f, owned \ {p})
    BY <1>1, <1>6, <1>14, <1>15, <2>1, ListGiven
  <2>3. Keeps(f, owned', wrote')
    BY <1>1, <1>14, <2>1 DEF Keeps
  <2> QED BY <2>2, <2>3, <1>1
<1>17. /\ owned' \subseteq Pages!PageIds \ {0} /\ back.disk = f.disk
       /\ wrote' \in [Pages!PageIds -> Triples] /\ UNCHANGED <<status, held, touched>>
       /\ \A q \in Pages!PageIds : held[q] > 0 => q \in owned'
  BY <1>1, <1>14 DEF PagerInv
<1> QED BY <1>1, <1>9, <1>14, <1>16, <1>17, Settled

\* A NULL page of the first fetch, or of the second one, that is dereferenced.
LEMMA OperationCrashes ==
  ASSUME PagerInv, status = "open", ~torn,
         \/ Pages!FetchFails(Pages!State, 0) /\ Pages!Segv(Pages!State)
         \/ \E s \in Pages!Fetches(Pages!State, 0) : \E p \in Pages!PageIds :
              Pages!FetchFails(s, p) /\ Pages!Segv(s)
  PROVE  PagerInv'
<1>1. CASE Pages!FetchFails(Pages!State, 0) /\ Pages!Segv(Pages!State)
  <2>1. /\ CacheOK(Pages!State, touched)
        /\ HeaderOK(Pages!State, owned) /\ Keeps(Pages!State, owned, wrote)
        /\ \A q \in Pages!PageIds : held[q] = Pages!State.frame[q].pin
        /\ held \in [Pages!PageIds -> Nat]
    BY StateIs DEF PagerInv
  <2>2. \A q \in Pages!PageIds : held[q] <= Pages!State.frame[q].pin
    BY <2>1
  <2> QED BY <1>1, <2>1, <2>2, Crashed
<1>2. ASSUME NEW s \in Pages!Fetches(Pages!State, 0), NEW p \in Pages!PageIds,
             Pages!FetchFails(s, p), Pages!Segv(s)
      PROVE  PagerInv'
  <2>1. 0 \in Pages!PageIds /\ held \in [Pages!PageIds -> Nat]
    BY PagerConstants DEF Pages!PageIds, PagerInv
  <2>2. /\ CacheOK(s, touched)
        /\ \A q \in Pages!PageIds : s.frame[q].pin = IF q = 0 THEN held[q] + 1 ELSE held[q]
        /\ ~s.torn => HeaderOK(s, owned) /\ Keeps(s, owned, wrote)
    BY <2>1, Fetched
  <2>3. /\ \A q \in Pages!PageIds : held[q] <= s.frame[q].pin
        /\ \A q \in Pages!PageIds \ {0} : s.frame[q].pin = held[q]
    BY <2>1, <2>2
  <2> QED BY <1>2, <2>2, <2>3, Crashed
<1> QED BY <1>1, <1>2

LEMMA PagerUsed ==
  ASSUME PagerInv, ~torn, Pages!Use
  PROVE  PagerInv'
<1>1. ASSUME Pages!AllocFails PROVE PagerInv'
  <2>1. \A s : Pages!FreeHead(s) \in Pages!PageIds /\ Pages!FetchFails(s, Pages!FreeHead(s))
                 => \E p \in Pages!PageIds : Pages!FetchFails(s, p)
    OBVIOUS
  <2>2. /\ status = "open"
        /\ \/ Pages!FetchFails(Pages!State, 0) /\ Pages!Segv(Pages!State)
           \/ \E s \in Pages!Fetches(Pages!State, 0) : \E p \in Pages!PageIds :
                Pages!FetchFails(s, p) /\ Pages!Segv(s)
    BY <1>1, <2>1 DEF Pages!AllocFails
  <2> QED BY <2>2, OperationCrashes
<1>2. ASSUME NEW p \in Pages!PageIds, Pages!FreeFails(p) PROVE PagerInv'
  <2>1. /\ status = "open"
        /\ \/ Pages!FetchFails(Pages!State, 0) /\ Pages!Segv(Pages!State)
           \/ \E s \in Pages!Fetches(Pages!State, 0) : \E q \in Pages!PageIds :
                Pages!FetchFails(s, q) /\ Pages!Segv(s)
    BY <1>2 DEF Pages!FreeFails
  <2> QED BY <2>1, OperationCrashes
<1> QED
  BY <1>1, <1>2, PageReused, PageAppended, PageFetched, PageWritten, PageUnpinned, PageFreed
     DEF Pages!Use

\* Nothing is pinned or being written while the pager is closed.
LEMMA NobodyInside ==
  ASSUME PagerInv, status # "segv", \A p \in Pages!PageIds : held[p] = 0
  PROVE  touched = {} /\ \A p \in Pages!PageIds : frame[p].pin = 0
<1>1. \A p \in Pages!PageIds : frame[p].pin = 0
  BY DEF PagerInv
<1>2. ASSUME NEW p \in touched PROVE FALSE
  <2>1. p \in Pages!PageIds /\ frame[p].pin > 0
    BY StateIs DEF PagerInv, CacheOK
  <2> QED BY <1>1, <2>1
<1> QED BY <1>1, <1>2

\* An empty cache.
LEMMA ClosedIs ==
  ASSUME NEW s \in PageStates
  PROVE  LET t == Pages!Closed(s)
         IN  /\ t \in PageStates /\ CacheOK(t, {}) /\ t.disk = s.disk /\ t.lru = <<>>
             /\ t.lost = s.lost /\ t.torn = s.torn
             /\ \A q \in Pages!PageIds : t.frame[q] = Pages!Unused /\ t.frame[q].pin = 0
             /\ \A q \in Pages!PageIds : Seen(t, q) = s.disk[q]
<1> DEFINE t == Pages!Closed(s)
<1>1. /\ t.disk = s.disk /\ t.lru = <<>> /\ t.lost = s.lost /\ t.torn = s.torn
      /\ t.frame = [p \in Pages!PageIds |-> Pages!Unused]
      /\ t = [disk |-> t.disk, lru |-> t.lru, frame |-> t.frame, lost |-> t.lost,
              torn |-> t.torn]
  <2> DEFINE clean == [p \in Pages!PageIds |-> Pages!Unused]
  <2>1. s = [disk |-> s.disk, lru |-> s.lru, frame |-> s.frame, lost |-> s.lost,
             torn |-> s.torn]
    BY DEF PageStates
  <2>2. t = [s EXCEPT !.lru = <<>>, !.frame = clean]
    BY DEF Pages!Closed
  <2> HIDE DEF t, clean
  <2>3. t = [disk |-> s.disk, lru |-> <<>>, frame |-> clean, lost |-> s.lost,
             torn |-> s.torn]
    BY <2>1, <2>2
  <2>4. t = [disk |-> t.disk, lru |-> t.lru, frame |-> t.frame, lost |-> t.lost,
             torn |-> t.torn]
    BY <2>3
  <2> QED BY <2>3, <2>4 DEF clean
<1> HIDE DEF t
<1>2. t \in PageStates
  <2>1. t.frame \in [Pages!PageIds -> PageFrames] /\ t.lru \in Seq(Pages!PageIds)
    BY <1>1, PagerConstants
  <2>2. /\ t.disk \in [Pages!PageIds -> Triples] /\ t.lost \in SUBSET Pages!PageIds
        /\ t.torn \in BOOLEAN
    BY <1>1 DEF PageStates
  <2> QED BY <1>1, <2>1, <2>2 DEF PageStates
<1>3. Pages!Cached(t) = {}
  BY <1>1 DEF Pages!Cached
<1>4. \A q \in Pages!PageIds : t.frame[q] = Pages!Unused /\ t.frame[q].pin = 0
  BY <1>1 DEF Pages!Unused
<1>5. Len(t.lru) = 0 /\ Distinct(t.lru)
  BY <1>1 DEF Distinct
<1>6. CacheOK(t, {})
  BY <1>2, <1>3, <1>4, <1>5, PagerConstants DEF CacheOK
<1>7. \A q \in Pages!PageIds : Seen(t, q) = s.disk[q]
  BY <1>1, <1>3 DEF Seen
<1> QED BY <1>1, <1>2, <1>4, <1>6, <1>7 DEF t

LEMMA PagerDestroyed ==
  ASSUME PagerInv, Pages!Destroy
  PROVE  PagerInv'
<1> DEFINE s == [Pages!State EXCEPT !.torn = TRUE]
           f == Pages!Closed(s)
<1>1. /\ Pages!Become(f) /\ status' = "closed"
      /\ held' = [p \in Pages!PageIds |-> 0] /\ touched' = {} /\ owned' = {}
      /\ UNCHANGED <<empty, wrote>>
  BY DEF Pages!Destroy
<1>2. Pages!State \in PageStates
  BY DEF PagerInv, CacheOK
<1>3. s \in PageStates /\ s.disk = disk /\ s.torn
  BY <1>2, StateIs DEF PageStates
<1> HIDE DEF s
<1>4. /\ f \in PageStates /\ CacheOK(f, {}) /\ f.disk = disk /\ f.lru = <<>> /\ f.torn
      /\ \A q \in Pages!PageIds : f.frame[q].pin = 0
  BY <1>3, ClosedIs
<1> HIDE DEF f
<1>5. /\ Pages!State' = f /\ disk' = f.disk /\ lru' = f.lru /\ frame' = f.frame
      /\ torn' = f.torn
  BY <1>1, <1>4, Becoming
<1>6. /\ held' \in [Pages!PageIds -> Nat] /\ owned' \subseteq Pages!PageIds \ {0}
      /\ touched' \subseteq Pages!PageIds
      /\ \A q \in Pages!PageIds : held'[q] = 0 /\ frame'[q].pin = 0
  BY <1>1, <1>4, <1>5
<1>7. CacheOK(Pages!State', touched')
  BY <1>1, <1>4, <1>5
<1> QED BY <1>1, <1>4, <1>5, <1>6, <1>7 DEF PagerInv

\* Every page is flushed or lost; a page that is flushed or was clean is on disk.
LEMMA PagerClosed ==
  ASSUME PagerInv, Pages!Close
  PROVE  PagerInv'
<1>1. /\ status = "open" /\ status' = "closed" /\ \A p \in Pages!PageIds : held[p] = 0
      /\ UNCHANGED <<held, touched, owned, wrote>>
  BY DEF Pages!Close
<1> DEFINE dirtied == {p \in Pages!PageIds : frame[p].dirty}
<1>2. PICK failed \in SUBSET dirtied :
        LET written == dirtied \ failed
        IN  /\ Pages!Become(Pages!Closed([Pages!Losing(Pages!State, failed) EXCEPT
                 !.disk = [p \in Pages!PageIds |->
                             IF p \in written THEN frame[p].data ELSE @[p]]]))
            /\ empty' = (empty /\ written = {})
  BY DEF Pages!Close
<1> DEFINE written == dirtied \ failed
           onDisk == [p \in Pages!PageIds |-> IF p \in written THEN frame[p].data ELSE disk[p]]
           s == [disk |-> onDisk, lru |-> lru, frame |-> frame, lost |-> lost \cup (failed \cap owned),
                 torn |-> torn \/ ~(failed \subseteq owned)]
           f == Pages!Closed(s)
<1>3. CacheOK(Pages!State, touched) /\ Pages!State \in PageStates
  BY DEF PagerInv, CacheOK
<1>4. touched = {} /\ \A p \in Pages!PageIds : frame[p].pin = 0
  BY <1>1, NobodyInside
<1>5. /\ disk \in [Pages!PageIds -> Triples] /\ lru \in Seq(Pages!PageIds)
      /\ frame \in [Pages!PageIds -> PageFrames] /\ lost \subseteq Pages!PageIds
      /\ torn \in BOOLEAN
  BY <1>3, StateIs DEF PageStates
<1>6. [Pages!Losing(Pages!State, failed) EXCEPT
         !.disk = [p \in Pages!PageIds |-> IF p \in written THEN frame[p].data ELSE @[p]]] = s
  <2> DEFINE x == Pages!Losing(Pages!State, failed)
             gone == lost \cup (failed \cap owned)
             tears == torn \/ ~(failed \subseteq owned)
  <2>1. x = [disk |-> disk, lru |-> lru, frame |-> frame, lost |-> gone, torn |-> tears]
    <3> HIDE DEF gone, tears
    <3>1. x = [Pages!State EXCEPT !.lost = gone, !.torn = tears]
      BY DEF Pages!Losing, Pages!State, gone, tears
    <3> HIDE DEF x
    <3> QED BY <3>1 DEF Pages!State
  <2> HIDE DEF x, gone, tears, written
  <2>2. [p \in Pages!PageIds |-> IF p \in written THEN frame[p].data ELSE x.disk[p]] = onDisk
    BY <2>1
  <2> HIDE DEF onDisk
  <2>3. [x EXCEPT !.disk = onDisk] = [disk |-> onDisk, lru |-> lru, frame |-> frame,
                                     lost |-> gone, torn |-> tears]
    BY <2>1
  <2>4. [x EXCEPT !.disk =
           [p \in Pages!PageIds |-> IF p \in written THEN frame[p].data ELSE @[p]]]
          = [x EXCEPT !.disk =
               [p \in Pages!PageIds |-> IF p \in written THEN frame[p].data ELSE x.disk[p]]]
    OBVIOUS
  <2>5. [x EXCEPT !.disk =
           [p \in Pages!PageIds |-> IF p \in written THEN frame[p].data ELSE @[p]]]
          = [disk |-> onDisk, lru |-> lru, frame |-> frame, lost |-> gone, torn |-> tears]
    BY <2>2, <2>3, <2>4
  <2> QED BY <2>5 DEF gone, tears, x
<1>7. Pages!Become(f) /\ empty' = (empty /\ written = {})
  BY <1>2, <1>6
<1>8. written \subseteq dirtied /\ failed \subseteq dirtied /\ dirtied \subseteq Pages!PageIds
  OBVIOUS
<1>9. \A p \in Pages!PageIds : p \in dirtied <=> frame[p].dirty
  OBVIOUS
<1>10. \A p \in Pages!PageIds : onDisk[p] = IF p \in written THEN frame[p].data ELSE disk[p]
  OBVIOUS
<1>11. onDisk \in [Pages!PageIds -> Triples]
  <2>1. \A p \in Pages!PageIds : frame[p].data \in Triples /\ disk[p] \in Triples
    BY <1>5 DEF PageFrames
  <2> QED BY <2>1
<1>12. written = dirtied \ failed
  OBVIOUS
<1> HIDE DEF onDisk, written, dirtied
<1>13. /\ s \in PageStates /\ s.disk = onDisk /\ s.lost = lost \cup (failed \cap owned)
       /\ s.torn = (torn \/ ~(failed \subseteq owned))
  <2> DEFINE gone == lost \cup (failed \cap owned)
             tears == torn \/ ~(failed \subseteq owned)
  <2>1. gone \subseteq Pages!PageIds /\ tears \in BOOLEAN
    BY <1>5, <1>8
  <2> HIDE DEF gone, tears
  <2>2. /\ s \in PageStates /\ s.disk = onDisk /\ s.lost = gone /\ s.torn = tears
    BY <1>5, <1>11, <2>1 DEF PageStates, gone, tears
  <2> QED BY <2>2 DEF gone, tears
<1> HIDE DEF s
<1>14. /\ f \in PageStates /\ CacheOK(f, {}) /\ f.disk = onDisk /\ f.lru = <<>>
       /\ f.lost = s.lost /\ f.torn = s.torn
       /\ \A q \in Pages!PageIds : f.frame[q].pin = 0
       /\ \A q \in Pages!PageIds : Seen(f, q) = onDisk[q]
  BY <1>13, ClosedIs
<1> HIDE DEF f
<1>15. /\ Pages!State' = f /\ disk' = f.disk /\ lru' = f.lru /\ frame' = f.frame
       /\ lost' = f.lost /\ torn' = f.torn
  BY <1>7, <1>14, Becoming
<1>16. ASSUME NEW p \in Pages!PageIds PROVE Seen(f, p) = Seen(Pages!State, p) \/ p \in failed
  <2>1. CASE p \in dirtied
    <3>1. p \in Pages!Cached(Pages!State)
      BY <1>3, <1>9, <2>1, StateIs DEF CacheOK, Pages!Unused
    <3> QED BY <2>1, <3>1, <1>10, <1>12, <1>14, StateIs DEF Seen
  <2>2. CASE p \notin dirtied
    <3>1. Seen(f, p) = disk[p]
      BY <2>2, <1>8, <1>10, <1>14
    <3>2. p \in Pages!Cached(Pages!State) => disk[p] = frame[p].data
      BY <2>2, <1>3, <1>4, <1>9, StateIs DEF CacheOK
    <3> QED BY <3>1, <3>2, StateIs DEF Seen
  <2> QED BY <2>1, <2>2
<1>17. Shows(Pages!State, f)
  BY <1>13, <1>14, <1>16, StateIs DEF Shows
<1>18. empty' => disk' = [p \in Pages!PageIds |-> Pages!Zeros]
  <2> SUFFICES ASSUME empty' PROVE disk' = [p \in Pages!PageIds |-> Pages!Zeros]
    OBVIOUS
  <2>1. written = {} /\ disk = [p \in Pages!PageIds |-> Pages!Zeros]
    BY <1>7 DEF PagerInv
  <2>2. onDisk = disk
    BY <1>5, <1>10, <1>11, <2>1
  <2> QED BY <2>1, <2>2, <1>14, <1>15
<1>19. ASSUME ~f.torn
       PROVE  /\ HeaderOK(f, owned) /\ Keeps(f, owned, wrote)
              /\ empty' => owned = {}
  <2>1. /\ owned \subseteq Pages!PageIds \ {0} /\ ~torn /\ failed \subseteq owned
        /\ HeaderOK(Pages!State, owned) /\ Keeps(Pages!State, owned, wrote)
    BY <1>1, <1>13, <1>14, <1>19 DEF PagerInv
  <2>2. HeaderOK(f, owned) /\ Keeps(f, owned, wrote)
    BY <1>17, <1>19, <2>1, ListShown
  <2>3. ~empty'
    <3> SUFFICES ASSUME empty' PROVE FALSE
      OBVIOUS
    <3>1. 0 \in Pages!PageIds
      BY PagerConstants DEF Pages!PageIds
    <3>2. onDisk[0] = Pages!Zeros
      BY <1>14, <1>15, <1>18, <3>1
    <3>3. Seen(f, 0)[1] = 0
      BY <1>14, <3>1, <3>2 DEF Pages!Zeros
    <3> QED BY <2>2, <3>3, PagerConstants DEF HeaderOK
  <2> QED BY <2>2, <2>3
<1>20. /\ CacheOK(Pages!State', touched') /\ empty' \in BOOLEAN
       /\ \A q \in Pages!PageIds : held'[q] = 0 /\ frame'[q].pin = 0
       /\ lru' = <<>>
  BY <1>1, <1>4, <1>7, <1>14, <1>15
<1>21. /\ held' \in [Pages!PageIds -> Nat] /\ touched' \subseteq Pages!PageIds
       /\ wrote' \in [Pages!PageIds -> Triples] /\ owned' \subseteq Pages!PageIds \ {0}
  BY <1>1 DEF PagerInv
<1>22. ~torn' => /\ HeaderOK(Pages!State', owned') /\ Keeps(Pages!State', owned', wrote')
                 /\ (empty' => owned' = {})
  BY <1>1, <1>15, <1>19
<1> QED BY <1>1, <1>18, <1>20, <1>21, <1>22 DEF PagerInv

\* The header of a new file.
LEMMA PagerOpened ==
  ASSUME PagerInv, Pages!Open
  PROVE  PagerInv'
<1>1. /\ status = "closed" /\ status' = "open"
      /\ UNCHANGED <<held, touched, owned, wrote>>
  BY DEF Pages!Open
<1>2. /\ lru = <<>> /\ \A p \in Pages!PageIds : held[p] = 0
      /\ CacheOK(Pages!State, touched) /\ empty \in BOOLEAN
      /\ empty => disk = [p \in Pages!PageIds |-> Pages!Zeros]
  BY <1>1 DEF PagerInv
<1>3. touched = {} /\ \A p \in Pages!PageIds : frame[p].pin = 0
  BY <1>1, <1>2, NobodyInside
<1>4. CASE ~empty
  <2>1. UNCHANGED <<disk, empty, lru, frame, lost, torn>>
    BY <1>4 DEF Pages!Open, Pages!file, Pages!cache
  <2>6. Pages!State' = Pages!State
    BY <2>1 DEF Pages!State
  <2>2. /\ ~empty' /\ lru' = <<>>
        /\ \A p \in Pages!PageIds : held'[p] = 0 /\ frame'[p].pin = 0
    BY <1>1, <1>2, <1>3, <1>4, <2>1
  <2>3. CacheOK(Pages!State', touched')
    BY <1>1, <1>2, <2>6
  <2>4. ~torn' => HeaderOK(Pages!State', owned') /\ Keeps(Pages!State', owned', wrote')
    BY <1>1, <1>4, <2>1, <2>6 DEF PagerInv
  <2>5. /\ held' \in [Pages!PageIds -> Nat] /\ touched' \subseteq Pages!PageIds
        /\ wrote' \in [Pages!PageIds -> Triples] /\ owned' \subseteq Pages!PageIds \ {0}
    BY <1>1 DEF PagerInv
  <2>7. empty' \in BOOLEAN
    BY <1>2, <2>1
  <2> QED BY <1>1, <2>2, <2>3, <2>4, <2>5, <2>7 DEF PagerInv
<1>5. CASE empty
  <2> DEFINE x == [Pages!State EXCEPT !.lru = <<0>>, !.frame[0] = Pages!NewHeader]
  <2>1. PICK s \in Pages!Flushes(x, 0) : Pages!Become(s) /\ empty' = s.frame[0].dirty
    BY <1>5 DEF Pages!Open
  <2>2. 0 \in Pages!PageIds /\ Pages!NewHeader \in PageFrames
        /\ Pages!NewHeader.dirty /\ Pages!NewHeader.pin = 0
        /\ Pages!NewHeader.data = <<PAGE_SIZE, 1, -1>>
    BY PagerConstants DEF Pages!PageIds, Pages!NewHeader, PageFrames, Triples
  <2>3. /\ x.disk = disk /\ x.lru = <<0>> /\ x.lost = lost /\ x.torn = torn
        /\ x.frame = [frame EXCEPT ![0] = Pages!NewHeader]
        /\ x = [disk |-> x.disk, lru |-> x.lru, frame |-> x.frame, lost |-> x.lost,
                torn |-> x.torn]
    <3> DEFINE u == Pages!State
               g == [frame EXCEPT ![0] = Pages!NewHeader]
    <3>1. u = [disk |-> disk, lru |-> lru, frame |-> frame, lost |-> lost, torn |-> torn]
      BY DEF Pages!State
    <3>2. x = [u EXCEPT !.lru = <<0>>, !.frame = g]
      BY <3>1
    <3> HIDE DEF x, u, g
    <3>3. x = [disk |-> disk, lru |-> <<0>>, frame |-> g, lost |-> lost, torn |-> torn]
      BY <3>1, <3>2
    <3> QED BY <3>3 DEF g
  <2>4. /\ disk \in [Pages!PageIds -> Triples] /\ frame \in [Pages!PageIds -> PageFrames]
        /\ lost \in SUBSET Pages!PageIds /\ torn \in BOOLEAN
        /\ \A p \in Pages!PageIds : frame[p] = Pages!Unused
    <3>1. Pages!Cached(Pages!State) = {}
      BY <1>2, StateIs DEF Pages!Cached
    <3> QED BY <1>2, <3>1, StateIs DEF CacheOK, PageStates
  <2> HIDE DEF x
  <2>5. x \in PageStates
    BY <2>2, <2>3, <2>4 DEF PageStates
  <2>6. Pages!Cached(x) = {0} /\ Distinct(x.lru) /\ Len(x.lru) = 1
    BY <2>3 DEF Pages!Cached, Distinct
  <2>7. /\ x.frame[0] = Pages!NewHeader
        /\ \A p \in Pages!PageIds \ {0} : x.frame[p] = Pages!Unused
    BY <2>2, <2>3, <2>4
  <2>8. CacheOK(x, {})
    BY <2>2, <2>5, <2>6, <2>7, PagerConstants DEF CacheOK
  <2>9. /\ CacheOK(s, {}) /\ s.lru = x.lru /\ s.lost = x.lost /\ s.torn = x.torn
        /\ \A q \in Pages!PageIds : s.frame[q].pin = x.frame[q].pin
        /\ \A q \in Pages!PageIds : Seen(s, q) = Seen(x, q)
    <3>1. 0 \in Pages!Cached(x)
      BY <2>6
    <3> QED BY <2>1, <2>8, <3>1, FlushKeeps
  <2>10. s \in PageStates
    BY <2>9 DEF CacheOK
  <2>11. /\ Pages!State' = s /\ disk' = s.disk /\ lru' = s.lru /\ frame' = s.frame
         /\ lost' = s.lost /\ torn' = s.torn
    BY <2>1, <2>10, Becoming
  <2>12. /\ empty' \in BOOLEAN
         /\ empty' => disk' = [p \in Pages!PageIds |-> Pages!Zeros]
    <3>1. empty' = s.frame[0].dirty /\ s.frame[0].dirty \in BOOLEAN
      BY <2>1, <2>2, <2>10 DEF PageStates, PageFrames
    <3>2. s = x \/ ~s.frame[0].dirty
      <4>1. x.frame[0].dirty
        BY <2>2, <2>7
      <4>2. s = x \/ s = [x EXCEPT !.disk[0] = x.frame[0].data, !.frame[0].dirty = FALSE]
        BY <2>1, <4>1 DEF Pages!Flushes
      <4>3. [x EXCEPT !.disk[0] = x.frame[0].data, !.frame[0].dirty = FALSE].frame[0].dirty
              = FALSE
        BY <2>2, <2>5 DEF PageStates, PageFrames
      <4> QED BY <4>2, <4>3
    <3> QED BY <3>1, <3>2, <2>3, <2>11, <1>2, <1>5
  <2>13. \A p \in Pages!PageIds : held'[p] = 0 /\ frame'[p].pin = 0
    <3>1. \A p \in Pages!PageIds : x.frame[p].pin = 0
      BY <2>2, <2>7 DEF Pages!Unused
    <3> QED BY <1>1, <1>2, <2>9, <2>11, <3>1
  <2>14. ASSUME ~s.torn
         PROVE  HeaderOK(s, owned) /\ Keeps(s, owned, wrote)
    <3>1. owned = {}
      BY <1>1, <1>5, <2>3, <2>9, <2>14 DEF PagerInv
    <3>2. Seen(s, 0) = <<PAGE_SIZE, 1, -1>>
      BY <2>2, <2>6, <2>7, <2>9 DEF Seen
    <3>3. Members(<<>>) = {} /\ Distinct(<<>>) /\ <<>> \in Seq(Pages!PageIds)
      BY DEF Members, Distinct
    <3>4. Chained(s, {}, <<>>)
      BY <3>2, <3>3 DEF Chained
    <3>5. HeaderOK(s, {})
      BY <3>2, <3>4, PagerConstants DEF HeaderOK
    <3> QED BY <3>1, <3>5 DEF Keeps
  <2>15. /\ held' \in [Pages!PageIds -> Nat] /\ touched' = {}
         /\ wrote' \in [Pages!PageIds -> Triples] /\ owned' \subseteq Pages!PageIds \ {0}
    BY <1>1, <1>3 DEF PagerInv
  <2>16. CacheOK(Pages!State', touched')
    BY <2>9, <2>11, <2>15
  <2>17. ~torn' => HeaderOK(Pages!State', owned') /\ Keeps(Pages!State', owned', wrote')
    BY <1>1, <2>11, <2>14
  <2> QED BY <1>1, <2>12, <2>13, <2>15, <2>16, <2>17 DEF PagerInv
<1> QED BY <1>2, <1>4, <1>5

LEMMA PagerInitially == Pages!Init => PagerInv
<1> SUFFICES ASSUME Pages!Init PROVE PagerInv
  OBVIOUS
<1>1. /\ disk = [p \in Pages!PageIds |-> Pages!Zeros] /\ empty = TRUE
      /\ lru = <<>> /\ frame = [p \in Pages!PageIds |-> Pages!Unused]
      /\ status = "closed" /\ held = [p \in Pages!PageIds |-> 0] /\ touched = {}
      /\ owned = {} /\ wrote = [p \in Pages!PageIds |-> Pages!Zeros]
      /\ lost = {} /\ torn = FALSE
  BY DEF Pages!Init
<1>2. Pages!State \in PageStates
  <2>1. lru \in Seq(Pages!PageIds)
    BY <1>1
  <2> QED BY <1>1, <2>1, PagerConstants DEF Pages!State, PageStates
<1>3. Pages!Cached(Pages!State) = {} /\ Distinct(lru) /\ Len(lru) = 0
  BY <1>1, StateIs DEF Pages!Cached, Distinct
<1>4. CacheOK(Pages!State, touched)
  BY <1>1, <1>2, <1>3, StateIs, PagerConstants DEF CacheOK
<1>5. \A p \in Pages!PageIds : held[p] = 0 /\ frame[p].pin = 0
  BY <1>1 DEF Pages!Unused
<1>6. held \in [Pages!PageIds -> Nat] /\ wrote \in [Pages!PageIds -> Triples]
  BY <1>1, PagerConstants
<1>7. Keeps(Pages!State, owned, wrote)
  BY <1>1 DEF Keeps
<1> QED BY <1>1, <1>4, <1>5, <1>6, <1>7 DEF PagerInv

LEMMA PagerInductive ==
  ASSUME PagerInv, Pages!Next \/ UNCHANGED page_vars
  PROVE  PagerInv'
<1>1. CASE Pages!Next
  BY <1>1, PagerOpened, PagerClosed, PagerDestroyed, PagerUsed DEF Pages!Next
<1>2. CASE UNCHANGED page_vars
  <2>1. UNCHANGED <<disk, empty, lru, frame, status, held, touched, owned, wrote, lost, torn>>
    BY <1>2 DEF page_vars
  <2>2. Pages!State' = Pages!State
    BY <2>1 DEF Pages!State
  <2> QED BY <2>1, <2>2 DEF PagerInv
<1> QED BY <1>1, <1>2

\* CacheSound: what is cached is as many pages as the list is long, and every pinned
\* page is among them.
LEMMA CacheFollows == PagerInv => Pages!CacheSound
<1> SUFFICES ASSUME PagerInv PROVE Pages!CacheSound
  OBVIOUS
<1>1. /\ CacheOK(Pages!State, touched)
      /\ \A p \in Pages!PageIds :
           held[p] \in Nat /\ held[p] <= frame[p].pin
             /\ (status # "segv" => held[p] = frame[p].pin)
      /\ status = "segv" /\ Len(lru) = CACHE_CAPACITY =>
           Cardinality({p \in Pages!PageIds : held[p] > 0}) >= CACHE_CAPACITY - 1
  BY DEF PagerInv
<1>2. /\ lru \in Seq(Pages!PageIds) /\ Len(lru) <= CACHE_CAPACITY /\ Distinct(lru)
      /\ \A p \in Pages!PageIds :
           p \notin Pages!Cached(Pages!State) => frame[p] = Pages!Unused
  BY <1>1, StateIs DEF CacheOK, PageStates
<1>3. Cardinality(Pages!Cached(Pages!State)) = Len(lru)
  BY <1>2, StateIs, CachedIs, DistinctCount
<1>4. \A p \in Pages!PageIds : held[p] > 0 => p \in Pages!Cached(Pages!State)
  BY <1>1, <1>2 DEF Pages!Unused
<1>5. \A S : Pages!Cardinality(S) = Cardinality(S)
  BY DEF Pages!Cardinality, Cardinality
<1> QED BY <1>1, <1>2, <1>3, <1>4, <1>5 DEF Pages!CacheSound

LEMMA UpdatesFollow == PagerInv => Pages!NoLostUpdate
<1> SUFFICES ASSUME PagerInv, ~torn, NEW p \in owned \ lost PROVE Pages!View(p) = wrote[p]
  BY DEF Pages!NoLostUpdate
<1>1. Seen(Pages!State, p) = wrote[p]
  BY StateIs DEF PagerInv, Keeps
<1> QED BY <1>1, StateIs DEF Seen, Pages!View

\* FreeListSound: followed from the header through the first word of every free page, the
\* list is the one that PagerInv says there is, by induction on the steps of the walk.
LEMMA FreeListFollows == PagerInv => Pages!FreeListSound
<1> DEFINE front == Pages!View(0)
           walk[n \in 0 .. LastPage + 1] ==
             IF n = 0 THEN front[3]
             ELSE IF walk[n - 1] \in Pages!PageIds THEN Pages!View(walk[n - 1])[1] ELSE -1
           free == 1 .. front[2] - 1 \ owned
<1>1. ASSUME PagerInv, ~empty, ~torn
      PROVE  /\ front[1] = PAGE_SIZE /\ owned \subseteq 1 .. front[2] - 1
             /\ {walk[n] : n \in 0 .. LastPage + 1} = free \cup {-1}
             /\ walk[Cardinality(free)] = -1
  <2>1. HeaderOK(Pages!State, owned)
    BY <1>1 DEF PagerInv
  <2>2. \A p : Pages!View(p) = Seen(Pages!State, p)
    BY StateIs DEF Pages!View, Seen
  <2>3. PICK w : Chained(Pages!State, owned, w)
    BY <2>1 DEF HeaderOK
  <2> DEFINE N == LastPage + 1
             f == [n \in 0 .. N |-> IF n < Len(w) THEN w[n + 1] ELSE -1]
             next_(q) == IF q \in Pages!PageIds THEN Pages!View(q)[1] ELSE -1
  <2>4. N \in Nat /\ Pages!PageIds \subseteq Nat
    BY PagerConstants DEF Pages!PageIds
  <2>5. /\ w \in Seq(Pages!PageIds) /\ Len(w) \in Nat /\ Distinct(w) /\ Members(w) = free
        /\ front[3] = (IF w = <<>> THEN -1 ELSE w[1])
        /\ \A i \in DOMAIN w : Pages!View(w[i])[1] = (IF i < Len(w) THEN w[i + 1] ELSE -1)
        /\ front[1] = PAGE_SIZE /\ front[2] \in 1 .. N /\ owned \subseteq 1 .. front[2] - 1
    BY <2>1, <2>2, <2>3 DEF Chained, HeaderOK
  <2>6. Cardinality(free) = Len(w)
    BY <2>5, DistinctCount
  <2>7. Len(w) < N
    <3>1. front[2] - 1 \in Nat /\ front[2] - 1 < N
      BY <2>4, <2>5
    <3> HIDE DEF front
    <3>2. IsFiniteSet(1 .. front[2] - 1) /\ Cardinality(1 .. front[2] - 1) = front[2] - 1
      BY <3>1, FS_Interval
    <3>3. Cardinality(free) <= Cardinality(1 .. front[2] - 1)
      BY <3>2, FS_Subset
    <3> QED BY <3>1, <3>2, <3>3, <2>4, <2>5, <2>6
  <2> HIDE DEF free, front, N
  <2>8. f[0] = front[3] /\ \A n \in 1 .. N : f[n] = next_(f[n - 1])
    <3>1. f[0] = front[3]
      BY <2>4, <2>5
    <3>2. ASSUME NEW n \in 1 .. N PROVE f[n] = next_(f[n - 1])
      <4>1. CASE n - 1 < Len(w)
        <5>1. f[n - 1] = w[n] /\ n \in DOMAIN w /\ w[n] \in Pages!PageIds
          BY <4>1, <2>4, <2>5
        <5> QED BY <5>1, <2>4, <2>5
      <4>2. CASE ~(n - 1 < Len(w))
        <5>1. f[n - 1] = -1 /\ f[n] = -1 /\ -1 \notin Pages!PageIds
          BY <4>2, <2>4, <2>5
        <5> QED BY <5>1
      <4> QED BY <4>1, <4>2
    <3> QED BY <3>1, <3>2
  <2>9. f = [n \in 0 .. N |-> IF n = 0 THEN front[3] ELSE next_(f[n - 1])]
    <3> DEFINE g == [n \in 0 .. N |-> IF n = 0 THEN front[3] ELSE next_(f[n - 1])]
    <3>1. \A n \in 0 .. N : f[n] = g[n]
      <4> HIDE DEF f, next_
      <4> QED BY <2>4, <2>8
    <3> HIDE DEF next_
    <3> QED BY <3>1
  <2>10. walk = [n \in 0 .. N |-> IF n = 0 THEN front[3] ELSE next_(walk[n - 1])]
    <3> HIDE DEF f
    <3> QED BY <2>9 DEF N
  <2> HIDE DEF walk
  <2>11. walk[0] = front[3] /\ \A n \in 1 .. N : walk[n] = next_(walk[n - 1])
    BY <2>4, <2>10
  <2> HIDE DEF f, next_
  <2> DEFINE S == {n \in Nat : n <= N => walk[n] = f[n]}
  <2>12. S = Nat
    <3>1. S \in SUBSET Nat /\ 0 \in S
      BY <2>4, <2>8, <2>11
    <3>2. ASSUME NEW n \in S PROVE n + 1 \in S
      <4>1. CASE n + 1 <= N
        <5>1. n + 1 \in 1 .. N /\ (n + 1) - 1 = n /\ walk[n] = f[n]
          BY <4>1, <2>4
        <5> QED BY <5>1, <2>8, <2>11
      <4> QED BY <4>1
    <3> HIDE DEF S
    <3> QED BY <3>1, <3>2, Induction
  <2>13. \A n \in 0 .. N : walk[n] = f[n]
    <3>1. \A n \in Nat : n <= N => walk[n] = f[n]
      BY <2>12
    <3> QED BY <3>1, <2>4
  <2>14. \A n \in 0 .. N : walk[n] = IF n < Len(w) THEN w[n + 1] ELSE -1
    BY <2>13 DEF f
  <2>15. {walk[n] : n \in 0 .. N} = free \cup {-1}
    <3>1. ASSUME NEW n \in 0 .. N PROVE walk[n] \in Members(w) \cup {-1}
      <4>1. n < Len(w) => n + 1 \in DOMAIN w
        BY <2>4, <2>5
      <4> QED BY <4>1, <2>14 DEF Members
    <3>2. ASSUME NEW i \in DOMAIN w PROVE \E n \in 0 .. N : walk[n] = w[i]
      <4>1. i - 1 \in 0 .. N /\ i - 1 < Len(w) /\ (i - 1) + 1 = i
        BY <2>4, <2>5, <2>7
      <4> QED BY <4>1, <2>14
    <3>3. N \in 0 .. N /\ walk[N] = -1
      BY <2>4, <2>5, <2>7, <2>14
    <3>4. \A x \in Members(w) : \E n \in 0 .. N : walk[n] = x
      BY <3>2 DEF Members
    <3> QED BY <3>1, <3>3, <3>4, <2>5
  <2>16. walk[Cardinality(free)] = -1
    BY <2>4, <2>5, <2>6, <2>7, <2>14
  <2> QED BY <2>5, <2>15, <2>16 DEF N
<1>2. \A T : Pages!Cardinality(T) = Cardinality(T)
  BY DEF Pages!Cardinality, Cardinality
<1>3. SUFFICES ASSUME PagerInv, ~empty, ~torn
               PROVE  /\ front[1] = PAGE_SIZE /\ owned \subseteq 1 .. front[2] - 1
                      /\ {walk[n] : n \in 0 .. LastPage + 1} = free \cup {-1}
                      /\ walk[Pages!Cardinality(free)] = -1
  BY DEF Pages!FreeListSound
<1> HIDE DEF front, walk, free
<1> QED BY <1>1, <1>2, <1>3

-----------------------------------------------------------------------------
(* Lists that run through the slots they list *)

\* From head on, nx leads through w and then to end.
Links(nx, end, head, w) ==
  /\ head = IF w = <<>> THEN end ELSE w[1]
  /\ \A i \in DOMAIN w : nx[w[i]] = IF i < Len(w) THEN w[i + 1] ELSE end

LEMMA TailIs ==
  ASSUME NEW S, NEW w \in Seq(S), Distinct(w), w # <<>>
  PROVE  /\ Tail(w) \in Seq(S) /\ Distinct(Tail(w)) /\ Len(Tail(w)) = Len(w) - 1
         /\ Members(Tail(w)) = Members(w) \ {w[1]} /\ w[1] \in S /\ w[1] \in Members(w)
         /\ \A i \in DOMAIN Tail(w) : i + 1 \in DOMAIN w /\ Tail(w)[i] = w[i + 1]
<1> DEFINE m == Tail(w)
<1>1. Len(w) \in Nat \ {0} /\ 1 \in DOMAIN w
  OBVIOUS
<1>2. /\ m \in Seq(S) /\ Len(m) = Len(w) - 1
      /\ \A i \in DOMAIN m : i + 1 \in DOMAIN w /\ m[i] = w[i + 1]
  BY <1>1
<1> HIDE DEF m
<1>3. Distinct(m)
  BY <1>1, <1>2 DEF Distinct
<1>4. Members(m) = Members(w) \ {w[1]}
  <2>1. ASSUME NEW i \in DOMAIN m PROVE m[i] \in Members(w) \ {w[1]}
    <3>1. i + 1 \in DOMAIN w /\ m[i] = w[i + 1] /\ i + 1 # 1
      BY <1>1, <1>2
    <3> QED BY <3>1, <1>1 DEF Distinct, Members
  <2>2. ASSUME NEW i \in DOMAIN w, w[i] # w[1] PROVE w[i] \in Members(m)
    <3>1. i - 1 \in DOMAIN m /\ (i - 1) + 1 = i
      BY <1>1, <1>2, <2>2
    <3> QED BY <3>1, <1>2 DEF Members
  <2> QED BY <2>1, <2>2 DEF Members
<1>5. w[1] \in S /\ w[1] \in Members(w)
  BY <1>1 DEF Members
<1> QED BY <1>2, <1>3, <1>4, <1>5 DEF m

LEMMA LinksKept ==
  ASSUME NEW w, NEW end, NEW head, NEW nx, Links(nx, end, head, w),
         NEW my, \A x \in Members(w) : my[x] = nx[x]
  PROVE  Links(my, end, head, w)
<1>1. \A i \in DOMAIN w : w[i] \in Members(w)
  BY DEF Members
<1> QED BY <1>1 DEF Links

\* The first slot is taken off the list.
LEMMA Popped ==
  ASSUME NEW S, NEW w \in Seq(S), Distinct(w), w # <<>>,
         NEW end, NEW head, NEW nx, Links(nx, end, head, w),
         NEW my, \A x \in Members(w) \ {w[1]} : my[x] = nx[x]
  PROVE  head = w[1] /\ Links(my, end, nx[head], Tail(w))
<1> DEFINE m == Tail(w)
<1>1. /\ m \in Seq(S) /\ Len(m) = Len(w) - 1 /\ Members(m) = Members(w) \ {w[1]}
      /\ \A i \in DOMAIN m : i + 1 \in DOMAIN w /\ m[i] = w[i + 1]
  BY TailIs
<1>2. Len(w) \in Nat \ {0} /\ 1 \in DOMAIN w /\ head = w[1]
  BY DEF Links
<1> HIDE DEF m
<1>3. nx[head] = IF m = <<>> THEN end ELSE m[1]
  <2>1. CASE m = <<>>
    <3>1. Len(m) = 0
      BY <2>1
    <3>2. Len(w) = 1
      BY <3>1, <1>1, <1>2
    <3> QED BY <3>2, <2>1, <1>2 DEF Links
  <2>2. CASE m # <<>>
    <3>1. 1 \in DOMAIN m /\ 1 < Len(w)
      BY <2>2, <1>1, <1>2
    <3> QED BY <3>1, <2>2, <1>1, <1>2 DEF Links
  <2> QED BY <2>1, <2>2
<1>4. ASSUME NEW i \in DOMAIN m PROVE my[m[i]] = IF i < Len(m) THEN m[i + 1] ELSE end
  <2>1. my[m[i]] = nx[w[i + 1]]
    <3>1. m[i] \in Members(m)
      BY DEF Members
    <3> QED BY <3>1, <1>1
  <2>2. nx[w[i + 1]] = IF i + 1 < Len(w) THEN w[(i + 1) + 1] ELSE end
    BY <1>1 DEF Links
  <2>3. i < Len(m) => i + 1 \in DOMAIN m /\ i + 1 < Len(w)
    BY <1>1, <1>2
  <2> QED BY <2>1, <2>2, <2>3, <1>1, <1>2
<1> QED BY <1>2, <1>3, <1>4 DEF Links, m

\* A slot is put in front of the list.
LEMMA Pushed ==
  ASSUME NEW S, NEW w \in Seq(S), NEW p \in S,
         NEW end, NEW head, NEW nx, Links(nx, end, head, w),
         NEW my, my[p] = head, \A x \in Members(w) : my[x] = nx[x]
  PROVE  Links(my, end, p, <<p>> \o w)
<1> DEFINE m == <<p>> \o w
<1>1. Len(w) \in Nat /\ m \in Seq(S) /\ Len(m) = Len(w) + 1
  OBVIOUS
<1>2. m[1] = p /\ \A i \in DOMAIN w : i + 1 \in DOMAIN m /\ m[i + 1] = w[i]
  OBVIOUS
<1> HIDE DEF m
<1>3. m # <<>> /\ 1 \in DOMAIN m
  BY <1>1
<1>4. ASSUME NEW i \in DOMAIN m PROVE my[m[i]] = IF i < Len(m) THEN m[i + 1] ELSE end
  <2>1. CASE i = 1
    <3>1. my[m[i]] = IF w = <<>> THEN end ELSE w[1]
      BY <2>1, <1>2 DEF Links
    <3>2. CASE w = <<>>
      BY <3>1, <3>2, <2>1, <1>1
    <3>3. CASE w # <<>>
      <4>1. 1 \in DOMAIN w
        BY <3>3, <1>1
      <4>2. m[1 + 1] = w[1] /\ 1 < Len(m)
        BY <4>1, <1>1, <1>2
      <4> QED BY <3>1, <3>3, <2>1, <4>2
    <3> QED BY <3>2, <3>3
  <2>2. CASE i # 1
    <3>1. i - 1 \in DOMAIN w /\ (i - 1) + 1 = i
      BY <2>2, <1>1
    <3>2. m[i] = w[i - 1] /\ w[i - 1] \in Members(w)
      BY <3>1, <1>2 DEF Members
    <3>3. my[m[i]] = nx[w[i - 1]]
      BY <3>2
    <3>4. nx[w[i - 1]] = IF i - 1 < Len(w) THEN w[(i - 1) + 1] ELSE end
      BY <3>1 DEF Links
    <3>5. CASE i - 1 < Len(w)
      <4>1. i \in DOMAIN w /\ i < Len(m)
        BY <3>1, <3>5, <1>1
      <4> QED BY <3>1, <3>3, <3>4, <3>5, <4>1, <1>2
    <3>6. CASE ~(i - 1 < Len(w))
      <4>1. ~(i < Len(m))
        BY <3>1, <3>6, <1>1
      <4> QED BY <3>3, <3>4, <3>6, <4>1
    <3> QED BY <3>5, <3>6
  <2> QED BY <2>1, <2>2
<1> QED BY <1>2, <1>3, <1>4 DEF Links, m

LEMMA UpTo ==
  ASSUME NEW N \in Nat, NEW T \in SUBSET (0 .. N), 0 \in T,
         \A n \in T : n < N => n + 1 \in T
  PROVE  T = 0 .. N
<1> DEFINE S == {n \in Nat : n <= N => n \in T}
<1>1. S \in SUBSET Nat /\ 0 \in S
  OBVIOUS
<1>2. ASSUME NEW n \in S PROVE n + 1 \in S
  BY <1>2
<1>3. S = Nat
  <2> HIDE DEF S
  <2> QED BY <1>1, <1>2, Induction
<1>4. \A n \in Nat : n <= N => n \in T
  BY <1>3
<1>5. \A n \in 0 .. N : n \in Nat /\ n <= N
  OBVIOUS
<1> HIDE DEF S
<1>6. 0 .. N \subseteq T
  BY <1>4, <1>5
<1> QED BY <1>6

\* A walk of N steps that follows w, and what it finds.
Follows(walk, N, w, end) == \A n \in 0 .. N : walk[n] = IF n < Len(w) THEN w[n + 1] ELSE end

LEMMA WalkFinds ==
  ASSUME NEW S, NEW w \in Seq(S), NEW N \in Nat, Len(w) <= N, NEW end,
         NEW walk, Follows(walk, N, w, end)
  PROVE  /\ \A n \in 0 .. N : walk[n] \in Members(w) \cup {end}
         /\ \A x \in Members(w) \cup {end} : \E n \in 0 .. N : walk[n] = x
         /\ walk[Len(w)] = end
<1>1. Len(w) \in 0 .. N
  OBVIOUS
<1>2. ASSUME NEW n \in 0 .. N PROVE walk[n] \in Members(w) \cup {end}
  <2>1. n < Len(w) => n + 1 \in DOMAIN w
    BY <1>1
  <2> QED BY <2>1 DEF Members, Follows
<1>3. ASSUME NEW i \in DOMAIN w PROVE \E n \in 0 .. N : walk[n] = w[i]
  <2>1. i - 1 \in 0 .. N /\ i - 1 < Len(w) /\ (i - 1) + 1 = i
    BY <1>1
  <2> QED BY <2>1 DEF Follows
<1>4. walk[Len(w)] = end
  BY <1>1 DEF Follows
<1>5. \A x \in Members(w) : \E n \in 0 .. N : walk[n] = x
  BY <1>3 DEF Members
<1> QED BY <1>1, <1>2, <1>4, <1>5

-----------------------------------------------------------------------------
(* Day 23: the object pool *)

\* The slots nobody holds form one list from freelist on.
EntityInv ==
  /\ next \in [Lists!Slots -> Lists!Slots \cup {Lists!NULL}]
  /\ in_use \in [Lists!Slots -> BOOLEAN]
  /\ freelist \in Lists!Slots \cup {Lists!NULL}
  /\ entities = {s \in Lists!Slots : in_use[s]}
  /\ \E w \in Seq(Lists!Slots) :
       /\ Distinct(w) /\ Members(w) = Lists!Slots \ entities
       /\ Links(next, Lists!NULL, freelist, w)

LEMMA SlotsAre ==
  /\ NUM_ALLOCATION \in Nat \ {0} /\ Lists!Slots = 1 .. NUM_ALLOCATION /\ Lists!NULL = 0
  /\ Lists!NULL \notin Lists!Slots /\ 1 \in Lists!Slots
BY PoolsAligned DEF Lists!FreeListsAssumption, Lists!Slots, Lists!NULL

\* The list that main builds, and reset builds again.
LEMMA AllLinked ==
  /\ Lists!Linked \in [Lists!Slots -> Lists!Slots \cup {Lists!NULL}]
  /\ \E w \in Seq(Lists!Slots) :
       Distinct(w) /\ Members(w) = Lists!Slots /\ Links(Lists!Linked, Lists!NULL, 1, w)
<1> DEFINE w == [i \in 1 .. NUM_ALLOCATION |-> i]
<1>1. w \in Seq(Lists!Slots) /\ Len(w) = NUM_ALLOCATION /\ DOMAIN w = 1 .. NUM_ALLOCATION
  BY SlotsAre
<1>2. \A i \in 1 .. NUM_ALLOCATION : w[i] = i
  OBVIOUS
<1> HIDE DEF w
<1>3. Distinct(w) /\ Members(w) = Lists!Slots
  BY <1>1, <1>2, SlotsAre DEF Distinct, Members
<1>4. /\ Lists!Linked \in [Lists!Slots -> Lists!Slots \cup {Lists!NULL}]
      /\ \A s \in Lists!Slots :
           Lists!Linked[s] = IF s = NUM_ALLOCATION THEN Lists!NULL ELSE s + 1
  BY SlotsAre DEF Lists!Linked
<1>5. Links(Lists!Linked, Lists!NULL, 1, w)
  <2>1. w # <<>> /\ w[1] = 1
    BY <1>1, <1>2, SlotsAre
  <2>2. ASSUME NEW i \in DOMAIN w
        PROVE  Lists!Linked[w[i]] = IF i < Len(w) THEN w[i + 1] ELSE Lists!NULL
    BY <1>1, <1>2, <1>4, SlotsAre
  <2> QED BY <2>1, <2>2 DEF Links
<1> QED BY <1>1, <1>3, <1>4, <1>5

LEMMA EntityInitially == Lists!PoolInit => EntityInv
<1> SUFFICES ASSUME Lists!PoolInit PROVE EntityInv
  OBVIOUS
<1>1. /\ next = Lists!Linked /\ in_use = [s \in Lists!Slots |-> FALSE] /\ freelist = 1
      /\ entities = {}
  BY DEF Lists!PoolInit
<1>2. Lists!Slots \ entities = Lists!Slots /\ entities = {s \in Lists!Slots : in_use[s]}
  BY <1>1
<1> QED BY <1>1, <1>2, AllLinked, SlotsAre DEF EntityInv

LEMMA EntityInductive ==
  ASSUME EntityInv, Lists!PoolNext \/ UNCHANGED entity_vars
  PROVE  EntityInv'
<1>1. CASE Lists!Reset
  <2>1. /\ next' = Lists!Linked /\ in_use' = [s \in Lists!Slots |-> FALSE]
        /\ freelist' = 1 /\ entities' = {}
    BY <1>1 DEF Lists!Reset
  <2>2. Lists!Slots \ entities' = Lists!Slots /\ entities' = {s \in Lists!Slots : in_use'[s]}
    BY <2>1
  <2> QED BY <2>1, <2>2, AllLinked, SlotsAre DEF EntityInv
<1>2. CASE UNCHANGED entity_vars
  BY <1>2 DEF entity_vars, EntityInv
<1>3. PICK w \in Seq(Lists!Slots) :
        /\ Distinct(w) /\ Members(w) = Lists!Slots \ entities
        /\ Links(next, Lists!NULL, freelist, w)
  BY DEF EntityInv
<1>4. CASE Lists!Alloc
  <2>1. PICK x \in Lists!Slots \cup {Lists!NULL} : next' = [next EXCEPT ![freelist] = x]
    BY <1>4 DEF Lists!Alloc
  <2>2. /\ freelist # Lists!NULL /\ freelist' = next[freelist]
        /\ in_use' = [in_use EXCEPT ![freelist] = TRUE] /\ entities' = entities \cup {freelist}
    BY <1>4 DEF Lists!Alloc
  <2>3. freelist \in Lists!Slots /\ w # <<>>
    BY <2>2, <1>3 DEF EntityInv, Links
  <2> DEFINE m == Tail(w)
  <2>4. /\ m \in Seq(Lists!Slots) /\ Distinct(m) /\ Members(m) = Members(w) \ {w[1]}
        /\ w[1] = freelist
    BY <1>3, <2>3, TailIs DEF Links
  <2>5. \A s \in Members(w) \ {w[1]} : next'[s] = next[s]
    BY <1>3, <2>1, <2>4 DEF EntityInv
  <2>6. Links(next', Lists!NULL, freelist', m)
    <3> DEFINE my == next'
    <3> HIDE DEF my
    <3>1. Links(my, Lists!NULL, next[freelist], m)
      BY <1>3, <2>3, <2>5, Popped DEF my
    <3> QED BY <3>1, <2>2 DEF my
  <2> HIDE DEF m
  <2>7. Members(m) = Lists!Slots \ entities'
    BY <1>3, <2>2, <2>4
  <2>8. /\ next' \in [Lists!Slots -> Lists!Slots \cup {Lists!NULL}]
        /\ in_use' \in [Lists!Slots -> BOOLEAN]
        /\ freelist' \in Lists!Slots \cup {Lists!NULL}
        /\ entities' = {s \in Lists!Slots : in_use'[s]}
    BY <2>1, <2>2, <2>3 DEF EntityInv
  <2> QED BY <2>4, <2>6, <2>7, <2>8 DEF EntityInv
<1>5. ASSUME NEW p \in Lists!Slots, Lists!Free(p) PROVE EntityInv'
  <2>1. CASE ~in_use[p]
    BY <1>5, <2>1 DEF Lists!Free, Lists!pool_vars, EntityInv
  <2>2. CASE in_use[p]
    <3>1. /\ in_use' = [in_use EXCEPT ![p] = FALSE] /\ next' = [next EXCEPT ![p] = freelist]
          /\ freelist' = p /\ entities' = entities \ {p}
      BY <1>5, <2>2 DEF Lists!Free
    <3> DEFINE m == <<p>> \o w
    <3>2. p \in entities /\ p \notin Members(w)
      BY <1>3, <2>2 DEF EntityInv
    <3>3. m \in Seq(Lists!Slots) /\ Distinct(m) /\ Members(m) = Members(w) \cup {p}
      BY <1>3, <3>2, InFront
    <3>4. Links(next', Lists!NULL, freelist', m)
      <4> DEFINE my == next'
      <4>1. my[p] = freelist /\ \A x \in Members(w) : my[x] = next[x]
        BY <1>3, <3>1, <3>2 DEF EntityInv
      <4> HIDE DEF my
      <4>2. Links(my, Lists!NULL, p, m)
        BY <1>3, <4>1, Pushed
      <4> QED BY <4>2, <3>1 DEF my
    <3> HIDE DEF m
    <3>5. Members(m) = Lists!Slots \ entities'
      BY <1>3, <3>1, <3>3
    <3>6. /\ next' \in [Lists!Slots -> Lists!Slots \cup {Lists!NULL}]
          /\ in_use' \in [Lists!Slots -> BOOLEAN]
          /\ freelist' \in Lists!Slots \cup {Lists!NULL}
          /\ entities' = {s \in Lists!Slots : in_use'[s]}
      BY <3>1, SlotsAre DEF EntityInv
    <3> QED BY <3>3, <3>4, <3>5, <3>6 DEF EntityInv
  <2> QED BY <2>1, <2>2
<1> QED BY <1>1, <1>2, <1>4, <1>5 DEF Lists!PoolNext

\* FreeListIsTheRest: followed from freelist, the list is the one that EntityInv says
\* there is.
LEMMA RestFollows == EntityInv => Lists!FreeListIsTheRest
<1> DEFINE N == NUM_ALLOCATION
           at[i \in 0 .. N] ==
             IF i = 0 THEN freelist
             ELSE LET s == at[i - 1] IN IF s = Lists!NULL THEN Lists!NULL ELSE next[s]
           free == {s \in Lists!Slots : ~in_use[s]}
<1>1. ASSUME EntityInv
      PROVE  /\ entities = Lists!Slots \ free
             /\ {at[i] : i \in 0 .. N} = free \cup {Lists!NULL}
             /\ at[Cardinality(free)] = Lists!NULL
  <2>1. entities = Lists!Slots \ free /\ free = Lists!Slots \ entities
    BY <1>1 DEF EntityInv
  <2> HIDE DEF free
  <2>2. PICK w \in Seq(Lists!Slots) :
          Distinct(w) /\ Members(w) = free /\ Links(next, Lists!NULL, freelist, w)
    BY <1>1, <2>1 DEF EntityInv
  <2>3. Len(w) = Cardinality(free) /\ Len(w) \in Nat
    BY <2>2, DistinctCount
  <2>4. Len(w) <= N /\ N \in Nat
    <3>1. free \subseteq 1 .. NUM_ALLOCATION
      BY <2>1, SlotsAre
    <3>2. IsFiniteSet(1 .. NUM_ALLOCATION) /\ Cardinality(1 .. NUM_ALLOCATION) = NUM_ALLOCATION
      BY SlotsAre, FS_Interval
    <3>3. Cardinality(free) <= NUM_ALLOCATION
      BY <3>1, <3>2, FS_Subset
    <3> QED BY <3>3, <2>3, SlotsAre
  <2> HIDE DEF N
  <2> DEFINE f == [i \in 0 .. N |-> IF i < Len(w) THEN w[i + 1] ELSE Lists!NULL]
             after(s) == IF s = Lists!NULL THEN Lists!NULL ELSE next[s]
  <2>5. f[0] = freelist /\ \A i \in 1 .. N : f[i] = after(f[i - 1])
    <3>1. f[0] = freelist
      <4>1. 0 < Len(w) <=> w # <<>>
        OBVIOUS
      <4> QED BY <4>1, <2>2, <2>4 DEF Links
    <3>2. ASSUME NEW i \in 1 .. N PROVE f[i] = after(f[i - 1])
      <4>1. CASE i - 1 < Len(w)
        <5>1. f[i - 1] = w[i] /\ i \in DOMAIN w /\ w[i] \in Lists!Slots
          BY <4>1, <2>3, <2>4
        <5>2. next[w[i]] = IF i < Len(w) THEN w[i + 1] ELSE Lists!NULL
          BY <5>1, <2>2 DEF Links
        <5>3. w[i] # Lists!NULL
          BY <5>1, SlotsAre
        <5> QED BY <5>1, <5>2, <5>3, <2>4
      <4>2. CASE ~(i - 1 < Len(w))
        BY <4>2, <2>3, <2>4
      <4> QED BY <4>1, <4>2
    <3> QED BY <3>1, <3>2
  <2>6. f = [i \in 0 .. N |-> IF i = 0 THEN freelist
                            ELSE LET s == f[i - 1] IN IF s = Lists!NULL THEN Lists!NULL ELSE next[s]]
    <3> DEFINE g == [i \in 0 .. N |-> IF i = 0 THEN freelist ELSE after(f[i - 1])]
    <3>1. \A i \in 0 .. N : f[i] = g[i]
      <4> HIDE DEF f, after
      <4> QED BY <2>4, <2>5
    <3>2. f = g
      <4> HIDE DEF after
      <4> QED BY <3>1
    <3> HIDE DEF f
    <3> QED BY <3>2
  <2>7. at = [i \in 0 .. N |-> IF i = 0 THEN freelist
                            ELSE LET s == at[i - 1] IN IF s = Lists!NULL THEN Lists!NULL ELSE next[s]]
    <3> HIDE DEF f
    <3> QED BY <2>6 DEF N
  <2> HIDE DEF at
  <2>8. at[0] = freelist /\ \A i \in 1 .. N : at[i] = after(at[i - 1])
    BY <2>4, <2>7
  <2> HIDE DEF f, after
  <2> DEFINE T == {i \in 0 .. N : at[i] = f[i]}
  <2>9. T = 0 .. N
    <3>1. T \in SUBSET (0 .. N) /\ 0 \in T
      BY <2>4, <2>5, <2>8
    <3>2. ASSUME NEW i \in T, i < N PROVE i + 1 \in T
      <4>1. i + 1 \in 1 .. N /\ (i + 1) - 1 = i /\ at[i] = f[i]
        BY <3>2, <2>4
      <4> QED BY <4>1, <2>5, <2>8
    <3> HIDE DEF T
    <3> QED BY <3>1, <3>2, <2>4, UpTo
  <2>10. Follows(at, N, w, Lists!NULL)
    BY <2>9 DEF f, Follows
  <2>11. {at[i] : i \in 0 .. N} = Members(w) \cup {Lists!NULL} /\ at[Len(w)] = Lists!NULL
    <3> HIDE DEF T
    <3>1. w \in Seq(Lists!Slots) /\ N \in Nat /\ Len(w) <= N
      BY <2>4
    <3>2. /\ \A i \in 0 .. N : at[i] \in Members(w) \cup {Lists!NULL}
          /\ \A x \in Members(w) \cup {Lists!NULL} : \E i \in 0 .. N : at[i] = x
          /\ at[Len(w)] = Lists!NULL
      BY <3>1, <2>10, WalkFinds
    <3> QED BY <3>2
  <2> QED BY <2>1, <2>2, <2>3, <2>11
<1>2. \A T : Lists!Cardinality(T) = Cardinality(T)
  BY DEF Lists!Cardinality, Cardinality
<1>3. SUFFICES ASSUME EntityInv
               PROVE  /\ entities = Lists!Slots \ free
                      /\ {at[i] : i \in 0 .. N} = free \cup {Lists!NULL}
                      /\ at[Lists!Cardinality(free)] = Lists!NULL
  BY DEF Lists!FreeListIsTheRest
<1> HIDE DEF at, free, N
<1> QED BY <1>1, <1>2, <1>3

-----------------------------------------------------------------------------
(* Day 23: the first-fit allocator *)

\* Headers and sizes are whole multiples of the alignment.
Grains == {i * ALIGNMENT : i \in Nat}

LEMMA GrainsAre ==
  /\ ALIGNMENT \in Nat \ {0} /\ FIT_HEADER \in Grains /\ FIT_HEADER > 0
  /\ FIT_POOL_SIZE \in Grains /\ FIT_POOL_SIZE > FIT_HEADER
  /\ Grains \in SUBSET Nat /\ 0 \in Grains
  /\ \A g, h \in Grains : g + h \in Grains /\ (g >= h => g - h \in Grains)
  /\ \A n \in Nat : Lists!align_up(n) \in Grains
  /\ FIT_REQUESTS \in SUBSET Nat
<1> DEFINE A == ALIGNMENT
<1>1. /\ A \in Nat \ {0} /\ FIT_HEADER \in Nat \ {0} /\ FIT_POOL_SIZE \in Nat
      /\ FIT_HEADER % A = 0 /\ FIT_POOL_SIZE % A = 0 /\ FIT_POOL_SIZE > FIT_HEADER
      /\ FIT_REQUESTS \subseteq Nat
  BY PoolsAligned DEF Lists!FreeListsAssumption
<1>2. ASSUME NEW n \in Nat, n % A = 0 PROVE n \in Grains
  <2>1. n \div A \in Nat /\ n = (n \div A) * A
    BY <1>1, <1>2
  <2> QED BY <2>1 DEF Grains
<1>3. Grains \in SUBSET Nat /\ 0 \in Grains
  <2>1. 0 = 0 * A /\ \A i \in Nat : i * A \in Nat
    BY <1>1
  <2> QED BY <2>1 DEF Grains
<1>4. ASSUME NEW g \in Grains, NEW h \in Grains
      PROVE  g + h \in Grains /\ (g >= h => g - h \in Grains)
  <2>1. PICK i \in Nat : g = i * A
    BY DEF Grains
  <2>2. PICK j \in Nat : h = j * A
    BY DEF Grains
  <2>3. g + h = (i + j) * A /\ i + j \in Nat
    BY <1>1, <2>1, <2>2
  <2>4. g + h \in Grains
    BY <2>3 DEF Grains
  <2>5. ASSUME g >= h PROVE g - h \in Grains
    <3>1. CASE i >= j
      <4>1. g - h = (i - j) * A /\ i - j \in Nat
        BY <1>1, <2>1, <2>2, <3>1
      <4> QED BY <4>1 DEF Grains
    <3>2. CASE ~(i >= j)
      <4>1. j = i + (j - i) /\ j - i \in Nat /\ j - i >= 1
        BY <3>2
      <4>2. \A k \in Nat : k >= 1 => k * A >= A
        BY <1>1
      <4>3. h = g + (j - i) * A
        BY <1>1, <2>1, <2>2, <4>1
      <4>4. (j - i) * A >= A
        BY <4>1, <4>2
      <4> QED BY <4>3, <4>4, <2>5, <1>1, <1>3
    <3> QED BY <3>1, <3>2
  <2> QED BY <2>4, <2>5
<1>5. ASSUME NEW n \in Nat PROVE Lists!align_up(n) \in Grains
  <2>1. n + A - 1 \in Nat
    BY <1>1
  <2>2. \A m \in Nat : m \div A \in Nat
    BY <1>1
  <2>3. (n + A - 1) \div A \in Nat
    BY <2>1, <2>2
  <2> QED BY <2>3 DEF Grains, Lists!align_up
<1> QED BY <1>1, <1>2, <1>3, <1>4, <1>5

LEMMA OffsetsAre == Lists!Offsets = {g \in Grains : g < FIT_POOL_SIZE}
<1> DEFINE A == ALIGNMENT
           q == FIT_POOL_SIZE \div A
<1>1. /\ A \in Nat \ {0} /\ FIT_POOL_SIZE \in Nat /\ FIT_POOL_SIZE % A = 0
  BY PoolsAligned DEF Lists!FreeListsAssumption
<1>2. q \in Nat /\ FIT_POOL_SIZE = q * A
  BY <1>1
<1> HIDE DEF q
<1>3. ASSUME NEW i \in Nat PROVE i * A < q * A <=> i < q
  <2>1. CASE i < q
    <3>1. \A k \in Nat : k >= 1 => k * A >= A
      BY <1>1
    <3>2. q - i \in Nat /\ q - i >= 1 /\ q * A = i * A + (q - i) * A /\ i * A \in Nat
      BY <2>1, <1>1, <1>2
    <3>3. (q - i) * A >= A
      BY <3>1, <3>2
    <3>4. \A x, y \in Nat : y >= A => x < x + y
      BY <1>1
    <3>5. (q - i) * A \in Nat
      BY <3>2, <1>1
    <3> QED BY <2>1, <3>2, <3>3, <3>4, <3>5
  <2>2. CASE ~(i < q)
    <3>1. i - q \in Nat /\ i * A = q * A + (i - q) * A
      BY <2>2, <1>1, <1>2
    <3>2. (i - q) * A \in Nat /\ q * A \in Nat
      BY <3>1, <1>1, <1>2
    <3> QED BY <2>2, <3>1, <3>2
  <2> QED BY <2>1, <2>2
<1>4. \A i : i \in 0 .. FIT_POOL_SIZE \div A - 1 <=> i \in Nat /\ i < q
  BY <1>2 DEF q
<1> QED BY <1>2, <1>3, <1>4 DEF Grains, Lists!Offsets
\* One step of the pass over the list: the last block of acc takes b in, or b is next.
Taking(acc, b) ==
  IF acc.list # <<>> /\ Lists!End(acc.size, Lists!Last(acc.list)) = b
  THEN [acc EXCEPT !.size[Lists!Last(acc.list)] = @ + FIT_HEADER + acc.size[b]]
  ELSE [acc EXCEPT !.list = Append(@, b)]

\* The fold over the first n places: g gives for every set of places what its blocks fold to.
Folds(g, n, list, base) ==
  g = [s \in SUBSET (1 .. n) |->
         IF s = {} THEN base
         ELSE Taking(g[s \ {Lists!Max(s)}], list[Lists!Max(s)])]

LEMMA MaxIs ==
  ASSUME NEW n \in Nat, NEW s \in SUBSET (1 .. n + 1), n + 1 \in s
  PROVE  Lists!Max(s) = n + 1
<1>1. \A y \in s : n + 1 >= y
  OBVIOUS
<1>2. \A x \in s : (\A y \in s : x >= y) => x = n + 1
  OBVIOUS
<1> QED BY <1>1, <1>2 DEF Lists!Max

LEMMA FoldExists ==
  ASSUME NEW N \in Nat, NEW list, NEW base
  PROVE  \E g : Folds(g, N, list, base)
<1> DEFINE S == {n \in Nat : \E g : Folds(g, n, list, base)}
<1>1. 0 \in S
  <2> DEFINE g == [s \in SUBSET (1 .. 0) |-> base]
  <2>1. \A s \in SUBSET (1 .. 0) : s = {}
    OBVIOUS
  <2>2. Folds(g, 0, list, base)
    BY <2>1 DEF Folds
  <2> QED BY <2>2
<1>2. ASSUME NEW n \in S PROVE n + 1 \in S
  <2>1. PICK g : Folds(g, n, list, base)
    OBVIOUS
  <2> DEFINE At(s) == IF s \in SUBSET (1 .. n) THEN g[s]
                      ELSE Taking(g[s \ {n + 1}], list[n + 1])
             h == [s \in SUBSET (1 .. n + 1) |-> At(s)]
  <2>2. ASSUME NEW s \in SUBSET (1 .. n + 1)
        PROVE  h[s] = IF s = {} THEN base
                      ELSE Taking(h[s \ {Lists!Max(s)}], list[Lists!Max(s)])
    <3>1. CASE s \in SUBSET (1 .. n)
      <4>1. s \ {Lists!Max(s)} \in SUBSET (1 .. n)
        BY <3>1
      <4>2. s \ {Lists!Max(s)} \in SUBSET (1 .. n + 1)
        OBVIOUS
      <4>3. h[s] = g[s] /\ h[s \ {Lists!Max(s)}] = g[s \ {Lists!Max(s)}]
        BY <3>1, <4>1, <4>2
      <4> HIDE DEF h
      <4>4. g[s] = IF s = {} THEN base
                   ELSE Taking(g[s \ {Lists!Max(s)}], list[Lists!Max(s)])
        BY <2>1, <3>1 DEF Folds
      <4> QED BY <4>3, <4>4
    <3>2. CASE s \notin SUBSET (1 .. n)
      <4>1. n + 1 \in s
        BY <3>2
      <4>2. Lists!Max(s) = n + 1 /\ s # {}
        BY <4>1, MaxIs
      <4>3. s \ {n + 1} \in SUBSET (1 .. n) /\ s \ {n + 1} \in SUBSET (1 .. n + 1)
        OBVIOUS
      <4>4. h[s \ {n + 1}] = g[s \ {n + 1}]
        BY <4>3
      <4>5. h[s] = Taking(g[s \ {n + 1}], list[n + 1])
        BY <3>2
      <4> HIDE DEF h
      <4> QED BY <4>2, <4>4, <4>5
    <3> QED BY <3>1, <3>2
  <2>3. h = [s \in SUBSET (1 .. n + 1) |-> h[s]]
    OBVIOUS
  <2> HIDE DEF h
  <2>4. Folds(h, n + 1, list, base)
    BY <2>2, <2>3 DEF Folds
  <2> QED BY <2>4
<1>3. S = Nat
  <2>1. S \in SUBSET Nat /\ \A n \in S : n + 1 \in S
    BY <1>2
  <2> HIDE DEF S
  <2> QED BY <1>1, <2>1, Induction
<1> QED BY <1>3

\* The pass, step by step.
LEMMA CoalesceSteps ==
  ASSUME NEW X, NEW list \in Seq(X), NEW sizes
  PROVE  \E at : /\ at[0] = [list |-> <<>>, size |-> sizes]
                 /\ \A n \in 1 .. Len(list) : at[n] = Taking(at[n - 1], list[n])
                 /\ Lists!coalesce(list, sizes) = at[Len(list)]
<1> DEFINE N    == Len(list)
           base == [list |-> <<>>, size |-> sizes]
           it[s \in SUBSET (DOMAIN list)] ==
             IF s = {} THEN [list |-> <<>>, size |-> sizes]
             ELSE LET x   == Lists!Max(s)
                      acc == it[s \ {x}]
                      b   == list[x]
                  IN  IF acc.list # <<>> /\ Lists!End(acc.size, Lists!Last(acc.list)) = b
                      THEN [acc EXCEPT !.size[Lists!Last(acc.list)] = @ + FIT_HEADER + acc.size[b]]
                      ELSE [acc EXCEPT !.list = Append(@, b)]
           at == [n \in 0 .. N |-> it[1 .. n]]
<1>1. Lists!coalesce(list, sizes) = it[DOMAIN list]
  BY DEF Lists!coalesce, Lists!FoldLeft, Lists!MapThenFoldSet
<1>2. DOMAIN list = 1 .. N /\ N \in Nat
  OBVIOUS
<1>3. Folds(it, N, list, base)
  <2>1. \E g : Folds(g, N, list, base)
    BY <1>2, FoldExists
  <2>2. \E g : g = [s \in SUBSET (DOMAIN list) |->
             IF s = {} THEN [list |-> <<>>, size |-> sizes]
             ELSE LET x   == Lists!Max(s)
                      acc == g[s \ {x}]
                      b   == list[x]
                  IN  IF acc.list # <<>> /\ Lists!End(acc.size, Lists!Last(acc.list)) = b
                      THEN [acc EXCEPT !.size[Lists!Last(acc.list)] = @ + FIT_HEADER + acc.size[b]]
                      ELSE [acc EXCEPT !.list = Append(@, b)]]
    BY <2>1, <1>2 DEF Folds, Taking
  <2>3. it = [s \in SUBSET (DOMAIN list) |->
             IF s = {} THEN [list |-> <<>>, size |-> sizes]
             ELSE LET x   == Lists!Max(s)
                      acc == it[s \ {x}]
                      b   == list[x]
                  IN  IF acc.list # <<>> /\ Lists!End(acc.size, Lists!Last(acc.list)) = b
                      THEN [acc EXCEPT !.size[Lists!Last(acc.list)] = @ + FIT_HEADER + acc.size[b]]
                      ELSE [acc EXCEPT !.list = Append(@, b)]]
    BY <2>2, Zenon
  <2> HIDE DEF it
  <2> QED BY <2>3, <1>2 DEF Folds, Taking
<1> HIDE DEF it
<1>4. \A s \in SUBSET (1 .. N) :
        it[s] = IF s = {} THEN base
                ELSE Taking(it[s \ {Lists!Max(s)}], list[Lists!Max(s)])
  BY <1>3 DEF Folds
<1>5. at[0] = base
  <2>1. 1 .. 0 = {} /\ 0 \in 0 .. N
    BY <1>2
  <2> QED BY <2>1, <1>4
<1>6. ASSUME NEW n \in 1 .. N PROVE at[n] = Taking(at[n - 1], list[n])
  <2>1. n - 1 \in Nat /\ (n - 1) + 1 = n /\ n \in 1 .. n /\ n - 1 \in 0 .. N /\ n \in 0 .. N
    BY <1>2
  <2>2. Lists!Max(1 .. n) = n
    <3>1. \A m \in Nat : Lists!Max(1 .. m + 1) = m + 1
      <4>1. \A m \in Nat : m + 1 \in 1 .. m + 1 /\ 1 .. m + 1 \in SUBSET (1 .. m + 1)
        OBVIOUS
      <4> QED BY <4>1, MaxIs
    <3> QED BY <3>1, <2>1
  <2>3. 1 .. n # {} /\ (1 .. n) \ {n} = 1 .. n - 1 /\ 1 .. n \in SUBSET (1 .. N)
    <3>1. \A i : i \in (1 .. n) \ {n} <=> i \in 1 .. n - 1
      BY <2>1
    <3>2. \A i \in 1 .. n : i \in 1 .. N
      BY <1>2
    <3> QED BY <3>1, <3>2, <2>1
  <2>4. it[1 .. n] = Taking(it[1 .. n - 1], list[n])
    BY <2>2, <2>3, <1>4
  <2> QED BY <2>1, <2>4
<1>7. at[N] = it[DOMAIN list]
  BY <1>2
<1> HIDE DEF at
<1> QED BY <1>1, <1>5, <1>6, <1>7
\* The pool from b up to the end of its block holds x.
Within(sizes, b, x) == b <= x /\ x < Lists!End(sizes, b)

Ordered(list, sizes) ==
  \A i, j \in DOMAIN list : i < j => Lists!End(sizes, list[i]) <= list[j]
Apart(list, sizes) ==
  \A i, j \in DOMAIN list : i < j => Lists!End(sizes, list[i]) < list[j]

\* After n blocks of list the pass has merged them, and its last block ends where the
\* n-th did.
MergedUpTo(acc, n, list, sizes) ==
  /\ acc = [list |-> acc.list, size |-> acc.size]
  /\ acc.list \in Seq(Lists!Offsets) /\ acc.size \in [Lists!Offsets -> Grains]
  /\ n = 0 => acc.list = <<>>
  /\ n > 0 => acc.list # <<>>
       /\ Lists!End(acc.size, acc.list[Len(acc.list)]) = Lists!End(sizes, list[n])
  /\ \A j \in DOMAIN acc.list : \E k \in 1 .. n : acc.list[j] = list[k]
  /\ Apart(acc.list, acc.size)
  /\ \A o \in Lists!Offsets : (\A k \in 1 .. n : list[k] # o) => acc.size[o] = sizes[o]
  /\ \A x \in Int : (\E k \in 1 .. n : Within(sizes, list[k], x))
                    <=> (\E j \in DOMAIN acc.list : Within(acc.size, acc.list[j], x))

LEMMA EndIs ==
  ASSUME NEW sizes \in [Lists!Offsets -> Grains], NEW b \in Lists!Offsets
  PROVE  /\ Lists!End(sizes, b) \in Grains /\ Lists!End(sizes, b) \in Nat
         /\ b \in Nat /\ b < Lists!End(sizes, b)
         /\ Lists!End(sizes, b) = b + FIT_HEADER + sizes[b]
<1>1. b \in Grains /\ sizes[b] \in Grains
  BY OffsetsAre
<1>2. b + FIT_HEADER \in Grains
  BY <1>1, GrainsAre
<1>3. b + FIT_HEADER + sizes[b] \in Grains
  BY <1>1, <1>2, GrainsAre
<1>4. b \in Nat /\ sizes[b] \in Nat /\ FIT_HEADER \in Nat /\ FIT_HEADER > 0
  BY <1>1, GrainsAre
<1> QED BY <1>3, <1>4 DEF Lists!End

\* b has been taken in by the block before it.
LEMMA TakenIn ==
  ASSUME NEW list \in Seq(Lists!Offsets), NEW sizes \in [Lists!Offsets -> Grains],
         Ordered(list, sizes), NEW n \in 1 .. Len(list),
         NEW acc, MergedUpTo(acc, n - 1, list, sizes),
         acc.list # <<>>, Lists!End(acc.size, Lists!Last(acc.list)) = list[n]
  PROVE  MergedUpTo(Taking(acc, list[n]), n, list, sizes)
<1> DEFINE l == acc.list
           s == acc.size
           m == Len(l)
           last == l[m]
           b == list[n]
           t == [s EXCEPT ![last] = s[last] + FIT_HEADER + s[b]]
<1>1. /\ l \in Seq(Lists!Offsets) /\ s \in [Lists!Offsets -> Grains]
      /\ acc = [list |-> l, size |-> s]
      /\ \A j \in DOMAIN l : \E k \in 1 .. n - 1 : l[j] = list[k]
      /\ Apart(l, s)
      /\ \A o \in Lists!Offsets : (\A k \in 1 .. n - 1 : list[k] # o) => s[o] = sizes[o]
      /\ \A x \in Int : (\E k \in 1 .. n - 1 : Within(sizes, list[k], x))
                        <=> (\E j \in DOMAIN l : Within(s, l[j], x))
  BY DEF MergedUpTo
<1>2. n \in Nat /\ n \in DOMAIN list /\ b \in Lists!Offsets /\ Len(list) \in Nat
      /\ \A k \in 1 .. n - 1 : k \in DOMAIN list /\ k < n
  OBVIOUS
<1>3. m \in Nat /\ m \in DOMAIN l /\ DOMAIN l = 1 .. m /\ l # <<>> /\ last \in Lists!Offsets
  <2>1. m \in Nat /\ m # 0 /\ DOMAIN l = 1 .. m
    BY <1>1
  <2> QED BY <2>1, <1>1
<1>4. Taking(acc, b) = [list |-> l, size |-> t]
  <2>1. Lists!End(acc.size, Lists!Last(acc.list)) = b /\ Lists!Last(acc.list) = last
    BY DEF Lists!Last
  <2>2. Taking(acc, b) = [acc EXCEPT !.size[last] = acc.size[last] + FIT_HEADER + acc.size[b]]
    BY <2>1, <1>3 DEF Taking
  <2>3. \A a, w : [a EXCEPT !.size[last] = w]
                   = [a EXCEPT !.size = [a.size EXCEPT ![last] = w]]
    OBVIOUS
  <2>4. \A u, v, w, a : a = [list |-> u, size |-> v] =>
          [a EXCEPT !.size = w] = [list |-> u, size |-> w]
    OBVIOUS
  <2>5. Taking(acc, b) = [acc EXCEPT !.size = t]
    BY <2>2, <2>3
  <2> HIDE DEF l, s, last, m, b, t
  <2> QED BY <2>4, <2>5, <1>1
<1>5. Lists!End(s, last) = b
  BY DEF Lists!Last
<1> HIDE DEF l, s, m, last, b
<1>6. s[b] = sizes[b]
  <2>1. ASSUME NEW k \in 1 .. n - 1 PROVE list[k] # b
    <3>1. Lists!End(sizes, list[k]) <= b /\ list[k] \in Lists!Offsets
      BY <1>2 DEF Ordered, b
    <3>2. list[k] < Lists!End(sizes, list[k]) /\ list[k] \in Nat /\ Lists!End(sizes, list[k]) \in Nat
      BY <3>1, EndIs
    <3>3. b \in Nat
      BY <1>2, EndIs
    <3> QED BY <3>1, <3>2, <3>3
  <2> QED BY <2>1, <1>1, <1>2
<1>7. s[last] + FIT_HEADER + s[b] \in Grains
  <2>1. s[last] \in Grains /\ s[b] \in Grains
    BY <1>1, <1>2, <1>3
  <2>2. s[last] + FIT_HEADER \in Grains
    BY <2>1, GrainsAre
  <2> QED BY <2>1, <2>2, GrainsAre
<1>8. /\ t \in [Lists!Offsets -> Grains] /\ t[last] = s[last] + FIT_HEADER + s[b]
      /\ \A o \in Lists!Offsets : o # last => t[o] = s[o]
  BY <1>1, <1>3, <1>7
<1> HIDE DEF t
<1>9. Lists!End(t, last) = Lists!End(sizes, b)
  <2>1. /\ Lists!End(t, last) = last + FIT_HEADER + t[last]
        /\ Lists!End(s, last) = last + FIT_HEADER + s[last]
        /\ Lists!End(sizes, b) = b + FIT_HEADER + sizes[b]
    BY <1>1, <1>2, <1>3, <1>8, EndIs
  <2>2. last \in Nat /\ FIT_HEADER \in Nat /\ s[last] \in Nat /\ s[b] \in Nat
    <3>1. last \in Grains /\ s[last] \in Grains /\ s[b] \in Grains
      BY <1>1, <1>2, <1>3, OffsetsAre
    <3> QED BY <3>1, GrainsAre
  <2> QED BY <2>1, <2>2, <1>5, <1>6, <1>8
<1>10. ASSUME NEW j \in DOMAIN l, j # m
       PROVE  /\ l[j] \in Lists!Offsets /\ l[j] # last
              /\ Lists!End(t, l[j]) = Lists!End(s, l[j]) /\ Lists!End(s, l[j]) < last
  <2>1. l[j] \in Lists!Offsets /\ j < m
    BY <1>1, <1>3, <1>10
  <2>2. Lists!End(s, l[j]) < l[m]
    BY <2>1, <1>1, <1>3 DEF Apart
  <2>3. l[j] < Lists!End(s, l[j]) /\ l[j] \in Nat /\ Lists!End(s, l[j]) \in Nat /\ last \in Nat
    BY <2>1, <1>1, <1>3, EndIs
  <2>4. l[j] # last
    BY <2>2, <2>3 DEF last
  <2>5. Lists!End(t, l[j]) = Lists!End(s, l[j])
    BY <2>1, <2>4, <1>8 DEF Lists!End
  <2> QED BY <2>1, <2>2, <2>4, <2>5 DEF last
<1>11. Apart(l, t)
  <2> SUFFICES ASSUME NEW i \in DOMAIN l, NEW j \in DOMAIN l, i < j
               PROVE  Lists!End(t, l[i]) < l[j]
    BY DEF Apart
  <2>1. i # m
    BY <1>3
  <2>2. Lists!End(s, l[i]) < l[j]
    BY <1>1 DEF Apart
  <2> QED BY <2>1, <2>2, <1>10
<1>12. \A o \in Lists!Offsets : (\A k \in 1 .. n : list[k] # o) => t[o] = sizes[o]
  <2> SUFFICES ASSUME NEW o \in Lists!Offsets, \A k \in 1 .. n : list[k] # o
               PROVE  t[o] = sizes[o]
    OBVIOUS
  <2>1. PICK k \in 1 .. n - 1 : last = list[k]
    BY <1>1, <1>3 DEF last
  <2>2. o # last
    BY <2>1, <1>2
  <2>3. \A i \in 1 .. n - 1 : list[i] # o
    BY <1>2
  <2> QED BY <2>2, <2>3, <1>1, <1>8
<1>13. ASSUME NEW x \in Int
       PROVE  (\E k \in 1 .. n : Within(sizes, list[k], x))
              <=> (\E j \in DOMAIN l : Within(t, l[j], x))
  <2>1. \A k : k \in 1 .. n <=> k \in 1 .. n - 1 \/ k = n
    BY <1>2
  <2>2. (\E k \in 1 .. n : Within(sizes, list[k], x))
        <=> (\E j \in DOMAIN l : Within(s, l[j], x)) \/ Within(sizes, b, x)
    BY <2>1, <1>1 DEF b
  <2>3. \A j \in DOMAIN l : j # m => (Within(t, l[j], x) <=> Within(s, l[j], x))
    BY <1>10 DEF Within
  <2>4. Within(t, last, x) <=> Within(s, last, x) \/ Within(sizes, b, x)
    <3>1. /\ last \in Nat /\ b \in Nat /\ Lists!End(sizes, b) \in Nat
          /\ last < Lists!End(s, last) /\ b < Lists!End(sizes, b)
      BY <1>1, <1>2, <1>3, EndIs
    <3> QED BY <3>1, <1>5, <1>9 DEF Within
  <2>5. Within(t, l[m], x) <=> Within(s, l[m], x) \/ Within(sizes, b, x)
    BY <2>4 DEF last
  <2> QED BY <2>2, <2>3, <2>5, <1>3
<1>14. \A j \in DOMAIN l : \E k \in 1 .. n : l[j] = list[k]
  <2>1. \A k \in 1 .. n - 1 : k \in 1 .. n
    BY <1>2
  <2> QED BY <2>1, <1>1
<1>15. /\ Lists!End(t, l[Len(l)]) = Lists!End(sizes, list[n]) /\ n > 0
  BY <1>2, <1>9 DEF last, m, b
<1>16. MergedUpTo([list |-> l, size |-> t], n, list, sizes)
  <2> DEFINE r == [list |-> l, size |-> t]
  <2>1. r.list = l /\ r.size = t /\ r = [list |-> r.list, size |-> r.size]
    OBVIOUS
  <2> HIDE DEF r
  <2>2. /\ r.list \in Seq(Lists!Offsets) /\ r.size \in [Lists!Offsets -> Grains]
        /\ n = 0 => r.list = <<>>
        /\ n > 0 => r.list # <<>>
             /\ Lists!End(r.size, r.list[Len(r.list)]) = Lists!End(sizes, list[n])
    BY <2>1, <1>1, <1>3, <1>8, <1>15
  <2>3. /\ \A j \in DOMAIN r.list : \E k \in 1 .. n : r.list[j] = list[k]
        /\ Apart(r.list, r.size)
    BY <2>1, <1>11, <1>14
  <2>4. \A o \in Lists!Offsets : (\A k \in 1 .. n : list[k] # o) => r.size[o] = sizes[o]
    BY <2>1, <1>12
  <2>5. \A x \in Int : (\E k \in 1 .. n : Within(sizes, list[k], x))
                       <=> (\E j \in DOMAIN r.list : Within(r.size, r.list[j], x))
    BY <2>1, <1>13
  <2>6. MergedUpTo(r, n, list, sizes)
    BY <2>1, <2>2, <2>3, <2>4, <2>5 DEF MergedUpTo
  <2> QED BY <2>6 DEF r
<1> QED BY <1>4, <1>16 DEF b
\* b lies apart from the block before it and is next in the list.
LEMMA PutNext ==
  ASSUME NEW list \in Seq(Lists!Offsets), NEW sizes \in [Lists!Offsets -> Grains],
         Ordered(list, sizes), NEW n \in 1 .. Len(list),
         NEW acc, MergedUpTo(acc, n - 1, list, sizes),
         ~(acc.list # <<>> /\ Lists!End(acc.size, Lists!Last(acc.list)) = list[n])
  PROVE  MergedUpTo(Taking(acc, list[n]), n, list, sizes)
<1> DEFINE l == acc.list
           s == acc.size
           b == list[n]
           m == Append(l, b)
<1>1. /\ l \in Seq(Lists!Offsets) /\ s \in [Lists!Offsets -> Grains]
      /\ acc = [list |-> l, size |-> s]
      /\ n - 1 = 0 => l = <<>>
      /\ n - 1 > 0 => l # <<>> /\ Lists!End(s, l[Len(l)]) = Lists!End(sizes, list[n - 1])
      /\ \A j \in DOMAIN l : \E k \in 1 .. n - 1 : l[j] = list[k]
      /\ Apart(l, s)
      /\ \A o \in Lists!Offsets : (\A k \in 1 .. n - 1 : list[k] # o) => s[o] = sizes[o]
      /\ \A x \in Int : (\E k \in 1 .. n - 1 : Within(sizes, list[k], x))
                        <=> (\E j \in DOMAIN l : Within(s, l[j], x))
  BY DEF MergedUpTo
<1>2. /\ n \in Nat /\ n \in DOMAIN list /\ b \in Lists!Offsets /\ Len(list) \in Nat
      /\ \A k \in 1 .. n - 1 : k \in DOMAIN list /\ k < n
      /\ \A k : k \in 1 .. n <=> k \in 1 .. n - 1 \/ k = n
  OBVIOUS
<1>3. Taking(acc, b) = [list |-> m, size |-> s]
  <2>1. Taking(acc, b) = [acc EXCEPT !.list = Append(l, b)]
    BY DEF Taking
  <2>2. \A u, v, w, a : a = [list |-> u, size |-> v] =>
          [a EXCEPT !.list = w] = [list |-> w, size |-> v]
    OBVIOUS
  <2> HIDE DEF l, s, b
  <2> QED BY <2>1, <2>2, <1>1
<1>4. l # <<>> => Lists!End(s, l[Len(l)]) # b
  BY DEF Lists!Last
<1>5. /\ m \in Seq(Lists!Offsets) /\ Len(m) = Len(l) + 1 /\ Len(l) \in Nat
      /\ DOMAIN m = 1 .. Len(l) + 1 /\ DOMAIN l = 1 .. Len(l)
      /\ m[Len(l) + 1] = b /\ \A j \in DOMAIN l : m[j] = l[j]
  BY <1>1, <1>2
<1> HIDE DEF l, s, b, m
<1>6. ASSUME NEW k \in 1 .. n - 1 PROVE Lists!End(sizes, list[k]) <= b /\ list[k] # b
  <2>1. Lists!End(sizes, list[k]) <= b /\ list[k] \in Lists!Offsets
    BY <1>2 DEF Ordered, b
  <2>2. list[k] < Lists!End(sizes, list[k]) /\ list[k] \in Nat /\ Lists!End(sizes, list[k]) \in Nat
    BY <2>1, EndIs
  <2>3. b \in Nat
    BY <1>2, EndIs
  <2> QED BY <2>1, <2>2, <2>3
<1>7. s[b] = sizes[b]
  BY <1>1, <1>2, <1>6
<1>8. ASSUME NEW j \in DOMAIN l PROVE Lists!End(s, l[j]) < b
  <2>1. l # <<>> /\ n - 1 > 0 /\ Len(l) \in DOMAIN l /\ l[Len(l)] \in Lists!Offsets
    BY <1>1, <1>2, <1>5
  <2>2. Lists!End(s, l[Len(l)]) = Lists!End(sizes, list[n - 1]) /\ n - 1 \in 1 .. n - 1
    BY <2>1, <1>1, <1>2
  <2>3. Lists!End(s, l[Len(l)]) <= b /\ Lists!End(s, l[Len(l)]) # b
    BY <2>1, <2>2, <1>4, <1>6
  <2>4. Lists!End(s, l[Len(l)]) \in Nat /\ b \in Nat /\ l[Len(l)] < Lists!End(s, l[Len(l)])
        /\ l[Len(l)] \in Nat
    BY <2>1, <1>1, <1>2, EndIs
  <2>5. Lists!End(s, l[Len(l)]) < b
    BY <2>3, <2>4
  <2>6. CASE j # Len(l)
    <3>1. Lists!End(s, l[j]) < l[Len(l)]
      <4>1. j < Len(l)
        BY <2>6, <1>5
      <4> QED BY <4>1, <2>1, <1>1 DEF Apart
    <3>2. l[j] \in Lists!Offsets
      BY <1>1
    <3>3. Lists!End(s, l[j]) \in Nat
      BY <3>2, <1>1, EndIs
    <3> QED BY <3>1, <3>3, <2>4, <2>5
  <2> QED BY <2>5, <2>6
<1>9. Apart(m, s)
  <2> SUFFICES ASSUME NEW i \in DOMAIN m, NEW j \in DOMAIN m, i < j
               PROVE  Lists!End(s, m[i]) < m[j]
    BY DEF Apart
  <2>1. i \in DOMAIN l /\ m[i] = l[i]
    BY <1>5
  <2>2. CASE j \in DOMAIN l
    BY <2>1, <2>2, <1>1, <1>5 DEF Apart
  <2>3. CASE j \notin DOMAIN l
    <3>1. m[j] = b
      BY <2>3, <1>5
    <3> QED BY <3>1, <2>1, <1>8
  <2> QED BY <2>2, <2>3
<1>10. Within(s, b, 0) \in BOOLEAN /\ \A x \in Int : Within(s, b, x) <=> Within(sizes, b, x)
  BY <1>7 DEF Within, Lists!End
<1>11. \A j : j \in DOMAIN m <=> j \in DOMAIN l \/ j = Len(l) + 1
  BY <1>5
<1>12. ASSUME NEW x \in Int
       PROVE  (\E k \in 1 .. n : Within(sizes, list[k], x))
              <=> (\E j \in DOMAIN m : Within(s, m[j], x))
  <2>1. (\E k \in 1 .. n : Within(sizes, list[k], x))
        <=> (\E j \in DOMAIN l : Within(s, l[j], x)) \/ Within(sizes, b, x)
    BY <1>1, <1>2 DEF b
  <2>2. (\E j \in DOMAIN m : Within(s, m[j], x))
        <=> (\E j \in DOMAIN l : Within(s, m[j], x)) \/ Within(s, m[Len(l) + 1], x)
    BY <1>11
  <2>3. (\E j \in DOMAIN l : Within(s, m[j], x)) <=> (\E j \in DOMAIN l : Within(s, l[j], x))
    BY <1>5
  <2> QED BY <2>1, <2>2, <2>3, <1>5, <1>10
<1>13. \A j \in DOMAIN m : \E k \in 1 .. n : m[j] = list[k]
  <2>1. \A j \in DOMAIN l : \E k \in 1 .. n : m[j] = list[k]
    BY <1>1, <1>2, <1>5
  <2>2. m[Len(l) + 1] = list[n]
    BY <1>5 DEF b
  <2> QED BY <2>1, <2>2, <1>2, <1>11
<1>14. /\ Lists!End(s, m[Len(m)]) = Lists!End(sizes, list[n]) /\ m # <<>> /\ n > 0
  <2>1. m[Len(m)] = b /\ m # <<>>
    BY <1>5
  <2> QED BY <2>1, <1>2, <1>7 DEF b, Lists!End
<1>15. \A o \in Lists!Offsets : (\A k \in 1 .. n : list[k] # o) => s[o] = sizes[o]
  BY <1>1, <1>2
<1> DEFINE r == [list |-> m, size |-> s]
<1>16. r.list = m /\ r.size = s /\ r = [list |-> r.list, size |-> r.size]
  OBVIOUS
<1> HIDE DEF r
<1>17. /\ r.list \in Seq(Lists!Offsets) /\ r.size \in [Lists!Offsets -> Grains]
       /\ n = 0 => r.list = <<>>
       /\ n > 0 => r.list # <<>>
            /\ Lists!End(r.size, r.list[Len(r.list)]) = Lists!End(sizes, list[n])
  BY <1>1, <1>5, <1>14, <1>16
<1>18. MergedUpTo(r, n, list, sizes)
  <2>1. /\ \A j \in DOMAIN r.list : \E k \in 1 .. n : r.list[j] = list[k]
        /\ Apart(r.list, r.size)
    BY <1>9, <1>13, <1>16
  <2>2. \A o \in Lists!Offsets : (\A k \in 1 .. n : list[k] # o) => r.size[o] = sizes[o]
    BY <1>15, <1>16
  <2>3. \A x \in Int : (\E k \in 1 .. n : Within(sizes, list[k], x))
                       <=> (\E j \in DOMAIN r.list : Within(r.size, r.list[j], x))
    BY <1>12, <1>16
  <2> QED BY <2>1, <2>2, <2>3, <1>16, <1>17 DEF MergedUpTo
<1> QED BY <1>3, <1>18 DEF b, r

\* What the pass over an ordered list leaves: the same space, in blocks that do not touch.
LEMMA Coalesced ==
  ASSUME NEW list \in Seq(Lists!Offsets), NEW sizes \in [Lists!Offsets -> Grains],
         Ordered(list, sizes)
  PROVE  MergedUpTo(Lists!coalesce(list, sizes), Len(list), list, sizes)
<1> DEFINE N == Len(list)
<1>1. PICK at : /\ at[0] = [list |-> <<>>, size |-> sizes]
                /\ \A n \in 1 .. N : at[n] = Taking(at[n - 1], list[n])
                /\ Lists!coalesce(list, sizes) = at[N]
  BY CoalesceSteps
<1> DEFINE T == {n \in 0 .. N : MergedUpTo(at[n], n, list, sizes)}
<1>2. N \in Nat
  OBVIOUS
<1>3. 0 \in T
  <2>1. at[0].list = <<>> /\ at[0].size = sizes /\ at[0] = [list |-> at[0].list, size |-> at[0].size]
    BY <1>1
  <2>2. 0 \in 0 .. N /\ 1 .. 0 = {} /\ DOMAIN at[0].list = {} /\ at[0].list \in Seq(Lists!Offsets)
    BY <2>1
  <2>3. MergedUpTo(at[0], 0, list, sizes)
    BY <2>1, <2>2 DEF MergedUpTo, Apart
  <2> QED BY <2>2, <2>3
<1>4. ASSUME NEW n \in T, n < N PROVE n + 1 \in T
  <2>1. n + 1 \in 1 .. N /\ n + 1 \in 0 .. N /\ (n + 1) - 1 = n
    BY <1>4
  <2>2. at[n + 1] = Taking(at[n], list[n + 1]) /\ MergedUpTo(at[n], (n + 1) - 1, list, sizes)
    BY <2>1, <1>1
  <2>3. MergedUpTo(Taking(at[n], list[n + 1]), n + 1, list, sizes)
    BY <2>1, <2>2, TakenIn, PutNext
  <2> QED BY <2>1, <2>2, <2>3
<1>5. T = 0 .. N
  <2>1. T \in SUBSET (0 .. N)
    OBVIOUS
  <2> HIDE DEF T
  <2> QED BY <2>1, <1>2, <1>3, <1>4, UpTo
<1>6. N \in T
  BY <1>2, <1>5
<1> QED BY <1>1, <1>6
Ascending(l) == \A i, j \in DOMAIN l : i < j => l[i] < l[j]

LEMMA InsertedAt ==
  ASSUME NEW S, NEW l \in Seq(S), NEW b \in S, NEW k \in 1 .. Len(l) + 1
  PROVE  LET m == Lists!InsertAt(l, k, b)
         IN  /\ m \in Seq(S) /\ Len(m) = Len(l) + 1 /\ DOMAIN m = 1 .. Len(l) + 1
             /\ m[k] = b
             /\ \A i \in 1 .. k - 1 : i \in DOMAIN l /\ m[i] = l[i]
             /\ \A i \in k + 1 .. Len(l) + 1 : i - 1 \in DOMAIN l /\ m[i] = l[i - 1]
<1> DEFINE u == SubSeq(l, 1, k - 1)
           v == SubSeq(l, k, Len(l))
           m == u \o <<b>> \o v
<1>1. Len(l) \in Nat /\ k \in Nat /\ DOMAIN l = 1 .. Len(l)
  OBVIOUS
<1>2. u \in Seq(S) /\ Len(u) = k - 1 /\ \A i \in 1 .. k - 1 : u[i] = l[i]
  BY <1>1
<1>3. v \in Seq(S) /\ Len(v) = Len(l) - k + 1 /\ \A i \in 1 .. Len(l) - k + 1 : v[i] = l[i + k - 1]
  BY <1>1
<1> HIDE DEF u, v
<1>4. /\ u \o <<b>> \in Seq(S) /\ Len(u \o <<b>>) = k
      /\ (u \o <<b>>)[k] = b /\ \A i \in 1 .. k - 1 : (u \o <<b>>)[i] = u[i]
  BY <1>1, <1>2
<1> DEFINE w == u \o <<b>>
<1>5. w \in Seq(S) /\ Len(w) = k /\ w[k] = b /\ \A i \in 1 .. k - 1 : w[i] = u[i]
  BY <1>4
<1>6. m = w \o v
  OBVIOUS
<1> HIDE DEF w, m
<1>7. /\ m \in Seq(S) /\ Len(m) = Len(l) + 1
      /\ \A i \in 1 .. k : m[i] = w[i]
      /\ \A i \in k + 1 .. Len(l) + 1 : m[i] = v[i - k]
  <2>0. w \in Seq(S) /\ v \in Seq(S)
    BY <1>3, <1>5
  <2>1. m \in Seq(S) /\ Len(m) = Len(w) + Len(v)
    <3>1. w \o v \in Seq(S) /\ Len(w \o v) = Len(w) + Len(v)
      BY <2>0
    <3> QED BY <3>1, <1>6
  <2>2. \A i \in 1 .. Len(w) + Len(v) :
          m[i] = IF i <= Len(w) THEN w[i] ELSE v[i - Len(w)]
    <3>1. \A i \in 1 .. Len(w) + Len(v) :
            (w \o v)[i] = IF i <= Len(w) THEN w[i] ELSE v[i - Len(w)]
      BY <2>0
    <3> QED BY <3>1, <1>6
  <2>3. Len(w) = k /\ Len(v) = Len(l) - k + 1 /\ Len(w) + Len(v) = Len(l) + 1
    BY <1>1, <1>3, <1>5
  <2>4. \A i \in 1 .. k : m[i] = w[i]
    BY <2>2, <2>3, <1>1
  <2>5. \A i \in k + 1 .. Len(l) + 1 : m[i] = v[i - k]
    BY <2>2, <2>3, <1>1
  <2> QED BY <2>1, <2>3, <2>4, <2>5
<1>8. DOMAIN m = 1 .. Len(l) + 1 /\ m[k] = b
  BY <1>1, <1>5, <1>7
<1>9. ASSUME NEW i \in 1 .. k - 1 PROVE i \in DOMAIN l /\ m[i] = l[i]
  <2>1. i \in 1 .. k /\ i \in DOMAIN l
    BY <1>1
  <2> QED BY <2>1, <1>2, <1>5, <1>7
<1>10. ASSUME NEW i \in k + 1 .. Len(l) + 1 PROVE i - 1 \in DOMAIN l /\ m[i] = l[i - 1]
  <2>1. i - k \in 1 .. Len(l) - k + 1 /\ (i - k) + k - 1 = i - 1 /\ i - 1 \in DOMAIN l
    BY <1>1
  <2> QED BY <2>1, <1>3, <1>7
<1> QED BY <1>7, <1>8, <1>9, <1>10 DEF Lists!InsertAt, m, u, v

\* A block that is not in the list comes into its place.
LEMMA Inserted ==
  ASSUME NEW l \in Seq(Lists!Offsets), NEW b \in Lists!Offsets, Ascending(l), b \notin Members(l)
  PROVE  LET m == Lists!insert_free_block(l, b)
         IN  m \in Seq(Lists!Offsets) /\ Ascending(m) /\ Members(m) = Members(l) \cup {b}
<1> DEFINE N == Len(l)
           Place(i) == /\ \A j \in 1 .. i - 1 : l[j] < b
                       /\ i <= Len(l) => l[i] >= b
           k == CHOOSE i \in 1 .. Len(l) + 1 : Place(i)
           m == Lists!InsertAt(l, k, b)
<1>1. /\ N \in Nat /\ DOMAIN l = 1 .. N /\ b \in Nat /\ \A i \in DOMAIN l : l[i] \in Nat /\ l[i] # b
  <2>1. \A o \in Lists!Offsets : o \in Nat
    BY OffsetsAre, GrainsAre
  <2> QED BY <2>1 DEF Members
<1>2. \E i \in 1 .. N + 1 : Place(i)
  <2> DEFINE U == {i \in 1 .. N : l[i] < b}
  <2>1. CASE U = {}
    <3>1. 1 \in 1 .. N + 1 /\ Place(1)
      BY <2>1, <1>1
    <3> QED BY <3>1
  <2>2. CASE U # {}
    <3>1. PICK x \in U : \A y \in U : y <= x
      <4>1. U \in SUBSET (1 .. N)
        OBVIOUS
      <4> HIDE DEF U
      <4> QED BY <4>1, <2>2, <1>1, LargestExists
    <3>2. x + 1 \in 1 .. N + 1 /\ x \in 1 .. N /\ l[x] < b
      BY <1>1
    <3>3. ASSUME NEW j \in 1 .. (x + 1) - 1 PROVE l[j] < b
      <4>1. j \in DOMAIN l /\ x \in DOMAIN l /\ (j < x \/ j = x)
        BY <3>2, <1>1
      <4>2. j < x => l[j] < l[x]
        BY <4>1 DEF Ascending
      <4> QED BY <4>1, <4>2, <3>2, <1>1
    <3>4. ASSUME x + 1 <= N PROVE l[x + 1] >= b
      <4>1. x + 1 \in 1 .. N /\ x + 1 \notin U
        BY <3>1, <3>2, <3>4, <1>1
      <4> QED BY <4>1, <1>1
    <3> QED BY <3>2, <3>3, <3>4
  <2> QED BY <2>1, <2>2
<1>3. k \in 1 .. N + 1 /\ Place(k)
  BY <1>2
<1>4. Lists!insert_free_block(l, b) = m
  BY DEF Lists!insert_free_block
<1> HIDE DEF k
<1>5. k \in 1 .. N + 1 /\ (\A j \in 1 .. k - 1 : l[j] < b) /\ (k <= N => l[k] > b)
  BY <1>1, <1>3
<1>6. /\ m \in Seq(Lists!Offsets) /\ DOMAIN m = 1 .. N + 1 /\ m[k] = b
      /\ \A i \in 1 .. k - 1 : i \in DOMAIN l /\ m[i] = l[i]
      /\ \A i \in k + 1 .. N + 1 : i - 1 \in DOMAIN l /\ m[i] = l[i - 1]
  BY <1>5, InsertedAt
<1> HIDE DEF m
<1>7. ASSUME NEW i \in DOMAIN l, i >= k PROVE l[i] > b
  <2>1. k \in DOMAIN l /\ l[k] > b /\ (i = k \/ k < i)
    BY <1>1, <1>5, <1>7
  <2>2. k < i => l[k] < l[i]
    BY <2>1 DEF Ascending
  <2> QED BY <2>1, <2>2, <1>1
<1>8. Ascending(m)
  <2> SUFFICES ASSUME NEW i \in DOMAIN m, NEW j \in DOMAIN m, i < j PROVE m[i] < m[j]
    BY DEF Ascending
  <2>0. i \in 1 .. N + 1 /\ j \in 1 .. N + 1 /\ k \in 1 .. N + 1
    BY <1>5, <1>6
  <2>1. CASE j < k
    <3>1. i \in 1 .. k - 1 /\ j \in 1 .. k - 1
      BY <2>0, <2>1
    <3> QED BY <3>1, <1>6 DEF Ascending
  <2>2. CASE j = k
    <3>1. i \in 1 .. k - 1
      BY <2>0, <2>2
    <3> QED BY <3>1, <2>2, <1>5, <1>6
  <2>3. CASE j > k /\ i < k
    <3>1. i \in 1 .. k - 1 /\ j \in k + 1 .. N + 1 /\ i < j - 1
      BY <2>0, <2>3
    <3> QED BY <3>1, <1>6 DEF Ascending
  <2>4. CASE j > k /\ i = k
    <3>1. j \in k + 1 .. N + 1 /\ j - 1 >= k
      BY <2>0, <2>4
    <3>2. m[j] = l[j - 1] /\ l[j - 1] > b
      BY <3>1, <1>6, <1>7
    <3>3. m[i] = b /\ l[j - 1] \in Nat
      BY <3>1, <2>4, <1>1, <1>6
    <3> QED BY <3>2, <3>3, <1>1
  <2>5. CASE i > k
    <3>1. i \in k + 1 .. N + 1 /\ j \in k + 1 .. N + 1 /\ i - 1 < j - 1
      BY <2>0, <2>5
    <3> QED BY <3>1, <1>6 DEF Ascending
  <2> QED BY <2>0, <2>1, <2>2, <2>3, <2>4, <2>5
<1>9. Members(m) = Members(l) \cup {b}
  <2>1. ASSUME NEW i \in DOMAIN m PROVE m[i] \in Members(l) \cup {b}
    <3>1. i \in 1 .. k - 1 \/ i = k \/ i \in k + 1 .. N + 1
      BY <1>5, <1>6
    <3>2. m[i] = b \/ \E j \in DOMAIN l : m[i] = l[j]
      BY <3>1, <1>6
    <3> QED BY <3>2 DEF Members
  <2>2. ASSUME NEW i \in DOMAIN l PROVE l[i] \in Members(m)
    <3>1. CASE i < k
      <4>1. i \in 1 .. k - 1 /\ i \in DOMAIN m
        BY <3>1, <1>1, <1>5, <1>6
      <4> QED BY <4>1, <1>6 DEF Members
    <3>2. CASE ~(i < k)
      <4>1. i + 1 \in k + 1 .. N + 1 /\ i + 1 \in DOMAIN m /\ (i + 1) - 1 = i
        BY <3>2, <1>1, <1>5, <1>6
      <4> QED BY <4>1, <1>6 DEF Members
    <3> QED BY <3>1, <3>2
  <2>3. b \in Members(m)
    BY <1>5, <1>6 DEF Members
  <2> QED BY <2>1, <2>2, <2>3 DEF Members
<1> QED BY <1>4, <1>6, <1>8, <1>9
\* The blocks bs, with the sizes sizes, fill the pool without overlap.
Tiles(bs, sizes) ==
  /\ bs \in SUBSET Lists!Offsets
  /\ \A a, b \in bs : \A x \in Int : Within(sizes, a, x) /\ Within(sizes, b, x) => a = b
  /\ \A x \in Int : 0 <= x /\ x < FIT_POOL_SIZE <=> \E b \in bs : Within(sizes, b, x)

Handed(lv) == {p - FIT_HEADER : p \in lv}

FitInv ==
  /\ fit_size \in [Lists!Offsets -> Grains]
  /\ free_list \in Seq(Lists!Offsets)
  /\ Apart(free_list, fit_size)
  /\ \A p \in fit_live : /\ p \in Nat /\ p - FIT_HEADER \in Lists!Offsets
                         /\ p - FIT_HEADER \notin Members(free_list)
  /\ Tiles(Members(free_list) \cup Handed(fit_live), fit_size)

LEMMA BlockEnds ==
  ASSUME NEW sizes \in [Lists!Offsets -> Grains], NEW bs, Tiles(bs, sizes), NEW a \in bs
  PROVE  /\ a \in Lists!Offsets /\ Within(sizes, a, a) /\ Lists!End(sizes, a) <= FIT_POOL_SIZE
         /\ \A b \in bs : a < b => Lists!End(sizes, a) <= b
<1>1. /\ a \in Lists!Offsets /\ a \in Nat /\ Lists!End(sizes, a) \in Nat
      /\ a < Lists!End(sizes, a) /\ FIT_POOL_SIZE \in Nat
  BY EndIs, GrainsAre DEF Tiles
<1>2. Within(sizes, a, a)
  BY <1>1 DEF Within
<1>3. Lists!End(sizes, a) <= FIT_POOL_SIZE
  <2> DEFINE x == Lists!End(sizes, a) - 1
  <2>1. x \in Int /\ Within(sizes, a, x)
    BY <1>1 DEF Within
  <2> HIDE DEF x
  <2>2. x < FIT_POOL_SIZE
    BY <2>1 DEF Tiles
  <2> QED BY <2>2, <1>1 DEF x
<1>4. ASSUME NEW b \in bs, a < b PROVE Lists!End(sizes, a) <= b
  <2>1. b \in Nat /\ Within(sizes, b, b)
    <3>1. b \in Lists!Offsets
      BY DEF Tiles
    <3>2. b \in Nat /\ b < Lists!End(sizes, b)
      BY <3>1, EndIs
    <3> QED BY <3>2 DEF Within
  <2>2. ~(b < Lists!End(sizes, a))
    <3>1. b < Lists!End(sizes, a) => Within(sizes, a, b)
      BY <1>1, <1>4, <2>1 DEF Within
    <3>2. Within(sizes, a, b) => a = b
      BY <2>1 DEF Tiles
    <3> QED BY <3>1, <3>2, <1>1, <1>4, <2>1
  <2> QED BY <2>1, <2>2, <1>1
<1> QED BY <1>1, <1>2, <1>3, <1>4

\* What Apart says of the order and of the places of blocks.
LEMMA ApartIs ==
  ASSUME NEW sizes \in [Lists!Offsets -> Grains], NEW l \in Seq(Lists!Offsets), Apart(l, sizes)
  PROVE  Ascending(l) /\ Distinct(l)
<1>1. ASSUME NEW i \in DOMAIN l, NEW j \in DOMAIN l, i < j PROVE l[i] < l[j]
  <2>1. Lists!End(sizes, l[i]) < l[j] /\ l[i] \in Lists!Offsets /\ l[j] \in Lists!Offsets
    BY <1>1 DEF Apart
  <2>2. l[i] < Lists!End(sizes, l[i]) /\ l[i] \in Nat /\ Lists!End(sizes, l[i]) \in Nat /\ l[j] \in Nat
    BY <2>1, EndIs
  <2> QED BY <2>1, <2>2
<1>2. ASSUME NEW i \in DOMAIN l, NEW j \in DOMAIN l, l[i] = l[j] PROVE i = j
  <2>1. i \in Nat /\ j \in Nat /\ l[i] \in Nat /\ l[j] \in Nat
    <3>1. l[i] \in Lists!Offsets /\ l[j] \in Lists!Offsets
      OBVIOUS
    <3>2. l[i] \in Nat /\ l[j] \in Nat
      BY <3>1, EndIs
    <3> QED BY <3>2
  <2>2. i < j => l[i] < l[j]
    BY <1>1
  <2>3. j < i => l[j] < l[i]
    BY <1>1
  <2> QED BY <2>1, <2>2, <2>3, <1>2
<1> QED BY <1>1, <1>2 DEF Ascending, Distinct

LEMMA TiledFollows == FitInv => Lists!PoolTiled
<1> SUFFICES ASSUME FitInv PROVE Lists!PoolTiled
  OBVIOUS
<1> DEFINE bs == Members(free_list) \cup Handed(fit_live)
<1>1. /\ Lists!FreeBlocks = Members(free_list) /\ Lists!Blocks = bs
  BY DEF Lists!FreeBlocks, Lists!Blocks, Lists!ToSet, Members, Handed
<1>2. /\ fit_size \in [Lists!Offsets -> Grains] /\ Tiles(bs, fit_size)
      /\ Apart(free_list, fit_size)
      /\ \A p \in fit_live : p - FIT_HEADER \notin Members(free_list)
  BY DEF FitInv
<1> HIDE DEF bs
<1>3. ASSUME NEW b \in bs
      PROVE  \A x : x \in Lists!Extent(b) <=> x \in Int /\ Within(fit_size, b, x)
  <2>1. b \in Nat /\ Lists!End(fit_size, b) \in Nat
    BY <1>2, EndIs DEF Tiles
  <2> QED BY <2>1 DEF Lists!Extent, Within
<1>4. \A a, b \in bs : a # b => Lists!Extent(a) \cap Lists!Extent(b) = {}
  BY <1>2, <1>3 DEF Tiles
<1>5. UNION {Lists!Extent(b) : b \in bs} = 0 .. FIT_POOL_SIZE - 1
  <2>1. \A x : x \in 0 .. FIT_POOL_SIZE - 1 <=> x \in Int /\ 0 <= x /\ x < FIT_POOL_SIZE
    <3>1. FIT_POOL_SIZE \in Nat
      BY GrainsAre
    <3> QED BY <3>1
  <2>2. \A x \in Int : 0 <= x /\ x < FIT_POOL_SIZE <=> \E b \in bs : Within(fit_size, b, x)
    BY <1>2 DEF Tiles
  <2>3. \A x : (\E b \in bs : x \in Lists!Extent(b)) <=> x \in 0 .. FIT_POOL_SIZE - 1
    BY <2>1, <2>2, <1>3
  <2> QED BY <2>3
<1>6. \A i, j \in DOMAIN free_list : i < j => Lists!End(fit_size, free_list[i]) < free_list[j]
  BY <1>2 DEF Apart
<1> QED BY <1>1, <1>2, <1>4, <1>5, <1>6 DEF Lists!PoolTiled

LEMMA FitInitially == Lists!FitInit => FitInv
<1> SUFFICES ASSUME Lists!FitInit PROVE FitInv
  OBVIOUS
<1>1. /\ free_list = <<0>> /\ fit_live = {}
      /\ fit_size = [b \in Lists!Offsets |-> IF b = 0 THEN FIT_POOL_SIZE - FIT_HEADER ELSE 0]
  BY DEF Lists!FitInit
<1>2. /\ FIT_POOL_SIZE \in Nat /\ FIT_HEADER \in Nat /\ FIT_POOL_SIZE > 0
      /\ FIT_POOL_SIZE - FIT_HEADER \in Grains /\ 0 \in Grains
  BY GrainsAre
<1>3. 0 \in Lists!Offsets
  BY <1>2, OffsetsAre
<1>4. fit_size \in [Lists!Offsets -> Grains] /\ fit_size[0] = FIT_POOL_SIZE - FIT_HEADER
  BY <1>1, <1>2, <1>3
<1>5. free_list \in Seq(Lists!Offsets) /\ Members(free_list) = {0} /\ DOMAIN free_list = {1}
  BY <1>1, <1>3 DEF Members
<1>6. Lists!End(fit_size, 0) = FIT_POOL_SIZE
  BY <1>2, <1>4 DEF Lists!End
<1>7. Tiles({0}, fit_size)
  BY <1>3, <1>6 DEF Tiles, Within
<1>8. Members(free_list) \cup Handed(fit_live) = {0}
  BY <1>1, <1>5 DEF Handed
<1>9. Apart(free_list, fit_size)
  BY <1>5 DEF Apart
<1> QED BY <1>1, <1>4, <1>5, <1>7, <1>8, <1>9 DEF FitInv
LEMMA SmallestExists ==
  ASSUME NEW n \in Nat, NEW T \in SUBSET (1 .. n), T # {}
  PROVE  \E x \in T : \A y \in T : x <= y
<1> DEFINE U == {i \in 1 .. n : n + 1 - i \in T}
<1>1. \A x \in T : n + 1 - x \in U
  <2>1. \A x \in T : n + 1 - x \in 1 .. n /\ n + 1 - (n + 1 - x) = x
    OBVIOUS
  <2> QED BY <2>1
<1>2. U \in SUBSET (1 .. n) /\ U # {}
  BY <1>1
<1>3. PICK z \in U : \A y \in U : y <= z
  <2> HIDE DEF U
  <2> QED BY <1>2, LargestExists
<1>4. n + 1 - z \in T
  OBVIOUS
<1>5. ASSUME NEW y \in T PROVE n + 1 - z <= y
  <2>1. n + 1 - y <= z /\ y \in Nat /\ z \in Nat
    BY <1>1, <1>3
  <2> QED BY <2>1
<1> QED BY <1>4, <1>5

\* A block leaves the list.
LEMMA LeavesList ==
  ASSUME NEW sizes \in [Lists!Offsets -> Grains], NEW l \in Seq(Lists!Offsets),
         Apart(l, sizes), NEW k \in DOMAIN l
  PROVE  LET m == Lists!RemoveAt(l, k)
         IN  m \in Seq(Lists!Offsets) /\ Apart(m, sizes) /\ Members(m) = Members(l) \ {l[k]}
<1> DEFINE m == Lists!RemoveAt(l, k)
           At(i) == IF i < k THEN i ELSE i + 1
<1>1. Len(l) \in Nat /\ k \in 1 .. Len(l) /\ DOMAIN l = 1 .. Len(l)
  OBVIOUS
<1>2. /\ m \in Seq(Lists!Offsets) /\ Len(m) = Len(l) - 1
      /\ \A i \in 1 .. Len(l) - 1 : m[i] = IF i < k THEN l[i] ELSE l[i + 1]
  BY Dropped DEF Lists!RemoveAt
<1> HIDE DEF m
<1>3. /\ DOMAIN m = 1 .. Len(l) - 1
      /\ \A i \in DOMAIN m : At(i) \in DOMAIN l /\ m[i] = l[At(i)] /\ At(i) # k
  BY <1>1, <1>2
<1>4. \A i, j \in DOMAIN m : i < j => At(i) < At(j)
  BY <1>1, <1>2
<1>5. \A i \in DOMAIN l : i # k => \E j \in DOMAIN m : At(j) = i
  <2> SUFFICES ASSUME NEW i \in DOMAIN l, i # k PROVE \E j \in DOMAIN m : At(j) = i
    OBVIOUS
  <2>1. CASE i < k
    <3>1. i \in DOMAIN m
      BY <2>1, <1>1, <1>2
    <3> QED BY <3>1, <2>1
  <2>2. CASE i > k
    <3>1. i - 1 \in DOMAIN m /\ ~(i - 1 < k) /\ (i - 1) + 1 = i
      BY <2>2, <1>1, <1>2
    <3> QED BY <3>1
  <2> QED BY <2>1, <2>2, <1>1
<1> HIDE DEF At
<1>6. Apart(m, sizes)
  BY <1>3, <1>4 DEF Apart
<1>7. Distinct(l)
  BY ApartIs
<1>8. Members(m) = Members(l) \ {l[k]}
  <2>1. \A i \in DOMAIN m : m[i] \in Members(l) \ {l[k]}
    BY <1>3, <1>7 DEF Members, Distinct
  <2>2. \A i \in DOMAIN l : l[i] # l[k] => l[i] \in Members(m)
    BY <1>3, <1>5 DEF Members
  <2> QED BY <2>1, <2>2 DEF Members
<1> QED BY <1>2, <1>6, <1>8 DEF m

\* A block is split in two: it ends where the new one begins, which ends where it did.
LEMMA SplitTiles ==
  ASSUME NEW sizes \in [Lists!Offsets -> Grains], NEW bs, Tiles(bs, sizes), NEW b \in bs,
         NEW new \in Lists!Offsets, NEW to \in [Lists!Offsets -> Grains],
         b < new, new < Lists!End(sizes, b),
         \A o \in Lists!Offsets : o # b /\ o # new => to[o] = sizes[o],
         Lists!End(to, b) = new, Lists!End(to, new) = Lists!End(sizes, b)
  PROVE  new \notin bs /\ Tiles(bs \cup {new}, to)
<1>1. /\ b \in Lists!Offsets /\ b \in Nat /\ new \in Nat /\ Lists!End(sizes, b) \in Nat
  BY EndIs DEF Tiles
<1>2. new \notin bs
  <2>1. Within(sizes, b, new) /\ new # b
    BY <1>1 DEF Within
  <2>2. new \in bs => Within(sizes, new, new)
    BY BlockEnds
  <2> QED BY <2>1, <2>2, <1>1 DEF Tiles
<1>3. \A o \in bs : o # b => \A x \in Int : Within(to, o, x) <=> Within(sizes, o, x)
  BY <1>2 DEF Tiles, Within, Lists!End
<1>4. \A x \in Int : /\ Within(sizes, b, x) <=> Within(to, b, x) \/ Within(to, new, x)
                     /\ ~(Within(to, b, x) /\ Within(to, new, x))
  BY <1>1 DEF Within
<1>5. ASSUME NEW x \in Int
      PROVE  0 <= x /\ x < FIT_POOL_SIZE <=> \E o \in bs \cup {new} : Within(to, o, x)
  <2>1. 0 <= x /\ x < FIT_POOL_SIZE <=> \E o \in bs : Within(sizes, o, x)
    BY DEF Tiles
  <2>2. (\E o \in bs : Within(sizes, o, x))
        <=> (\E o \in bs \ {b} : Within(sizes, o, x)) \/ Within(sizes, b, x)
    OBVIOUS
  <2>3. (\E o \in bs \ {b} : Within(sizes, o, x)) <=> (\E o \in bs \ {b} : Within(to, o, x))
    BY <1>3
  <2>4. (\E o \in bs \cup {new} : Within(to, o, x))
        <=> (\E o \in bs \ {b} : Within(to, o, x)) \/ Within(to, b, x) \/ Within(to, new, x)
    OBVIOUS
  <2> QED BY <2>1, <2>2, <2>3, <2>4, <1>4
<1>6. ASSUME NEW o \in bs \cup {new}, NEW q \in bs \cup {new}, NEW x \in Int,
             Within(to, o, x), Within(to, q, x)
      PROVE  o = q
  <2> DEFINE Old(z) == IF z = new THEN b ELSE z
  <2>1. /\ Old(o) \in bs /\ Within(sizes, Old(o), x)
        /\ Old(q) \in bs /\ Within(sizes, Old(q), x)
    BY <1>3, <1>4, <1>6
  <2>2. Old(o) = Old(q)
    <3> HIDE DEF Old
    <3> QED BY <2>1 DEF Tiles
  <2>3. o # q => (o = b /\ q = new) \/ (o = new /\ q = b)
    BY <2>2, <1>2
  <2> QED BY <2>3, <1>4, <1>6
<1>7. bs \cup {new} \in SUBSET Lists!Offsets
  BY DEF Tiles
<1> QED BY <1>2, <1>5, <1>6, <1>7 DEF Tiles
\* A block is handed out whole.
LEMMA WholeAlloc ==
  ASSUME FitInv, NEW i \in DOMAIN free_list,
         free_list' = Lists!RemoveAt(free_list, i), fit_size' = fit_size,
         fit_live' = fit_live \cup {free_list[i] + FIT_HEADER}
  PROVE  FitInv'
<1> DEFINE b == free_list[i]
<1>1. /\ fit_size \in [Lists!Offsets -> Grains] /\ free_list \in Seq(Lists!Offsets)
      /\ Apart(free_list, fit_size)
      /\ \A p \in fit_live : /\ p \in Nat /\ p - FIT_HEADER \in Lists!Offsets
                             /\ p - FIT_HEADER \notin Members(free_list)
      /\ Tiles(Members(free_list) \cup Handed(fit_live), fit_size)
  BY DEF FitInv
<1>2. /\ free_list' \in Seq(Lists!Offsets) /\ Apart(free_list', fit_size')
      /\ Members(free_list') = Members(free_list) \ {b}
  BY <1>1, LeavesList
<1>3. b \in Lists!Offsets /\ b \in Members(free_list) /\ b \in Nat /\ FIT_HEADER \in Nat
  <2>1. b \in Lists!Offsets /\ b \in Members(free_list)
    BY <1>1 DEF Members
  <2> QED BY <2>1, <1>1, EndIs, GrainsAre
<1> HIDE DEF b
<1>4. fit_live' = fit_live \cup {b + FIT_HEADER}
  BY DEF b
<1>5. b + FIT_HEADER \in Nat /\ (b + FIT_HEADER) - FIT_HEADER = b
  BY <1>3
<1>6. \A p \in fit_live' : /\ p \in Nat /\ p - FIT_HEADER \in Lists!Offsets
                           /\ p - FIT_HEADER \notin Members(free_list')
  BY <1>1, <1>2, <1>3, <1>4, <1>5
<1>7. Members(free_list') \cup Handed(fit_live') = Members(free_list) \cup Handed(fit_live)
  <2>1. Handed(fit_live') = Handed(fit_live) \cup {b}
    BY <1>4, <1>5 DEF Handed
  <2> QED BY <2>1, <1>2, <1>3
<1>8. Tiles(Members(free_list') \cup Handed(fit_live'), fit_size')
  BY <1>1, <1>7
<1>9. Members(free_list)' = Members(free_list') /\ Handed(fit_live)' = Handed(fit_live')
      /\ (Apart(free_list, fit_size)' <=> Apart(free_list', fit_size'))
      /\ (Tiles(Members(free_list) \cup Handed(fit_live), fit_size)'
            <=> Tiles(Members(free_list') \cup Handed(fit_live'), fit_size'))
  BY DEF Members, Handed, Apart, Tiles, Within, Lists!End
<1> QED BY <1>1, <1>2, <1>6, <1>8, <1>9 DEF FitInv

\* A block is split, and its first part handed out.
LEMMA SplitAlloc ==
  ASSUME FitInv, NEW i \in DOMAIN free_list, NEW n \in Grains,
         NEW rest, rest = fit_size[free_list[i]] - n, rest >= FIT_HEADER + ALIGNMENT,
         NEW new, new = free_list[i] + FIT_HEADER + n,
         free_list' = [free_list EXCEPT ![i] = new],
         fit_size' = [fit_size EXCEPT ![free_list[i]] = n, ![new] = rest - FIT_HEADER],
         fit_live' = fit_live \cup {free_list[i] + FIT_HEADER}
  PROVE  FitInv'
<1> DEFINE b  == free_list[i]
           bs == Members(free_list) \cup Handed(fit_live)
<1>1. /\ fit_size \in [Lists!Offsets -> Grains] /\ free_list \in Seq(Lists!Offsets)
      /\ Apart(free_list, fit_size) /\ Tiles(bs, fit_size)
      /\ \A p \in fit_live : /\ p \in Nat /\ p - FIT_HEADER \in Lists!Offsets
                             /\ p - FIT_HEADER \notin Members(free_list)
  BY DEF FitInv
<1>2. b \in Lists!Offsets /\ b \in Members(free_list) /\ b \in bs
  BY <1>1 DEF Members
<1> HIDE DEF b, bs
<1>3. /\ b \in Nat /\ b \in Grains /\ n \in Nat /\ fit_size[b] \in Nat /\ fit_size[b] \in Grains
      /\ FIT_HEADER \in Nat /\ FIT_HEADER > 0 /\ FIT_HEADER \in Grains /\ ALIGNMENT \in Nat \ {0}
      /\ FIT_POOL_SIZE \in Nat
  <2>1. b \in Grains /\ fit_size[b] \in Grains
    BY <1>1, <1>2, OffsetsAre
  <2> QED BY <2>1, GrainsAre
<1>4. new = b + FIT_HEADER + n /\ rest = fit_size[b] - n
  BY DEF b
<1>5. /\ rest \in Grains /\ rest \in Nat /\ rest - FIT_HEADER \in Grains
      /\ rest - FIT_HEADER \in Nat /\ new \in Grains /\ new \in Nat
  <2>1. fit_size[b] >= n /\ rest >= FIT_HEADER
    BY <1>3, <1>4
  <2>2. rest \in Grains
    BY <2>1, <1>3, <1>4, GrainsAre
  <2>3. rest - FIT_HEADER \in Grains
    BY <2>1, <2>2, <1>3, GrainsAre
  <2>4. b + FIT_HEADER \in Grains
    BY <1>3, GrainsAre
  <2>5. new \in Grains
    BY <2>4, <1>4, GrainsAre
  <2> QED BY <2>2, <2>3, <2>5, GrainsAre
<1>6. Lists!End(fit_size, b) = b + FIT_HEADER + fit_size[b] /\ Lists!End(fit_size, b) <= FIT_POOL_SIZE
  BY <1>1, <1>2, EndIs, BlockEnds
<1>7. b < new /\ new < Lists!End(fit_size, b) /\ new < FIT_POOL_SIZE
      /\ new + FIT_HEADER + (rest - FIT_HEADER) = Lists!End(fit_size, b)
  BY <1>3, <1>4, <1>5, <1>6
<1>8. new \in Lists!Offsets /\ new # b
  BY <1>3, <1>5, <1>7, OffsetsAre
<1>9. /\ fit_size' \in [Lists!Offsets -> Grains] /\ fit_size'[b] = n
      /\ fit_size'[new] = rest - FIT_HEADER
      /\ \A o \in Lists!Offsets : o # b /\ o # new => fit_size'[o] = fit_size[o]
  <2>1. fit_size' = [fit_size EXCEPT ![b] = n, ![new] = rest - FIT_HEADER]
    BY DEF b
  <2> QED BY <2>1, <1>1, <1>2, <1>5, <1>8
<1>10. /\ Lists!End(fit_size', b) = new
       /\ Lists!End(fit_size', new) = Lists!End(fit_size, b)
  BY <1>4, <1>7, <1>9 DEF Lists!End
<1>11. new \notin bs /\ Tiles(bs \cup {new}, fit_size')
  <2> DEFINE sizes == fit_size
             to    == fit_size'
  <2>1. /\ sizes \in [Lists!Offsets -> Grains] /\ to \in [Lists!Offsets -> Grains]
        /\ Tiles(bs, sizes) /\ b \in bs /\ new \in Lists!Offsets
    BY <1>1, <1>2, <1>8, <1>9
  <2>2. /\ b < new /\ new < Lists!End(sizes, b)
        /\ \A o \in Lists!Offsets : o # b /\ o # new => to[o] = sizes[o]
    BY <1>7, <1>9
  <2>3. Lists!End(to, b) = new /\ Lists!End(to, new) = Lists!End(sizes, b)
    BY <1>10
  <2> HIDE DEF sizes, to
  <2>4. new \notin bs /\ Tiles(bs \cup {new}, to)
    BY <2>1, <2>2, <2>3, SplitTiles
  <2> QED BY <2>4 DEF to
<1>12. /\ free_list' \in Seq(Lists!Offsets) /\ DOMAIN free_list' = DOMAIN free_list
       /\ free_list'[i] = new /\ \A j \in DOMAIN free_list : j # i => free_list'[j] = free_list[j]
  BY <1>1, <1>8
<1>13. Ascending(free_list) /\ Distinct(free_list) /\ free_list[i] = b
  BY <1>1, ApartIs DEF b
<1>14. Members(free_list') = (Members(free_list) \ {b}) \cup {new}
  <2>1. \A j \in DOMAIN free_list : j # i => free_list[j] # b
    BY <1>13 DEF Distinct
  <2> QED BY <2>1, <1>12, <1>13 DEF Members
<1>15. \A j \in DOMAIN free_list : j # i =>
         /\ free_list[j] \in Lists!Offsets /\ free_list[j] # b /\ free_list[j] # new
         /\ Lists!End(fit_size', free_list[j]) = Lists!End(fit_size, free_list[j])
  <2> SUFFICES ASSUME NEW j \in DOMAIN free_list, j # i
               PROVE  /\ free_list[j] \in Lists!Offsets /\ free_list[j] # b /\ free_list[j] # new
                      /\ Lists!End(fit_size', free_list[j]) = Lists!End(fit_size, free_list[j])
    OBVIOUS
  <2>1. free_list[j] \in Lists!Offsets /\ free_list[j] \in bs /\ free_list[j] # b
    BY <1>1, <1>13 DEF Distinct, bs, Members
  <2>2. free_list[j] # new
    BY <2>1, <1>11
  <2> QED BY <2>1, <2>2, <1>9 DEF Lists!End
<1>16. Apart(free_list', fit_size')
  <2> SUFFICES ASSUME NEW x \in DOMAIN free_list, NEW y \in DOMAIN free_list, x < y
               PROVE  Lists!End(fit_size', free_list'[x]) < free_list'[y]
    BY <1>12 DEF Apart
  <2>1. Lists!End(fit_size, free_list[x]) < free_list[y]
    BY <1>1 DEF Apart
  <2>2. x = i \/ x # i
    OBVIOUS
  <2>3. CASE x = i
    <3>1. y # i
      BY <2>3, <1>1
    <3> QED BY <3>1, <2>1, <2>3, <1>10, <1>12, <1>13
  <2>4. CASE x # i /\ y = i
    <3>1. Lists!End(fit_size', free_list'[x]) = Lists!End(fit_size, free_list[x])
      BY <2>4, <1>12, <1>15
    <3>2. Lists!End(fit_size, free_list[x]) < b /\ free_list'[y] = new
      BY <2>1, <2>4, <1>12, <1>13
    <3>3. Lists!End(fit_size, free_list[x]) \in Nat
      BY <2>4, <1>1, <1>15, EndIs
    <3> QED BY <3>1, <3>2, <3>3, <1>3, <1>5, <1>7
  <2>5. CASE x # i /\ y # i
    BY <2>1, <2>5, <1>12, <1>15
  <2> QED BY <2>3, <2>4, <2>5
<1>17. fit_live' = fit_live \cup {b + FIT_HEADER} /\ b + FIT_HEADER \in Nat
       /\ (b + FIT_HEADER) - FIT_HEADER = b
  BY <1>3 DEF b
<1>18. Handed(fit_live') = Handed(fit_live) \cup {b}
  BY <1>17 DEF Handed
<1>19. Members(free_list') \cup Handed(fit_live') = bs \cup {new}
  BY <1>2, <1>14, <1>18 DEF bs
<1>20. \A p \in fit_live' : /\ p \in Nat /\ p - FIT_HEADER \in Lists!Offsets
                            /\ p - FIT_HEADER \notin Members(free_list')
  <2>1. \A p \in fit_live : p - FIT_HEADER \in bs
    BY DEF bs, Handed
  <2>2. \A p \in fit_live : p - FIT_HEADER # new
    BY <2>1, <1>11
  <2> QED BY <2>2, <1>1, <1>2, <1>8, <1>14, <1>17
<1>21. Tiles(Members(free_list') \cup Handed(fit_live'), fit_size')
  BY <1>11, <1>19
<1>22. Members(free_list)' = Members(free_list') /\ Handed(fit_live)' = Handed(fit_live')
       /\ (Apart(free_list, fit_size)' <=> Apart(free_list', fit_size'))
       /\ (Tiles(Members(free_list) \cup Handed(fit_live), fit_size)'
             <=> Tiles(Members(free_list') \cup Handed(fit_live'), fit_size'))
  BY DEF Members, Handed, Apart, Tiles, Within, Lists!End
<1> QED BY <1>9, <1>12, <1>16, <1>20, <1>21, <1>22 DEF FitInv

LEMMA AllocFits ==
  ASSUME FitInv, NEW n \in FIT_REQUESTS, Lists!free_list_alloc(n)
  PROVE  FitInv'
<1> DEFINE m    == Lists!align_up(n)
           fits == {i \in DOMAIN free_list : fit_size[free_list[i]] >= m}
           k    == CHOOSE x \in fits : \A y \in fits : x <= y
           rest == fit_size[free_list[k]] - m
           new  == free_list[k] + FIT_HEADER + m
<1>1. /\ fits # {}
      /\ IF rest >= FIT_HEADER + ALIGNMENT
         THEN /\ free_list' = [free_list EXCEPT ![k] = new]
              /\ fit_size' = [fit_size EXCEPT ![free_list[k]] = m, ![new] = rest - FIT_HEADER]
         ELSE /\ free_list' = Lists!RemoveAt(free_list, k)
              /\ UNCHANGED fit_size
      /\ fit_live' = fit_live \cup {free_list[k] + FIT_HEADER}
  BY DEF Lists!free_list_alloc
<1>2. m \in Grains
  BY GrainsAre
<1>3. k \in fits
  <2>1. Len(free_list) \in Nat /\ fits \in SUBSET (1 .. Len(free_list))
    BY DEF FitInv
  <2> HIDE DEF fits
  <2>2. \E x \in fits : \A y \in fits : x <= y
    BY <2>1, <1>1, SmallestExists
  <2> QED BY <2>2
<1>4. k \in DOMAIN free_list
  BY <1>3
<1> HIDE DEF k, m
<1>5. CASE rest >= FIT_HEADER + ALIGNMENT
  BY <1>1, <1>2, <1>4, <1>5, SplitAlloc
<1>6. CASE ~(rest >= FIT_HEADER + ALIGNMENT)
  BY <1>1, <1>4, <1>6, WholeAlloc
<1> QED BY <1>5, <1>6
\* What the blocks of one place hold, the blocks of the other hold, and those handed out
\* keep their sizes: the pool is as full as it was.
LEMMA MergedTiles ==
  ASSUME NEW sizes \in [Lists!Offsets -> Grains], NEW l \in Seq(Lists!Offsets),
         NEW out, Tiles(Members(l) \cup out, sizes), Members(l) \cap out = {},
         NEW acc, MergedUpTo(acc, Len(l), l, sizes)
  PROVE  /\ Members(acc.list) \subseteq Members(l)
         /\ Tiles(Members(acc.list) \cup out, acc.size)
<1> DEFINE m  == acc.list
           to == acc.size
           bs == Members(l) \cup out
<1>1. /\ m \in Seq(Lists!Offsets) /\ to \in [Lists!Offsets -> Grains] /\ Apart(m, to)
      /\ \A j \in DOMAIN m : \E k \in 1 .. Len(l) : m[j] = l[k]
      /\ \A o \in Lists!Offsets : (\A k \in 1 .. Len(l) : l[k] # o) => to[o] = sizes[o]
      /\ \A x \in Int : (\E k \in 1 .. Len(l) : Within(sizes, l[k], x))
                        <=> (\E j \in DOMAIN m : Within(to, m[j], x))
  BY DEF MergedUpTo
<1>2. DOMAIN l = 1 .. Len(l) /\ bs \in SUBSET Lists!Offsets
  BY DEF Tiles
<1> HIDE DEF m, to
<1>3. Members(m) \subseteq Members(l)
  BY <1>1, <1>2 DEF Members
<1>4. \A x \in Int : (\E b \in Members(l) : Within(sizes, b, x))
                     <=> (\E b \in Members(m) : Within(to, b, x))
  BY <1>1, <1>2 DEF Members
<1>5. \A b \in out : \A x \in Int : Within(to, b, x) <=> Within(sizes, b, x)
  <2> SUFFICES ASSUME NEW b \in out PROVE to[b] = sizes[b]
    BY DEF Within, Lists!End
  <2>1. \A k \in 1 .. Len(l) : l[k] # b
    BY <1>2 DEF Members
  <2> QED BY <2>1, <1>1, <1>2
<1>6. \A b \in Members(m) : \A c \in Members(m) : \A x \in Int :
        Within(to, b, x) /\ Within(to, c, x) => b = c
  <2> SUFFICES ASSUME NEW i \in DOMAIN m, NEW j \in DOMAIN m, NEW x \in Int,
                      Within(to, m[i], x), Within(to, m[j], x)
               PROVE  m[i] = m[j]
    BY DEF Members
  <2>1. /\ m[i] \in Nat /\ m[j] \in Nat
        /\ Lists!End(to, m[i]) \in Nat /\ Lists!End(to, m[j]) \in Nat
    <3>1. m[i] \in Lists!Offsets /\ m[j] \in Lists!Offsets
      BY <1>1
    <3> QED BY <3>1, <1>1, EndIs
  <2>2. i < j => Lists!End(to, m[i]) < m[j]
    BY <1>1 DEF Apart
  <2>3. j < i => Lists!End(to, m[j]) < m[i]
    BY <1>1 DEF Apart
  <2>4. i \in Nat /\ j \in Nat
    BY <1>1
  <2>5. ~(i < j)
    BY <2>1, <2>2 DEF Within
  <2>6. ~(j < i)
    BY <2>1, <2>3 DEF Within
  <2> QED BY <2>4, <2>5, <2>6
<1>7. ASSUME NEW b \in Members(m), NEW c \in out, NEW x \in Int,
             Within(to, b, x), Within(to, c, x)
      PROVE  FALSE
  <2>1. PICK d \in Members(l) : Within(sizes, d, x)
    BY <1>4, <1>7
  <2>2. Within(sizes, c, x)
    BY <1>5, <1>7
  <2>3. d = c
    BY <2>1, <2>2 DEF Tiles
  <2> QED BY <2>1, <2>3
<1>8. \A b, c \in Members(m) \cup out : \A x \in Int :
        Within(to, b, x) /\ Within(to, c, x) => b = c
  <2>1. \A b, c \in out : \A x \in Int : Within(to, b, x) /\ Within(to, c, x) => b = c
    BY <1>5 DEF Tiles
  <2> QED BY <2>1, <1>6, <1>7
<1>9. ASSUME NEW x \in Int
      PROVE  0 <= x /\ x < FIT_POOL_SIZE <=> \E b \in Members(m) \cup out : Within(to, b, x)
  <2>1. 0 <= x /\ x < FIT_POOL_SIZE <=> \E b \in bs : Within(sizes, b, x)
    BY DEF Tiles
  <2>2. (\E b \in bs : Within(sizes, b, x))
        <=> (\E b \in Members(l) : Within(sizes, b, x)) \/ (\E b \in out : Within(sizes, b, x))
    OBVIOUS
  <2>3. (\E b \in Members(m) \cup out : Within(to, b, x))
        <=> (\E b \in Members(m) : Within(to, b, x)) \/ (\E b \in out : Within(to, b, x))
    OBVIOUS
  <2>4. (\E b \in out : Within(sizes, b, x)) <=> (\E b \in out : Within(to, b, x))
    BY <1>5
  <2> QED BY <2>1, <2>2, <2>3, <2>4, <1>4
<1>10. Members(m) \cup out \in SUBSET Lists!Offsets
  BY <1>2, <1>3
<1> QED BY <1>3, <1>8, <1>9, <1>10 DEF Tiles, m, to

LEMMA FreeMerges ==
  ASSUME FitInv, NEW p \in fit_live, Lists!free_list_free(p)
  PROVE  FitInv'
<1> DEFINE b   == p - FIT_HEADER
           l   == Lists!insert_free_block(free_list, b)
           acc == Lists!coalesce(l, fit_size)
           out == Handed(fit_live')
<1>1. /\ fit_size \in [Lists!Offsets -> Grains] /\ free_list \in Seq(Lists!Offsets)
      /\ Apart(free_list, fit_size) /\ Tiles(Members(free_list) \cup Handed(fit_live), fit_size)
      /\ \A q \in fit_live : /\ q \in Nat /\ q - FIT_HEADER \in Lists!Offsets
                             /\ q - FIT_HEADER \notin Members(free_list)
  BY DEF FitInv
<1>2. free_list' = acc.list /\ fit_size' = acc.size /\ fit_live' = fit_live \ {p}
  BY DEF Lists!free_list_free, Lists!Return
<1>3. b \in Lists!Offsets /\ b \notin Members(free_list) /\ Ascending(free_list)
  BY <1>1, ApartIs
<1> HIDE DEF b
<1>4. l \in Seq(Lists!Offsets) /\ Ascending(l) /\ Members(l) = Members(free_list) \cup {b}
  BY <1>1, <1>3, Inserted
<1>5. Handed(fit_live) = out \cup {b} /\ b \notin out
  <2>1. \A q \in fit_live : q - FIT_HEADER = b => q = p
    <3>1. \A q \in fit_live : q \in Nat
      BY <1>1
    <3>2. p \in Nat /\ FIT_HEADER \in Nat
      BY <1>1, GrainsAre
    <3> QED BY <3>1, <3>2 DEF b
  <2> QED BY <2>1, <1>2 DEF Handed, b
<1>6. Members(l) \cup out = Members(free_list) \cup Handed(fit_live)
  BY <1>4, <1>5
<1>7. Members(l) \cap out = {}
  <2>1. \A o \in out : o \notin Members(free_list)
    BY <1>1, <1>2 DEF Handed
  <2> QED BY <2>1, <1>4, <1>5
<1> HIDE DEF l, out, acc
<1>8. Tiles(Members(l) \cup out, fit_size)
  BY <1>1, <1>6
<1>9. Ordered(l, fit_size)
  <2> SUFFICES ASSUME NEW i \in DOMAIN l, NEW j \in DOMAIN l, i < j
               PROVE  Lists!End(fit_size, l[i]) <= l[j]
    BY DEF Ordered
  <2>1. l[i] < l[j] /\ l[i] \in Members(l) \cup out /\ l[j] \in Members(l) \cup out
    BY <1>4 DEF Ascending, Members
  <2> QED BY <2>1, <1>1, <1>8, BlockEnds
<1>10. MergedUpTo(acc, Len(l), l, fit_size)
  BY <1>1, <1>4, <1>9, Coalesced DEF acc
<1>11. Members(acc.list) \subseteq Members(l) /\ Tiles(Members(acc.list) \cup out, acc.size)
  BY <1>1, <1>4, <1>7, <1>8, <1>10, MergedTiles
<1>12. /\ acc.list \in Seq(Lists!Offsets) /\ acc.size \in [Lists!Offsets -> Grains]
       /\ Apart(acc.list, acc.size)
  BY <1>10 DEF MergedUpTo
<1>13. \A q \in fit_live' : /\ q \in Nat /\ q - FIT_HEADER \in Lists!Offsets
                            /\ q - FIT_HEADER \notin Members(acc.list)
  <2>1. \A q \in fit_live' : q \in fit_live /\ q - FIT_HEADER \in out
    BY <1>2 DEF out, Handed
  <2> QED BY <2>1, <1>1, <1>7, <1>11
<1>14. /\ Members(free_list)' = Members(acc.list) /\ Handed(fit_live)' = out
       /\ (Apart(free_list, fit_size)' <=> Apart(acc.list, acc.size))
       /\ (Tiles(Members(free_list) \cup Handed(fit_live), fit_size)'
             <=> Tiles(Members(acc.list) \cup out, acc.size))
  BY <1>2 DEF Members, Handed, Apart, Tiles, Within, Lists!End, out
<1> QED BY <1>2, <1>11, <1>12, <1>13, <1>14 DEF FitInv

LEMMA FitInductive ==
  ASSUME FitInv, Lists!FitNext \/ UNCHANGED fit_vars
  PROVE  FitInv'
<1>1. CASE UNCHANGED fit_vars
  BY <1>1 DEF fit_vars, FitInv, Members, Handed, Apart, Tiles, Within, Lists!End
<1>2. CASE Lists!FitNext
  BY <1>2, AllocFits, FreeMerges DEF Lists!FitNext
<1> QED BY <1>1, <1>2
-----------------------------------------------------------------------------
(* Day 25: the buffer pool *)

PageIds == Manager!PageIds
Frames  == Manager!Frames
Pairs   == [1 .. 2 -> Int]
PoolStates ==
  [disk : [PageIds -> Pairs], page : [Frames -> PageIds \cup {NoPage}], data : [Frames -> Pairs],
   pin : [Frames -> Nat], dirty : [Frames -> BOOLEAN], free : Seq(Frames), lru : Seq(Frames),
   empty : BOOLEAN, lost : SUBSET PageIds, torn : BOOLEAN]

\* Each frame is free or holds a page of its own, and a clean page that nobody is writing
\* is as it is on disk.  A page somebody is writing is pinned.
PoolOK(s, writing) ==
  /\ s \in PoolStates
  /\ Distinct(s.free) /\ Distinct(s.lru) /\ Len(s.free) + Len(s.lru) = CACHE_CAPACITY
  /\ Members(s.free) \cup Members(s.lru) = Frames
  /\ \A f \in Frames : s.page[f] = NoPage <=> f \in Members(s.free)
  /\ \A f \in Frames : s.page[f] # NoPage <=> f \in Members(s.lru)
  /\ \A f, g \in Members(s.lru) : s.page[f] = s.page[g] => f = g
  /\ \A f \in Members(s.free) : ~s.dirty[f]
  /\ \A f \in Members(s.lru) :
       s.dirty[f] \/ s.page[f] \in writing \/ s.disk[s.page[f]] = s.data[f]
  /\ \A p \in writing : \E f \in Members(s.lru) : s.page[f] = p /\ s.pin[f] > 0
  /\ s.empty => s.disk = [p \in PageIds |-> <<0, 0>>]

\* What a fetch of p will show, and the pins p has.
Shown(s, p) == IF Manager!InTable(s, p) THEN Manager!Data(s, p) ELSE s.disk[p]
PinsOn(s, p) == IF Manager!InTable(s, p) THEN s.pin[Manager!FrameOf(s, p)] ELSE 0

\* In t every page shows what it showed in s, if no failed write lost it.
Survives(s, t) ==
  /\ s.lost \subseteq t.lost /\ (s.torn => t.torn)
  /\ \A p \in PageIds :
       \/ Shown(t, p) = Shown(s, p)
       \/ p \in allotted /\ p \in t.lost
       \/ p \notin allotted /\ t.torn

LEMMA BufferConstants ==
  /\ CACHE_CAPACITY \in Nat \ {0} /\ LastPage \in Nat \ {0}
  /\ NoPage \notin PageIds /\ WriteMayFail \in BOOLEAN
  /\ PageIds = 0 .. LastPage /\ Frames = 1 .. CACHE_CAPACITY
  /\ 0 \in PageIds /\ 1 \in Frames /\ PageIds \subseteq Nat
BY BuffersUsable
   DEF Manager!BufferPoolAssumption, PageIds, Manager!PageIds, Frames, Manager!Frames

LEMMA GuardsFinite == IsFiniteSet(Guards)
<1>1. \A S : Manager!IsFiniteSet(S) = IsFiniteSet(S)
  BY DEF Manager!IsFiniteSet, IsFiniteSet
<1> QED BY <1>1, BuffersUsable DEF Manager!BufferPoolAssumption

\* The frame that the page table gives for a page.
LEMMA FrameIs ==
  ASSUME NEW s, NEW writing, PoolOK(s, writing)
  PROVE  /\ \A p \in PageIds : Manager!InTable(s, p) =>
              /\ Manager!FrameOf(s, p) \in Members(s.lru) /\ Manager!FrameOf(s, p) \in Frames
              /\ s.page[Manager!FrameOf(s, p)] = p
         /\ \A f \in Members(s.lru) :
              /\ f \in Frames /\ s.page[f] \in PageIds /\ Manager!InTable(s, s.page[f])
              /\ Manager!FrameOf(s, s.page[f]) = f
<1>1. /\ s.page \in [Frames -> PageIds \cup {NoPage}]
      /\ \A f \in Frames : s.page[f] # NoPage <=> f \in Members(s.lru)
      /\ \A f, g \in Members(s.lru) : s.page[f] = s.page[g] => f = g
      /\ Members(s.lru) \subseteq Frames /\ NoPage \notin PageIds
  BY BufferConstants DEF PoolOK, PoolStates
<1>2. ASSUME NEW p \in PageIds, Manager!InTable(s, p)
      PROVE  /\ Manager!FrameOf(s, p) \in Members(s.lru) /\ Manager!FrameOf(s, p) \in Frames
             /\ s.page[Manager!FrameOf(s, p)] = p
  <2>1. \E f \in Manager!Frames : s.page[f] = p
    BY <1>2 DEF Manager!InTable
  <2>2. Manager!FrameOf(s, p) \in Frames /\ s.page[Manager!FrameOf(s, p)] = p
    BY <2>1 DEF Manager!FrameOf, Frames
  <2> QED BY <2>2, <1>1
<1>3. ASSUME NEW f \in Members(s.lru)
      PROVE  /\ f \in Frames /\ s.page[f] \in PageIds /\ Manager!InTable(s, s.page[f])
             /\ Manager!FrameOf(s, s.page[f]) = f
  <2>1. f \in Frames /\ s.page[f] \in PageIds
    BY <1>1
  <2>2. Manager!InTable(s, s.page[f])
    BY <2>1 DEF Manager!InTable, Frames
  <2>3. Manager!FrameOf(s, s.page[f]) = f
    BY <1>1, <1>2, <2>1, <2>2
  <2> QED BY <2>1, <2>2, <2>3
<1> QED BY <1>2, <1>3

\* With the same pages in the same frames, the table is the same.
LEMMA SameTable ==
  ASSUME NEW s, NEW t, t.page = s.page
  PROVE  \A p : /\ Manager!InTable(t, p) = Manager!InTable(s, p)
                /\ Manager!FrameOf(t, p) = Manager!FrameOf(s, p)
BY DEF Manager!InTable, Manager!FrameOf

\* Taking a frame off a list that may not have it.
LEMMA WithoutFirst ==
  ASSUME NEW S, NEW l \in Seq(S), NEW f, Distinct(l)
  PROVE  LET m == Manager!RemoveFirst(l, f)
         IN  /\ m \in Seq(S) /\ Distinct(m) /\ Members(m) = Members(l) \ {f}
             /\ Len(m) = IF f \in Members(l) THEN Len(l) - 1 ELSE Len(l)
<1>1. CASE f \in Members(l)
  <2>1. Manager!RemoveFirst(l, f) = Pages!Unlink(l, f)
    BY DEF Manager!RemoveFirst, Manager!RemoveAt, Manager!SelectInSeq, Manager!Min,
           Pages!Unlink, Pages!RemoveFirst, Pages!RemoveAt, Pages!SelectInSeq, Pages!Min
  <2> DEFINE m == Pages!Unlink(l, f)
  <2>2. /\ m \in Seq(S) /\ Distinct(m) /\ Members(m) = Members(l) \ {f}
        /\ Len(m) = Len(l) - 1
    BY <1>1, Unlinked
  <2> HIDE DEF m
  <2> QED BY <1>1, <2>1, <2>2 DEF m
<1>2. CASE f \notin Members(l)
  <2>1. Manager!RemoveFirst(l, f) = l
    BY <1>2 DEF Manager!RemoveFirst, Members
  <2> QED BY <1>2, <2>1
<1> QED BY <1>1, <1>2

\* A frame that is used again goes to the front.
LEMMA TouchKeeps ==
  ASSUME NEW s, NEW writing, PoolOK(s, writing), NEW f \in Members(s.lru)
  PROVE  LET t == Manager!TouchLRU(s, f)
         IN  /\ PoolOK(t, writing) /\ t.page = s.page /\ t.data = s.data /\ t.pin = s.pin
             /\ t.dirty = s.dirty /\ t.disk = s.disk /\ t.lost = s.lost /\ t.torn = s.torn
             /\ t.free = s.free /\ Members(t.lru) = Members(s.lru)
<1> DEFINE m == Manager!RemoveFirst(s.lru, f)
           l == <<f>> \o m
           t == [s EXCEPT !.lru = l]
<1>1. /\ s.lru \in Seq(Frames) /\ Distinct(s.lru) /\ f \in Frames /\ s \in PoolStates
      /\ Len(s.lru) \in Nat /\ f \in Members(s.lru)
  BY DEF PoolOK, PoolStates
<1>2. /\ m \in Seq(Frames) /\ Distinct(m) /\ Members(m) = Members(s.lru) \ {f}
      /\ Len(m) = Len(s.lru) - 1
  BY <1>1, WithoutFirst
<1>3. t = Manager!TouchLRU(s, f)
  BY DEF Manager!TouchLRU
<1> HIDE DEF m
<1>4. /\ l \in Seq(Frames) /\ Distinct(l) /\ Members(l) = Members(m) \cup {f}
      /\ Len(l) = Len(m) + 1
  BY <1>1, <1>2, InFront
<1>5. Members(l) = Members(s.lru) /\ Len(l) = Len(s.lru)
  <2>1. Members(l) = Members(s.lru)
    BY <1>1, <1>2, <1>4
  <2>2. Len(l) = Len(s.lru)
    BY <1>1, <1>2, <1>4
  <2> QED BY <2>1, <2>2
<1> HIDE DEF l
<1>6. /\ t \in PoolStates /\ t.lru = l
      /\ t.page = s.page /\ t.data = s.data /\ t.pin = s.pin
      /\ t.dirty = s.dirty /\ t.disk = s.disk /\ t.lost = s.lost /\ t.torn = s.torn
      /\ t.free = s.free /\ t.empty = s.empty
  BY <1>1, <1>4 DEF PoolStates
<1> HIDE DEF t
<1>7. PoolOK(t, writing)
  <2>1. /\ Distinct(t.lru) /\ Len(t.lru) = Len(s.lru) /\ Members(t.lru) = Members(s.lru)
        /\ t \in PoolStates
    BY <1>4, <1>5, <1>6
  <2>2. /\ Distinct(t.free) /\ Len(t.free) + Len(t.lru) = CACHE_CAPACITY
        /\ Members(t.free) \cup Members(t.lru) = Frames
        /\ t.empty => t.disk = [p \in PageIds |-> <<0, 0>>]
    BY <1>6, <2>1 DEF PoolOK
  <2>3. /\ \A k \in Frames : t.page[k] = NoPage <=> k \in Members(t.free)
        /\ \A k \in Frames : t.page[k] # NoPage <=> k \in Members(t.lru)
        /\ \A k, g \in Members(t.lru) : t.page[k] = t.page[g] => k = g
        /\ \A k \in Members(t.free) : ~t.dirty[k]
    BY <1>6, <2>1 DEF PoolOK
  <2>4. \A k \in Members(t.lru) :
          t.dirty[k] \/ t.page[k] \in writing \/ t.disk[t.page[k]] = t.data[k]
    BY <1>6, <2>1 DEF PoolOK
  <2>5. \A p \in writing : \E k \in Members(t.lru) : t.page[k] = p /\ t.pin[k] > 0
    BY <1>6, <2>1 DEF PoolOK
  <2> QED BY <2>1, <2>2, <2>3, <2>4, <2>5 DEF PoolOK
<1> QED BY <1>3, <1>5, <1>6, <1>7

\* A flush that succeeds brings the disk up to date; one that fails changes nothing.
LEMMA PageFlushed ==
  ASSUME NEW s, NEW writing, PoolOK(s, writing), NEW p \in PageIds, Manager!InTable(s, p),
         NEW t \in Manager!FlushPage(s, p)
  PROVE  /\ PoolOK(t, writing) /\ t.page = s.page /\ t.pin = s.pin /\ t.lost = s.lost
         /\ t.torn = s.torn /\ t.free = s.free /\ t.lru = s.lru
         /\ \A q \in PageIds : Shown(t, q) = Shown(s, q) /\ PinsOn(t, q) = PinsOn(s, q)
<1> DEFINE f == Manager!FrameOf(s, p)
<1>1. f \in Members(s.lru) /\ f \in Frames /\ s.page[f] = p /\ s \in PoolStates
  <2>1. s \in PoolStates
    BY DEF PoolOK
  <2> QED BY <2>1, FrameIs
<1>2. CASE t = s
  BY <1>2
<1>3. CASE t = [s EXCEPT !.disk[p] = s.data[f], !.dirty[f] = FALSE, !.empty = FALSE]
  <2> HIDE DEF f
  <2>1. /\ t.page = s.page /\ t.pin = s.pin /\ t.lost = s.lost /\ t.data = s.data
        /\ t.torn = s.torn /\ t.free = s.free /\ t.lru = s.lru /\ t.empty = FALSE
    BY <1>1, <1>3 DEF PoolStates
  <2>2. t.disk = [s.disk EXCEPT ![p] = s.data[f]] /\ t.dirty = [s.dirty EXCEPT ![f] = FALSE]
    BY <1>1, <1>3 DEF PoolStates
  <2>3. t \in PoolStates
    <3> DEFINE d == [s.disk EXCEPT ![p] = s.data[f]]
               y == [s.dirty EXCEPT ![f] = FALSE]
    <3>1. d \in [PageIds -> Pairs] /\ y \in [Frames -> BOOLEAN]
      BY <1>1 DEF PoolStates
    <3>2. t = [s EXCEPT !.disk = d, !.dirty = y, !.empty = FALSE]
      BY <1>3
    <3> HIDE DEF d, y
    <3> QED BY <1>1, <3>1, <3>2 DEF PoolStates
  <2>4. \A q \in PageIds : t.disk[q] = IF q = p THEN s.data[f] ELSE s.disk[q]
    BY <1>1, <2>2 DEF PoolStates
  <2>5. \A g \in Frames : t.dirty[g] = IF g = f THEN FALSE ELSE s.dirty[g]
    BY <1>1, <2>2 DEF PoolStates
  <2>6. \A g \in Members(s.lru) :
          /\ g \in Frames /\ s.page[g] \in PageIds /\ (s.page[g] = p => g = f)
          /\ s.dirty[g] \/ s.page[g] \in writing \/ s.disk[s.page[g]] = s.data[g]
    <3>1. \A g \in Members(s.lru) : g \in Frames /\ s.page[g] \in PageIds
      BY FrameIs
    <3> QED BY <1>1, <3>1 DEF PoolOK
  <2>7. ASSUME NEW g \in Members(s.lru)
        PROVE  t.dirty[g] \/ s.page[g] \in writing \/ t.disk[s.page[g]] = s.data[g]
    <3>1. CASE g = f
      BY <1>1, <2>4, <3>1
    <3>2. CASE g # f
      <4>1. t.disk[s.page[g]] = s.disk[s.page[g]] /\ t.dirty[g] = s.dirty[g]
        BY <2>4, <2>5, <2>6, <3>2
      <4> QED BY <2>6, <4>1
    <3> QED BY <3>1, <3>2
  <2>8. \A g \in Members(t.free) : ~t.dirty[g]
    <3>1. \A g \in Members(s.free) : g \in Frames
      BY DEF PoolOK
    <3> QED BY <2>1, <2>5, <3>1 DEF PoolOK
  <2>9. PoolOK(t, writing)
    BY <2>1, <2>3, <2>7, <2>8 DEF PoolOK
  <2>10. ASSUME NEW q \in PageIds
         PROVE  Shown(t, q) = Shown(s, q) /\ PinsOn(t, q) = PinsOn(s, q)
    <3>1. /\ Manager!InTable(t, q) = Manager!InTable(s, q)
          /\ Manager!FrameOf(t, q) = Manager!FrameOf(s, q)
      BY <2>1, SameTable
    <3>2. q = p => Manager!InTable(s, q)
      OBVIOUS
    <3> QED BY <2>1, <2>4, <3>1, <3>2 DEF Shown, PinsOn, Manager!Data
  <2> QED BY <2>1, <2>9, <2>10
<1> QED BY <1>2, <1>3 DEF Manager!FlushPage

\* Evict, and what Load does first: the victim's frame is empty.
Emptied(s, v) ==
  [Manager!Losing(s, IF s.dirty[v] THEN {s.page[v]} ELSE {}) EXCEPT
     !.lru = Manager!RemoveFirst(@, v), !.free = <<v>>, !.page[v] = NoPage, !.dirty[v] = FALSE]

\* An unpinned page leaves the pool, flushed or not.
LEMMA EmptiedKeeps ==
  ASSUME NEW s, NEW writing, PoolOK(s, writing), NEW v \in Members(s.lru), s.pin[v] = 0,
         s.free = <<>>
  PROVE  LET t == Emptied(s, v)
         IN  /\ PoolOK(t, writing) /\ t.free = <<v>> /\ ~Manager!InTable(t, s.page[v])
             /\ \A q \in PageIds : PinsOn(t, q) = PinsOn(s, q)
             /\ \A q \in PageIds \ {s.page[v]} :
                  Shown(t, q) = Shown(s, q) /\ Manager!InTable(t, q) = Manager!InTable(s, q)
             /\ Survives(s, t)
<1> DEFINE p == s.page[v]
           loses == IF s.dirty[v] THEN {p} ELSE {}
           gone == s.lost \cup (loses \cap allotted)
           tears == s.torn \/ ~(loses \subseteq allotted)
           m == Manager!RemoveFirst(s.lru, v)
           g == [s.page EXCEPT ![v] = NoPage]
           y == [s.dirty EXCEPT ![v] = FALSE]
           x == [s EXCEPT !.lost = gone, !.torn = tears]
           t == [x EXCEPT !.lru = m, !.free = <<v>>, !.page = g, !.dirty = y]
<1>1. /\ v \in Frames /\ p \in PageIds /\ s \in PoolStates /\ Manager!InTable(s, p)
      /\ Manager!FrameOf(s, p) = v
      /\ s.lru \in Seq(Frames) /\ Distinct(s.lru)
      /\ Len(s.lru) = CACHE_CAPACITY /\ Len(s.lru) \in Nat
  <2>1. Len(s.free) = 0 /\ Len(s.lru) \in Nat
    BY DEF PoolOK, PoolStates
  <2>2. /\ v \in Frames /\ p \in PageIds /\ Manager!InTable(s, p)
        /\ Manager!FrameOf(s, p) = v
    BY FrameIs
  <2>3. /\ s \in PoolStates /\ s.lru \in Seq(Frames) /\ Distinct(s.lru)
        /\ Len(s.free) + Len(s.lru) = CACHE_CAPACITY
    BY DEF PoolOK, PoolStates
  <2> QED BY <2>1, <2>2, <2>3
<1>2. /\ m \in Seq(Frames) /\ Distinct(m) /\ Members(m) = Members(s.lru) \ {v}
      /\ Len(m) = Len(s.lru) - 1
  BY <1>1, WithoutFirst
<1>3. /\ g \in [Frames -> PageIds \cup {NoPage}] /\ y \in [Frames -> BOOLEAN]
      /\ gone \in SUBSET PageIds /\ tears \in BOOLEAN
      /\ \A k \in Frames : /\ g[k] = IF k = v THEN NoPage ELSE s.page[k]
                           /\ y[k] = IF k = v THEN FALSE ELSE s.dirty[k]
  BY <1>1 DEF PoolStates
<1>4. loses \subseteq {p} /\ (s.dirty[v] <=> p \in loses)
  OBVIOUS
<1>5. Emptied(s, v) = t
  <2>1. Manager!Losing(s, loses) = x
    BY DEF Manager!Losing
  <2>2. x.lru = s.lru /\ x.page = s.page /\ x.dirty = s.dirty
    BY <1>1 DEF PoolStates
  <2> HIDE DEF loses, x
  <2>3. [x EXCEPT !.lru = Manager!RemoveFirst(@, v), !.free = <<v>>, !.page[v] = NoPage,
                  !.dirty[v] = FALSE] = t
    BY <2>2
  <2> QED BY <2>1, <2>3 DEF Emptied, loses
<1> HIDE DEF m, g, y, gone, tears
<1>6. /\ x \in PoolStates /\ x.disk = s.disk /\ x.data = s.data /\ x.pin = s.pin
      /\ x.empty = s.empty /\ x.lost = gone /\ x.torn = tears
  BY <1>1, <1>3 DEF PoolStates
<1> HIDE DEF x
<1>7. /\ t \in PoolStates /\ t.lru = m /\ t.free = <<v>> /\ t.page = g /\ t.dirty = y
      /\ t.disk = s.disk /\ t.data = s.data /\ t.pin = s.pin /\ t.empty = s.empty
      /\ t.lost = gone /\ t.torn = tears
  <2>1. <<v>> \in Seq(Frames)
    BY <1>1
  <2> QED BY <1>2, <1>3, <1>6, <2>1 DEF PoolStates
<1> HIDE DEF t
<1>8. /\ Distinct(t.free) /\ Members(t.free) = {v} /\ Len(t.free) = 1
      /\ Members(s.free) = {} /\ Members(s.lru) = Frames
  <2>1. Members(s.free) = {}
    BY DEF Members
  <2> QED BY <1>7, <2>1 DEF Distinct, Members, PoolOK
<1>9. PoolOK(t, writing)
  <2>1. Len(t.free) + Len(t.lru) = CACHE_CAPACITY /\ Members(t.free) \cup Members(t.lru) = Frames
    BY <1>1, <1>2, <1>7, <1>8
  <2>5. /\ t.page[v] = NoPage /\ ~t.dirty[v] /\ Members(t.lru) = Frames \ {v}
        /\ \A f \in Frames \ {v} : t.page[f] = s.page[f] /\ t.dirty[f] = s.dirty[f]
        /\ \A f \in Frames \ {v} : s.page[f] # NoPage
    <3>1. \A f \in Frames : s.page[f] # NoPage
      BY <1>8 DEF PoolOK
    <3>2. \A f \in Frames \ {v} : t.page[f] = s.page[f] /\ t.dirty[f] = s.dirty[f]
      BY <1>3, <1>7
    <3>3. t.page[v] = NoPage /\ ~t.dirty[v]
      BY <1>1, <1>3, <1>7
    <3> QED BY <1>2, <1>7, <1>8, <3>1, <3>2, <3>3
  <2>2. /\ \A f \in Frames : t.page[f] = NoPage <=> f \in Members(t.free)
        /\ \A f \in Frames : t.page[f] # NoPage <=> f \in Members(t.lru)
        /\ \A f \in Members(t.free) : ~t.dirty[f]
    BY <1>8, <2>5
  <2>6. \A f, k \in Members(t.lru) : t.page[f] = t.page[k] => f = k
    BY <1>8, <2>5 DEF PoolOK
  <2>3. ASSUME NEW f \in Members(t.lru)
        PROVE  t.dirty[f] \/ t.page[f] \in writing \/ t.disk[t.page[f]] = t.data[f]
    <3>1. f \in Frames \ {v} /\ f \in Members(s.lru)
      BY <1>8, <2>5
    <3>2. s.dirty[f] \/ s.page[f] \in writing \/ s.disk[s.page[f]] = s.data[f]
      BY <3>1 DEF PoolOK
    <3> QED BY <1>7, <2>5, <3>1, <3>2
  <2>4. \A q \in writing : \E f \in Members(t.lru) : t.page[f] = q /\ t.pin[f] > 0
    <3>1. \A q \in writing : \E f \in Members(s.lru) : s.page[f] = q /\ s.pin[f] > 0
      BY DEF PoolOK
    <3>2. \A f \in Members(s.lru) : s.pin[f] > 0 => f \in Members(t.lru) /\ t.page[f] = s.page[f]
      <4> TAKE f \in Members(s.lru)
      <4>1. s.pin[f] > 0 => f # v
        OBVIOUS
      <4> QED BY <4>1, <1>8, <2>5
    <3> QED BY <1>7, <3>1, <3>2
  <2>7. t.empty => t.disk = [q \in PageIds |-> <<0, 0>>]
    BY <1>7 DEF PoolOK
  <2> QED BY <1>2, <1>7, <1>8, <2>1, <2>2, <2>3, <2>4, <2>6, <2>7 DEF PoolOK
<1>10. ~Manager!InTable(t, p)
  <2>1. ASSUME NEW f \in Frames PROVE t.page[f] # p
    <3>1. s.page[f] = p => f = v
      BY <1>8 DEF PoolOK
    <3> QED BY <1>1, <1>3, <1>7, <3>1, BufferConstants
  <2> QED BY <2>1 DEF Manager!InTable, Frames
<1>11. ASSUME NEW q \in PageIds \ {p}
       PROVE  /\ Manager!InTable(t, q) = Manager!InTable(s, q)
              /\ Manager!InTable(s, q) => Manager!FrameOf(t, q) = Manager!FrameOf(s, q)
  <2>1. ASSUME NEW f \in Frames PROVE t.page[f] = q <=> s.page[f] = q
    <3>1. q # NoPage /\ q # s.page[v]
      BY BufferConstants
    <3> QED BY <1>1, <1>3, <1>7, <3>1
  <2>2. Manager!InTable(t, q) = Manager!InTable(s, q)
    BY <2>1 DEF Manager!InTable, Frames
  <2>3. ASSUME Manager!InTable(s, q) PROVE Manager!FrameOf(t, q) = Manager!FrameOf(s, q)
    <3>1. Manager!FrameOf(s, q) \in Frames /\ s.page[Manager!FrameOf(s, q)] = q
      BY <2>3, FrameIs
    <3>2. t.page[Manager!FrameOf(s, q)] = q /\ Manager!FrameOf(s, q) \in Members(t.lru)
      BY <2>1, <3>1, <1>9, BufferConstants DEF PoolOK
    <3> QED BY <1>9, <3>2, FrameIs
  <2> QED BY <2>2, <2>3
<1>12. ASSUME NEW q \in PageIds \ {p}
       PROVE  Shown(t, q) = Shown(s, q) /\ PinsOn(t, q) = PinsOn(s, q)
  BY <1>7, <1>11 DEF Shown, PinsOn, Manager!Data
<1>13. PinsOn(t, p) = PinsOn(s, p)
  BY <1>1, <1>10 DEF PinsOn
<1>14. Shown(t, p) = Shown(s, p) \/ p \in loses
  <2>1. p \notin writing
    <3>1. \A f \in Members(s.lru) : s.page[f] = p => f = v
      BY <1>1 DEF PoolOK
    <3> QED BY <3>1 DEF PoolOK
  <2>2. s.dirty[v] \/ s.disk[p] = s.data[v]
    BY <2>1 DEF PoolOK
  <2> QED BY <1>1, <1>4, <1>7, <1>10, <2>2 DEF Shown, Manager!Data
<1>15. Survives(s, t)
  BY <1>4, <1>7, <1>12, <1>14 DEF Survives, gone, tears
<1> HIDE DEF p
<1>16. \A q \in PageIds : PinsOn(t, q) = PinsOn(s, q)
  BY <1>12, <1>13
<1> QED BY <1>5, <1>7, <1>9, <1>10, <1>11, <1>12, <1>15, <1>16 DEF p


\* A page that is not in the pool comes to the first free frame, as it is on disk.
LEMMA LoadedKeeps ==
  ASSUME NEW s, NEW writing, PoolOK(s, writing), NEW p \in PageIds, ~Manager!InTable(s, p),
         s.free # <<>>
  PROVE  LET t == Manager!Load(s, p)
         IN  /\ PoolOK(t, writing) /\ Manager!InTable(t, p) /\ PinsOn(t, p) = 1
             /\ \A q \in PageIds \ {p} : PinsOn(t, q) = PinsOn(s, q)
             /\ \A q \in PageIds : Shown(t, q) = Shown(s, q)
             /\ t.lost = s.lost /\ t.torn = s.torn
<1> DEFINE f == Head(s.free)
           g == [s.page EXCEPT ![f] = p]
           d == [s.data EXCEPT ![f] = s.disk[p]]
           n == [s.pin EXCEPT ![f] = 1]
           y == [s.dirty EXCEPT ![f] = FALSE]
           r == Tail(s.free)
           m == Manager!RemoveFirst(s.lru, f)
           l == <<f>> \o m
           t == [s EXCEPT !.free = r, !.page = g, !.data = d, !.pin = n, !.dirty = y, !.lru = l]
<1>1. /\ s \in PoolStates /\ s.lru \in Seq(Frames) /\ Distinct(s.lru)
      /\ s.free \in Seq(Frames) /\ Distinct(s.free)
      /\ Len(s.free) + Len(s.lru) = CACHE_CAPACITY
      /\ Members(s.free) \cup Members(s.lru) = Frames
      /\ Len(s.lru) \in Nat /\ Len(s.free) \in Nat /\ Members(s.lru) \subseteq Frames
  BY DEF PoolOK, PoolStates
<1>2. /\ r \in Seq(Frames) /\ Distinct(r) /\ Len(r) = Len(s.free) - 1
      /\ Members(r) = Members(s.free) \ {f} /\ f \in Frames /\ f \in Members(s.free)
  BY <1>1, TailIs
<1>3. s.page[f] = NoPage /\ f \notin Members(s.lru)
  BY <1>2 DEF PoolOK
<1>4. /\ m \in Seq(Frames) /\ Distinct(m) /\ Members(m) = Members(s.lru) /\ Len(m) = Len(s.lru)
  <2>1. Members(s.lru) \ {f} = Members(s.lru)
    BY <1>3
  <2> QED BY <1>1, <1>3, <2>1, WithoutFirst
<1> HIDE DEF f, m
<1>5. /\ l \in Seq(Frames) /\ Distinct(l) /\ Members(l) = Members(s.lru) \cup {f}
      /\ Len(l) = Len(s.lru) + 1
  BY <1>2, <1>3, <1>4, InFront
<1>6. Manager!Load(s, p) = t
  <2>1. s.lru = [s EXCEPT !.free = r, !.page = g, !.data = d, !.pin = n, !.dirty = y].lru
    BY <1>1 DEF PoolStates
  <2>2. Manager!Load(s, p)
          = Manager!TouchLRU([s EXCEPT !.free = r, !.page = g, !.data = d, !.pin = n,
                                       !.dirty = y], f)
    BY DEF Manager!Load, f
  <2> HIDE DEF r, g, d, n, y
  <2> QED BY <2>1, <2>2 DEF Manager!TouchLRU, m
<1>7. /\ g \in [Frames -> PageIds \cup {NoPage}] /\ d \in [Frames -> Pairs]
      /\ n \in [Frames -> Nat] /\ y \in [Frames -> BOOLEAN]
      /\ g[f] = p /\ d[f] = s.disk[p] /\ n[f] = 1 /\ ~y[f]
      /\ \A k \in Frames \ {f} :
           g[k] = s.page[k] /\ d[k] = s.data[k] /\ n[k] = s.pin[k] /\ y[k] = s.dirty[k]
  BY <1>1, <1>2 DEF PoolStates
<1> HIDE DEF g, d, n, y, r, l
<1>8. /\ t \in PoolStates /\ t.free = r /\ t.page = g /\ t.data = d /\ t.pin = n /\ t.dirty = y
      /\ t.lru = l /\ t.disk = s.disk /\ t.empty = s.empty /\ t.lost = s.lost /\ t.torn = s.torn
  BY <1>1, <1>2, <1>5, <1>7 DEF PoolStates
<1> HIDE DEF t
<1>9. Members(t.free) = Members(s.free) \ {f} /\ Members(t.lru) = Members(s.lru) \cup {f}
  BY <1>2, <1>5, <1>8
<1>10. \A k \in Frames : s.page[k] # p
  BY DEF Manager!InTable, Frames
<1>11. PoolOK(t, writing)
  <2>1. /\ Distinct(t.free) /\ Distinct(t.lru) /\ t \in PoolStates
        /\ Len(t.free) + Len(t.lru) = CACHE_CAPACITY
        /\ Members(t.free) \cup Members(t.lru) = Frames
    <3>1. Len(t.free) = Len(s.free) - 1 /\ Len(t.lru) = Len(s.lru) + 1
      BY <1>2, <1>5, <1>8
    <3>2. Len(t.free) + Len(t.lru) = CACHE_CAPACITY
      <4>1. Len(s.free) \in Nat /\ Len(s.lru) \in Nat /\ Len(s.free) + Len(s.lru) = CACHE_CAPACITY
        BY <1>1
      <4>2. \A a, b \in Nat : (a - 1) + (b + 1) = a + b
        OBVIOUS
      <4> QED BY <3>1, <4>1, <4>2
    <3>3. Members(t.free) \cup Members(t.lru) = Frames
      BY <1>1, <1>2, <1>9
    <3> QED BY <1>2, <1>5, <1>8, <3>2, <3>3
  <2>2. /\ \A k \in Frames : s.page[k] = NoPage <=> k \in Members(s.free)
        /\ \A k \in Frames : s.page[k] # NoPage <=> k \in Members(s.lru)
        /\ \A k, h \in Members(s.lru) : s.page[k] = s.page[h] => k = h
        /\ \A k \in Members(s.free) : ~s.dirty[k]
    BY DEF PoolOK
  <2>3. p # NoPage
    BY BufferConstants
  <2>4. /\ \A k \in Frames : t.page[k] = NoPage <=> k \in Members(t.free)
        /\ \A k \in Frames : t.page[k] # NoPage <=> k \in Members(t.lru)
    <3>1. ASSUME NEW k \in Frames
          PROVE  /\ t.page[k] = NoPage <=> k \in Members(t.free)
                 /\ t.page[k] # NoPage <=> k \in Members(t.lru)
      <4>1. CASE k = f
        BY <4>1, <1>7, <1>8, <1>9, <2>3
      <4>2. CASE k # f
        <5>1. t.page[k] = s.page[k]
          BY <4>2, <1>7, <1>8
        <5> QED BY <4>2, <5>1, <1>9, <2>2
      <4> QED BY <4>1, <4>2
    <3> QED BY <3>1
  <2>5. \A k, h \in Members(t.lru) : t.page[k] = t.page[h] => k = h
    <3>1. \A k \in Members(s.lru) : k \in Frames \ {f} /\ t.page[k] = s.page[k] /\ t.page[k] # p
      BY <1>1, <1>3, <1>7, <1>8, <1>10
    <3>2. t.page[f] = p
      BY <1>7, <1>8
    <3> QED BY <3>1, <3>2, <1>9, <2>2
  <2>6. \A k \in Members(t.free) : ~t.dirty[k]
    BY <1>1, <1>7, <1>8, <1>9, <2>2
  <2>7. ASSUME NEW k \in Members(t.lru)
        PROVE  t.dirty[k] \/ t.page[k] \in writing \/ t.disk[t.page[k]] = t.data[k]
    <3>1. CASE k = f
      BY <3>1, <1>7, <1>8
    <3>2. CASE k # f
      <4>1. k \in Members(s.lru) /\ k \in Frames \ {f}
        BY <3>2, <1>1, <1>9
      <4>2. s.dirty[k] \/ s.page[k] \in writing \/ s.disk[s.page[k]] = s.data[k]
        BY <4>1 DEF PoolOK
      <4> QED BY <4>1, <4>2, <1>7, <1>8
    <3> QED BY <3>1, <3>2
  <2>8. ASSUME NEW q \in writing PROVE \E k \in Members(t.lru) : t.page[k] = q /\ t.pin[k] > 0
    <3>1. PICK k \in Members(s.lru) : s.page[k] = q /\ s.pin[k] > 0
      BY DEF PoolOK
    <3>2. k \in Frames \ {f}
      BY <1>1, <1>3
    <3> QED BY <3>1, <3>2, <1>7, <1>8, <1>9
  <2>9. t.empty => t.disk = [q \in PageIds |-> <<0, 0>>]
    BY <1>8 DEF PoolOK
  <2> QED BY <2>1, <2>4, <2>5, <2>6, <2>7, <2>8, <2>9 DEF PoolOK
<1>12. Manager!InTable(t, p) /\ Manager!FrameOf(t, p) = f
  BY <1>7, <1>8, <1>9, <1>11, FrameIs
<1>13. ASSUME NEW q \in PageIds \ {p}
       PROVE  /\ Manager!InTable(t, q) = Manager!InTable(s, q)
              /\ Manager!InTable(s, q) =>
                   /\ Manager!FrameOf(t, q) = Manager!FrameOf(s, q)
                   /\ Manager!FrameOf(s, q) \in Frames \ {f}
  <2>1. ASSUME NEW k \in Frames PROVE t.page[k] = q <=> s.page[k] = q
    <3>1. q # NoPage
      BY BufferConstants
    <3> QED BY <1>3, <1>7, <1>8, <3>1
  <2>2. Manager!InTable(t, q) = Manager!InTable(s, q)
    BY <2>1 DEF Manager!InTable, Frames
  <2>3. ASSUME Manager!InTable(s, q)
        PROVE  Manager!FrameOf(t, q) = Manager!FrameOf(s, q) /\ Manager!FrameOf(s, q) \in Frames \ {f}
    <3>1. /\ Manager!FrameOf(s, q) \in Frames /\ s.page[Manager!FrameOf(s, q)] = q
          /\ Manager!FrameOf(s, q) \in Members(s.lru)
      BY <2>3, FrameIs
    <3>2. t.page[Manager!FrameOf(s, q)] = q /\ Manager!FrameOf(s, q) \in Members(t.lru)
      BY <1>9, <2>1, <3>1
    <3>3. Manager!FrameOf(t, q) = Manager!FrameOf(s, q)
      BY <1>11, <3>2, FrameIs
    <3> QED BY <1>3, <3>1, <3>3
  <2> QED BY <2>2, <2>3
<1>14. ASSUME NEW q \in PageIds \ {p}
       PROVE  Shown(t, q) = Shown(s, q) /\ PinsOn(t, q) = PinsOn(s, q)
  <2>1. CASE Manager!InTable(s, q)
    BY <1>7, <1>8, <1>13, <2>1 DEF Shown, PinsOn, Manager!Data
  <2>2. CASE ~Manager!InTable(s, q)
    BY <1>8, <1>13, <2>2 DEF Shown, PinsOn
  <2> QED BY <2>1, <2>2
<1>15. Shown(t, p) = Shown(s, p) /\ PinsOn(t, p) = 1
  BY <1>7, <1>8, <1>12 DEF Shown, PinsOn, Manager!Data
<1> QED BY <1>6, <1>8, <1>11, <1>12, <1>14, <1>15

\* The frame taken is one that nobody has pinned.
LEMMA VictimFrame ==
  ASSUME NEW s, NEW writing, PoolOK(s, writing), Manager!Unpinned(s) # {}
  PROVE  Manager!Victim(s) \in Members(s.lru) /\ s.pin[Manager!Victim(s)] = 0
<1> DEFINE U == Manager!Unpinned(s)
           i == CHOOSE x \in U : \A y \in U : y <= x
<1>1. Len(s.lru) \in Nat /\ DOMAIN s.lru = 1 .. Len(s.lru)
  BY DEF PoolOK, PoolStates
<1>2. U # {} /\ U \in SUBSET (1 .. Len(s.lru)) /\ \A x \in U : x \in DOMAIN s.lru /\ s.pin[s.lru[x]] = 0
  BY <1>1 DEF Manager!Unpinned
<1>3. i \in U
  <2>1. \E x \in U : \A y \in U : y <= x
    <3> HIDE DEF U
    <3> QED BY <1>1, <1>2, LargestExists
  <2> HIDE DEF U
  <2> QED BY <2>1
<1>4. Manager!Victim(s) = s.lru[i]
  BY DEF Manager!Victim
<1> QED BY <1>2, <1>3, <1>4 DEF Members

LEMMA SamePool ==
  ASSUME NEW s \in PoolStates, NEW t \in PoolStates,
         s.disk = t.disk, s.page = t.page, s.data = t.data, s.pin = t.pin, s.dirty = t.dirty,
         s.free = t.free, s.lru = t.lru, s.empty = t.empty, s.lost = t.lost, s.torn = t.torn
  PROVE  s = t
<1>1. \A u \in PoolStates :
        u = [disk |-> u.disk, page |-> u.page, data |-> u.data, pin |-> u.pin,
             dirty |-> u.dirty, free |-> u.free, lru |-> u.lru, empty |-> u.empty,
             lost |-> u.lost, torn |-> u.torn]
  BY DEF PoolStates
<1> QED BY <1>1

\* Load overwrites what Emptied empties.
LEMMA LoadAfterEvict ==
  ASSUME NEW s \in PoolStates, NEW v \in Frames, s.page[v] \in PageIds, Distinct(s.lru),
         NEW p \in PageIds,
         NEW e, e = [Manager!Losing(s, IF s.dirty[v] THEN {s.page[v]} ELSE {}) EXCEPT
                       !.lru = Manager!RemoveFirst(@, v), !.free = <<v>>]
  PROVE  Manager!Load(e, p) = Manager!Load(Emptied(s, v), p)
<1> DEFINE ps == IF s.dirty[v] THEN {s.page[v]} ELSE {}
           gone == s.lost \cup (ps \cap allotted)
           tears == s.torn \/ ~(ps \subseteq allotted)
           x == Manager!Losing(s, ps)
           m == Manager!RemoveFirst(s.lru, v)
           em == Emptied(s, v)
           after(a) == [a EXCEPT !.free = Tail(@), !.page[v] = p, !.data[v] = a.disk[p],
                                 !.pin[v] = 1, !.dirty[v] = FALSE]
<1>1. m \in Seq(Frames) /\ <<v>> \in Seq(Frames) /\ Tail(<<v>>) \in Seq(Frames)
  <2>1. m \in Seq(Frames)
    BY WithoutFirst DEF PoolStates
  <2> QED BY <2>1
<1>2. ps \subseteq PageIds
  OBVIOUS
<1> HIDE DEF ps
<1>3. /\ x \in PoolStates /\ x.disk = s.disk /\ x.page = s.page /\ x.data = s.data
      /\ x.pin = s.pin /\ x.dirty = s.dirty /\ x.lru = s.lru /\ x.empty = s.empty
      /\ x.lost = gone /\ x.torn = tears
  BY <1>2 DEF Manager!Losing, PoolStates
<1> HIDE DEF gone, tears
<1>4. /\ e \in PoolStates /\ e.disk = s.disk /\ e.page = s.page /\ e.data = s.data
      /\ e.pin = s.pin /\ e.dirty = s.dirty /\ e.lru = m /\ e.empty = s.empty
      /\ e.free = <<v>> /\ e.lost = gone /\ e.torn = tears
  <2> HIDE DEF x, m
  <2>1. e = [x EXCEPT !.lru = m, !.free = <<v>>]
    BY <1>3 DEF x, ps, m
  <2> QED BY <1>1, <1>3, <2>1 DEF PoolStates
<1>5. /\ [s.page EXCEPT ![v] = NoPage] \in [Frames -> PageIds \cup {NoPage}]
      /\ [s.dirty EXCEPT ![v] = FALSE] \in [Frames -> BOOLEAN]
      /\ [s.page EXCEPT ![v] = p] \in [Frames -> PageIds \cup {NoPage}]
      /\ [s.data EXCEPT ![v] = s.disk[p]] \in [Frames -> Pairs]
      /\ [s.pin EXCEPT ![v] = 1] \in [Frames -> Nat]
  BY DEF PoolStates
<1>6. /\ em \in PoolStates /\ em.disk = s.disk /\ em.page = [s.page EXCEPT ![v] = NoPage]
      /\ em.data = s.data /\ em.pin = s.pin /\ em.dirty = [s.dirty EXCEPT ![v] = FALSE]
      /\ em.lru = m /\ em.empty = s.empty /\ em.free = <<v>> /\ em.lost = gone
      /\ em.torn = tears
  <2> HIDE DEF x, m, em
  <2>1. em = [x EXCEPT !.lru = Manager!RemoveFirst(@, v), !.free = <<v>>, !.page[v] = NoPage,
                       !.dirty[v] = FALSE]
    BY DEF Emptied, x, ps, em
  <2>2. em = [x EXCEPT !.lru = m, !.free = <<v>>, !.page = [s.page EXCEPT ![v] = NoPage],
                       !.dirty = [s.dirty EXCEPT ![v] = FALSE]]
    BY <1>3, <2>1 DEF m
  <2> QED BY <1>1, <1>3, <1>5, <2>2 DEF PoolStates
<1> HIDE DEF x, m, em
<1>7. /\ [[s.page EXCEPT ![v] = NoPage] EXCEPT ![v] = p] = [s.page EXCEPT ![v] = p]
      /\ [[s.dirty EXCEPT ![v] = FALSE] EXCEPT ![v] = FALSE] = [s.dirty EXCEPT ![v] = FALSE]
  BY DEF PoolStates
<1>8. ASSUME NEW a \in PoolStates, a.free = <<v>>, a.disk = s.disk, a.data = s.data,
             a.pin = s.pin, [a.page EXCEPT ![v] = p] = [s.page EXCEPT ![v] = p],
             [a.dirty EXCEPT ![v] = FALSE] = [s.dirty EXCEPT ![v] = FALSE]
      PROVE  /\ after(a) \in PoolStates /\ after(a).free = Tail(<<v>>)
             /\ after(a).page = [s.page EXCEPT ![v] = p]
             /\ after(a).data = [s.data EXCEPT ![v] = s.disk[p]]
             /\ after(a).pin = [s.pin EXCEPT ![v] = 1]
             /\ after(a).dirty = [s.dirty EXCEPT ![v] = FALSE]
             /\ after(a).lru = a.lru /\ after(a).empty = a.empty /\ after(a).disk = a.disk
             /\ after(a).lost = a.lost /\ after(a).torn = a.torn
  <2> DEFINE g == [s.page EXCEPT ![v] = p]
             d == [s.data EXCEPT ![v] = s.disk[p]]
             n == [s.pin EXCEPT ![v] = 1]
             y == [s.dirty EXCEPT ![v] = FALSE]
             r == Tail(<<v>>)
  <2>1. after(a) = [a EXCEPT !.free = r, !.page = g, !.data = d, !.pin = n, !.dirty = y]
    BY <1>8
  <2>2. /\ g \in [Frames -> PageIds \cup {NoPage}] /\ d \in [Frames -> Pairs]
        /\ n \in [Frames -> Nat] /\ y \in [Frames -> BOOLEAN] /\ r \in Seq(Frames)
    BY <1>1, <1>5
  <2> HIDE DEF after, g, d, n, y, r
  <2>3. /\ after(a) \in PoolStates /\ after(a).free = r /\ after(a).page = g
        /\ after(a).data = d /\ after(a).pin = n /\ after(a).dirty = y
        /\ after(a).lru = a.lru /\ after(a).empty = a.empty /\ after(a).disk = a.disk
        /\ after(a).lost = a.lost /\ after(a).torn = a.torn
    BY <2>1, <2>2 DEF PoolStates
  <2> QED BY <2>3 DEF g, d, n, y, r
<1> HIDE DEF after
<1>9. after(e) = after(em)
  <2> DEFINE ae == after(e)
             ac == after(em)
  <2>1. /\ ae \in PoolStates /\ ae.free = Tail(<<v>>) /\ ae.page = [s.page EXCEPT ![v] = p]
        /\ ae.data = [s.data EXCEPT ![v] = s.disk[p]] /\ ae.pin = [s.pin EXCEPT ![v] = 1]
        /\ ae.dirty = [s.dirty EXCEPT ![v] = FALSE] /\ ae.lru = m /\ ae.empty = s.empty
        /\ ae.disk = s.disk /\ ae.lost = gone /\ ae.torn = tears
    BY <1>4, <1>8
  <2>2. /\ ac \in PoolStates /\ ac.free = Tail(<<v>>) /\ ac.page = [s.page EXCEPT ![v] = p]
        /\ ac.data = [s.data EXCEPT ![v] = s.disk[p]] /\ ac.pin = [s.pin EXCEPT ![v] = 1]
        /\ ac.dirty = [s.dirty EXCEPT ![v] = FALSE] /\ ac.lru = m /\ ac.empty = s.empty
        /\ ac.disk = s.disk /\ ac.lost = gone /\ ac.torn = tears
    BY <1>6, <1>7, <1>8
  <2> HIDE DEF ae, ac
  <2>3. ae = ac
    BY <2>1, <2>2, SamePool
  <2> QED BY <2>3 DEF ae, ac
<1>10. \A a : a.free = <<v>> => Manager!Load(a, p) = Manager!TouchLRU(after(a), v)
  <2> TAKE a
  <2>1. Head(<<v>>) = v
    OBVIOUS
  <2> QED BY <2>1 DEF Manager!Load, after
<1>11. Manager!Load(e, p) = Manager!TouchLRU(after(e), v)
  BY <1>4, <1>10
<1>12. Manager!Load(em, p) = Manager!TouchLRU(after(em), v)
  BY <1>6, <1>10
<1>13. Manager!Load(e, p) = Manager!Load(em, p)
  BY <1>9, <1>11, <1>12
<1> QED BY <1>13 DEF em

\* A fetch pins the page and shows it as it was; no page that is pinned changes, and the
\* others are only changed by a failed write, which is remembered.
GotPage(s, t, p) ==
  /\ Manager!InTable(t, p) /\ PinsOn(t, p) = PinsOn(s, p) + 1
  /\ \A q \in PageIds \ {p} : PinsOn(t, q) = PinsOn(s, q)
  /\ Shown(t, p) = Shown(s, p)
  /\ \A q \in PageIds : PinsOn(s, q) > 0 => Shown(t, q) = Shown(s, q)
  /\ Survives(s, t)

LEMMA GotPageKeeps ==
  ASSUME NEW s, NEW writing, PoolOK(s, writing), NEW p \in PageIds,
         NEW t \in Manager!FetchPage(s, p)
  PROVE  PoolOK(t, writing) /\ GotPage(s, t, p)
<1>1. CASE Manager!InTable(s, p)
  <2> DEFINE f == Manager!FrameOf(s, p)
             n == [s.pin EXCEPT ![f] = s.pin[f] + 1]
             u == [s EXCEPT !.pin = n]
  <2>1. f \in Members(s.lru) /\ f \in Frames /\ s.page[f] = p /\ s \in PoolStates
    <3>1. s \in PoolStates
      BY DEF PoolOK
    <3> QED BY <1>1, <3>1, FrameIs
  <2>2. t = Manager!TouchLRU(u, f)
    BY <1>1 DEF Manager!FetchPage
  <2> HIDE DEF f
  <2>3. /\ n \in [Frames -> Nat] /\ n[f] = s.pin[f] + 1 /\ s.pin[f] \in Nat
        /\ \A k \in Frames \ {f} : n[k] = s.pin[k]
    BY <2>1 DEF PoolStates
  <2> HIDE DEF n
  <2>4. /\ u \in PoolStates /\ u.pin = n /\ u.page = s.page /\ u.data = s.data
        /\ u.dirty = s.dirty /\ u.disk = s.disk /\ u.lru = s.lru /\ u.free = s.free
        /\ u.empty = s.empty /\ u.lost = s.lost /\ u.torn = s.torn
    BY <2>1, <2>3 DEF PoolStates
  <2> HIDE DEF u
  <2>5. PoolOK(u, writing)
    <3>1. ASSUME NEW q \in writing PROVE \E k \in Members(u.lru) : u.page[k] = q /\ u.pin[k] > 0
      <4>1. PICK k \in Members(s.lru) : s.page[k] = q /\ s.pin[k] > 0
        BY DEF PoolOK
      <4>2. k \in Frames
        BY FrameIs
      <4>3. u.pin[k] > 0
        BY <2>3, <2>4, <4>1, <4>2
      <4> QED BY <2>4, <4>1, <4>3
    <3> QED BY <2>4, <3>1 DEF PoolOK
  <2>6. /\ PoolOK(t, writing) /\ t.page = u.page /\ t.data = u.data /\ t.pin = u.pin
        /\ t.disk = u.disk /\ t.lost = u.lost /\ t.torn = u.torn
    <3>1. f \in Members(u.lru)
      BY <2>1, <2>4
    <3> QED BY <2>2, <2>5, <3>1, TouchKeeps
  <2>7. \A q : /\ Manager!InTable(t, q) = Manager!InTable(s, q)
               /\ Manager!FrameOf(t, q) = Manager!FrameOf(s, q)
    <3>1. t.page = s.page
      BY <2>4, <2>6
    <3> QED BY <3>1, SameTable
  <2>8. \A q \in PageIds : Shown(t, q) = Shown(s, q)
    BY <2>4, <2>6, <2>7 DEF Shown, Manager!Data
  <2>9. PinsOn(t, p) = PinsOn(s, p) + 1
    BY <1>1, <2>3, <2>4, <2>6, <2>7 DEF PinsOn, f
  <2>10. ASSUME NEW q \in PageIds \ {p} PROVE PinsOn(t, q) = PinsOn(s, q)
    <3>1. CASE ~Manager!InTable(s, q)
      BY <2>7, <3>1 DEF PinsOn
    <3>2. CASE Manager!InTable(s, q)
      <4>1. Manager!FrameOf(s, q) \in Frames \ {f}
        BY <2>1, <3>2, FrameIs
      <4> QED BY <2>3, <2>4, <2>6, <2>7, <3>2, <4>1 DEF PinsOn
    <3> QED BY <3>1, <3>2
  <2>11. Survives(s, t)
    BY <2>4, <2>6, <2>8 DEF Survives
  <2> QED BY <1>1, <2>6, <2>7, <2>8, <2>9, <2>10, <2>11 DEF GotPage
<1>2. CASE ~Manager!InTable(s, p) /\ s.free # <<>>
  <2>1. t = Manager!Load(s, p)
    BY <1>2 DEF Manager!FetchPage
  <2>2. /\ PoolOK(t, writing) /\ Manager!InTable(t, p) /\ PinsOn(t, p) = 1
        /\ \A q \in PageIds \ {p} : PinsOn(t, q) = PinsOn(s, q)
        /\ \A q \in PageIds : Shown(t, q) = Shown(s, q)
        /\ t.lost = s.lost /\ t.torn = s.torn
    BY <1>2, <2>1, LoadedKeeps
  <2>3. PinsOn(s, p) = 0
    BY <1>2 DEF PinsOn
  <2> QED BY <2>2, <2>3 DEF GotPage, Survives
<1>3. CASE ~Manager!InTable(s, p) /\ s.free = <<>>
  <2> DEFINE v == Manager!Victim(s)
             z == s.page[v]
  <2>1. Manager!Unpinned(s) # {} /\ \E e \in Manager!Evict(s) : t = Manager!Load(e, p)
    BY <1>3 DEF Manager!FetchPage
  <2>2. v \in Members(s.lru) /\ s.pin[v] = 0
    BY <2>1, VictimFrame
  <2>3. v \in Frames /\ z \in PageIds /\ Manager!InTable(s, z) /\ Manager!FrameOf(s, z) = v
    BY <2>2, FrameIs
  <2>4. PICK u \in Manager!FlushPage(s, z) :
          t = Manager!Load([Manager!Losing(u, IF u.dirty[v] THEN {u.page[v]} ELSE {}) EXCEPT
                              !.lru = Manager!RemoveFirst(@, v), !.free = <<v>>], p)
    BY <2>1 DEF Manager!Evict
  <2> HIDE DEF v
  <2>5. /\ PoolOK(u, writing) /\ u.page = s.page /\ u.pin = s.pin /\ u.lost = s.lost
        /\ u.torn = s.torn /\ u.free = s.free /\ u.lru = s.lru
        /\ \A q \in PageIds : Shown(u, q) = Shown(s, q) /\ PinsOn(u, q) = PinsOn(s, q)
    BY <2>3, PageFlushed
  <2> DEFINE x == Emptied(u, v)
  <2>6. /\ PoolOK(x, writing) /\ x.free = <<v>> /\ ~Manager!InTable(x, z)
        /\ \A q \in PageIds : PinsOn(x, q) = PinsOn(u, q)
        /\ \A q \in PageIds \ {z} :
             Shown(x, q) = Shown(u, q) /\ Manager!InTable(x, q) = Manager!InTable(u, q)
        /\ Survives(u, x)
    <3>1. v \in Members(u.lru) /\ u.pin[v] = 0 /\ u.free = <<>> /\ z = u.page[v]
      BY <1>3, <2>2, <2>5
    <3> HIDE DEF z
    <3> QED BY <2>5, <3>1, EmptiedKeeps
  <2>7. t = Manager!Load(x, p)
    <3>1. u \in PoolStates /\ Distinct(u.lru)
      BY <2>5 DEF PoolOK
    <3>2. u.page[v] \in PageIds
      BY <2>3, <2>5
    <3> QED BY <2>3, <2>4, <3>1, <3>2, LoadAfterEvict
  <2> HIDE DEF x
  <2>8. p # z /\ Manager!InTable(x, p) = FALSE /\ x.free # <<>>
    <3>1. Manager!InTable(u, p) = Manager!InTable(s, p)
      BY <2>5, SameTable
    <3> QED BY <1>3, <2>3, <2>6, <3>1
  <2>9. /\ PoolOK(t, writing) /\ Manager!InTable(t, p) /\ PinsOn(t, p) = 1
        /\ \A q \in PageIds \ {p} : PinsOn(t, q) = PinsOn(x, q)
        /\ \A q \in PageIds : Shown(t, q) = Shown(x, q)
        /\ t.lost = x.lost /\ t.torn = x.torn
    BY <2>6, <2>7, <2>8, LoadedKeeps
  <2>10. PinsOn(s, p) = 0 /\ PinsOn(s, z) = 0
    BY <1>3, <2>2, <2>3 DEF PinsOn
  <2> HIDE DEF z
  <2>11. Survives(s, t)
    BY <2>5, <2>6, <2>9 DEF Survives
  <2>12. \A q \in PageIds \ {z} : Shown(t, q) = Shown(s, q)
    BY <2>5, <2>6, <2>9
  <2>13. \A q \in PageIds \ {p} : PinsOn(t, q) = PinsOn(s, q)
    BY <2>5, <2>6, <2>9
  <2> QED BY <2>8, <2>9, <2>10, <2>11, <2>12, <2>13 DEF GotPage
<1> QED BY <1>1, <1>2, <1>3

\* A page that is pinned is written in its frame.
LEMMA SetDataKeeps ==
  ASSUME NEW s, NEW writing, PoolOK(s, writing), NEW p \in PageIds, PinsOn(s, p) > 0,
         NEW d \in Pairs
  PROVE  LET t == Manager!SetData(s, p, d)
         IN  /\ PoolOK(t, writing \cup {p}) /\ Shown(t, p) = d
             /\ \A q \in PageIds \ {p} : Shown(t, q) = Shown(s, q)
             /\ \A q \in PageIds : PinsOn(t, q) = PinsOn(s, q)
             /\ t.lost = s.lost /\ t.torn = s.torn
<1> DEFINE f == Manager!FrameOf(s, p)
           x == [s.data EXCEPT ![f] = d]
           t == [s EXCEPT !.data = x]
<1>1. Manager!InTable(s, p)
  BY DEF PinsOn
<1>2. f \in Members(s.lru) /\ f \in Frames /\ s.page[f] = p /\ s \in PoolStates /\ s.pin[f] > 0
  <2>1. s \in PoolStates
    BY DEF PoolOK
  <2>2. s.pin[f] > 0
    BY <1>1 DEF PinsOn
  <2> QED BY <1>1, <2>1, <2>2, FrameIs
<1>3. Manager!SetData(s, p, d) = t
  BY DEF Manager!SetData
<1> HIDE DEF f
<1>4. x \in [Frames -> Pairs] /\ x[f] = d /\ \A k \in Frames \ {f} : x[k] = s.data[k]
  BY <1>2 DEF PoolStates
<1> HIDE DEF x
<1>5. /\ t \in PoolStates /\ t.data = x /\ t.page = s.page /\ t.pin = s.pin /\ t.dirty = s.dirty
      /\ t.disk = s.disk /\ t.free = s.free /\ t.lru = s.lru /\ t.empty = s.empty
      /\ t.lost = s.lost /\ t.torn = s.torn
  BY <1>2, <1>4 DEF PoolStates
<1> HIDE DEF t
<1>6. PoolOK(t, writing \cup {p})
  <2>1. ASSUME NEW k \in Members(t.lru)
        PROVE  t.dirty[k] \/ t.page[k] \in writing \cup {p} \/ t.disk[t.page[k]] = t.data[k]
    <3>1. CASE k = f
      BY <3>1, <1>2, <1>5
    <3>2. CASE k # f
      <4>1. k \in Frames \ {f} /\ k \in Members(s.lru)
        BY <3>2, <1>5, FrameIs
      <4>2. s.dirty[k] \/ s.page[k] \in writing \/ s.disk[s.page[k]] = s.data[k]
        BY <4>1 DEF PoolOK
      <4> QED BY <4>1, <4>2, <1>4, <1>5
    <3> QED BY <3>1, <3>2
  <2>2. ASSUME NEW q \in writing \cup {p}
        PROVE  \E k \in Members(t.lru) : t.page[k] = q /\ t.pin[k] > 0
    <3>1. CASE q = p
      BY <3>1, <1>2, <1>5
    <3>2. CASE q \in writing
      BY <3>2, <1>5 DEF PoolOK
    <3> QED BY <3>1, <3>2
  <2> QED BY <1>5, <2>1, <2>2 DEF PoolOK
<1>7. \A q : /\ Manager!InTable(t, q) = Manager!InTable(s, q)
             /\ Manager!FrameOf(t, q) = Manager!FrameOf(s, q)
  BY <1>5, SameTable
<1>8. Shown(t, p) = d
  BY <1>1, <1>4, <1>5, <1>7 DEF Shown, Manager!Data, f
<1>9. ASSUME NEW q \in PageIds \ {p} PROVE Shown(t, q) = Shown(s, q)
  <2>1. CASE ~Manager!InTable(s, q)
    BY <1>5, <1>7, <2>1 DEF Shown
  <2>2. CASE Manager!InTable(s, q)
    <3>1. Manager!FrameOf(s, q) \in Frames \ {f}
      BY <1>2, <2>2, FrameIs
    <3> QED BY <1>4, <1>5, <1>7, <2>2, <3>1 DEF Shown, Manager!Data
  <2> QED BY <2>1, <2>2
<1>10. \A q \in PageIds : PinsOn(t, q) = PinsOn(s, q)
  BY <1>5, <1>7 DEF PinsOn
<1> QED BY <1>3, <1>5, <1>6, <1>8, <1>9, <1>10

\* A page is unpinned once, and dirty if its writer says so: it may be the last writer.
LEMMA UnpinKeeps ==
  ASSUME NEW s, NEW writing, PoolOK(s, writing), NEW p \in PageIds, PinsOn(s, p) > 0,
         NEW d \in BOOLEAN, NEW still \in SUBSET writing,
         \A q \in writing \ still : q = p /\ d, p \in still => PinsOn(s, p) > 1
  PROVE  LET t == Manager!UnpinPage(s, p, d)
         IN  /\ PoolOK(t, still) /\ PinsOn(t, p) = PinsOn(s, p) - 1
             /\ \A q \in PageIds \ {p} : PinsOn(t, q) = PinsOn(s, q)
             /\ \A q \in PageIds : Shown(t, q) = Shown(s, q)
             /\ t.lost = s.lost /\ t.torn = s.torn
<1> DEFINE f == Manager!FrameOf(s, p)
           y == [s.dirty EXCEPT ![f] = s.dirty[f] \/ d]
           n == [s.pin EXCEPT ![f] = IF s.pin[f] > 0 THEN s.pin[f] - 1 ELSE 0]
           t == [s EXCEPT !.dirty = y, !.pin = n]
<1>1. Manager!InTable(s, p) /\ PinsOn(s, p) = s.pin[f]
  BY DEF PinsOn
<1>2. f \in Members(s.lru) /\ f \in Frames /\ s.page[f] = p /\ s \in PoolStates
  <2>1. s \in PoolStates
    BY DEF PoolOK
  <2> QED BY <1>1, <2>1, FrameIs
<1>3. Manager!UnpinPage(s, p, d) = t
  BY DEF Manager!UnpinPage
<1> HIDE DEF f
<1>4. /\ y \in [Frames -> BOOLEAN] /\ (y[f] <=> s.dirty[f] \/ d)
      /\ \A k \in Frames \ {f} : y[k] = s.dirty[k]
  BY <1>2 DEF PoolStates
<1>5. /\ n \in [Frames -> Nat] /\ n[f] = s.pin[f] - 1
      /\ \A k \in Frames \ {f} : n[k] = s.pin[k]
  BY <1>1, <1>2 DEF PoolStates
<1> HIDE DEF y, n
<1>6. /\ t \in PoolStates /\ t.dirty = y /\ t.pin = n /\ t.data = s.data /\ t.page = s.page
      /\ t.disk = s.disk /\ t.free = s.free /\ t.lru = s.lru /\ t.empty = s.empty
      /\ t.lost = s.lost /\ t.torn = s.torn
  BY <1>2, <1>4, <1>5 DEF PoolStates
<1> HIDE DEF t
<1>7. PoolOK(t, still)
  <2>1. ASSUME NEW k \in Members(t.lru)
        PROVE  t.dirty[k] \/ t.page[k] \in still \/ t.disk[t.page[k]] = t.data[k]
    <3>1. k \in Members(s.lru) /\ k \in Frames
      BY <1>6, FrameIs
    <3>2. s.dirty[k] \/ s.page[k] \in writing \/ s.disk[s.page[k]] = s.data[k]
      BY <3>1 DEF PoolOK
    <3>3. s.dirty[k] => t.dirty[k]
      BY <3>1, <1>4, <1>6
    <3>4. s.page[k] \in writing /\ s.page[k] \notin still => t.dirty[k]
      <4>1. s.page[k] = p => k = f
        BY <1>2, <3>1 DEF PoolOK
      <4> QED BY <4>1, <1>4, <1>6
    <3> QED BY <3>2, <3>3, <3>4, <1>6
  <2>2. ASSUME NEW q \in still
        PROVE  \E k \in Members(t.lru) : t.page[k] = q /\ t.pin[k] > 0
    <3>1. CASE q = p
      <4>1. t.pin[f] > 0
        <5>1. s.pin[f] > 1 /\ s.pin[f] \in Nat
          BY <3>1, <1>1, <1>2 DEF PoolStates
        <5> QED BY <5>1, <1>5, <1>6
      <4> QED BY <3>1, <4>1, <1>2, <1>6
    <3>2. CASE q # p
      <4>1. PICK k \in Members(s.lru) : s.page[k] = q /\ s.pin[k] > 0
        BY DEF PoolOK
      <4>2. k \in Frames \ {f}
        BY <3>2, <4>1, <1>2, FrameIs
      <4>3. t.pin[k] > 0
        BY <4>1, <4>2, <1>5, <1>6
      <4> QED BY <4>1, <4>3, <1>6
    <3> QED BY <3>1, <3>2
  <2>3. \A k \in Members(t.free) : ~t.dirty[k]
    <3>1. \A k \in Members(s.free) : k \in Frames \ {f}
      BY <1>2 DEF PoolOK
    <3>2. \A k \in Members(s.free) : ~s.dirty[k]
      BY DEF PoolOK
    <3> QED BY <3>1, <3>2, <1>4, <1>6
  <2> QED BY <1>6, <2>1, <2>2, <2>3 DEF PoolOK
<1>8. \A q : /\ Manager!InTable(t, q) = Manager!InTable(s, q)
             /\ Manager!FrameOf(t, q) = Manager!FrameOf(s, q)
  BY <1>6, SameTable
<1>9. PinsOn(t, p) = PinsOn(s, p) - 1
  BY <1>1, <1>5, <1>6, <1>8 DEF PinsOn, f
<1>10. ASSUME NEW q \in PageIds \ {p} PROVE PinsOn(t, q) = PinsOn(s, q)
  <2>1. CASE ~Manager!InTable(s, q)
    BY <1>8, <2>1 DEF PinsOn
  <2>2. CASE Manager!InTable(s, q)
    <3>1. Manager!FrameOf(s, q) \in Frames \ {f}
      BY <1>2, <2>2, FrameIs
    <3> QED BY <1>5, <1>6, <1>8, <2>2, <3>1 DEF PinsOn
  <2> QED BY <2>1, <2>2
<1>11. \A q \in PageIds : Shown(t, q) = Shown(s, q)
  BY <1>6, <1>8 DEF Shown, Manager!Data
<1> QED BY <1>3, <1>6, <1>7, <1>9, <1>10, <1>11

\* What became of a page that is lost is forgotten.
LEMMA ForgetKeeps ==
  ASSUME NEW s, NEW writing, PoolOK(s, writing), NEW p
  PROVE  LET t == [s EXCEPT !.lost = s.lost \ {p}]
         IN  /\ PoolOK(t, writing) /\ t.lost = s.lost \ {p} /\ t.torn = s.torn
             /\ \A q \in PageIds : Shown(t, q) = Shown(s, q) /\ PinsOn(t, q) = PinsOn(s, q)
<1> DEFINE t == [s EXCEPT !.lost = s.lost \ {p}]
<1>1. s \in PoolStates
  BY DEF PoolOK
<1>2. /\ t \in PoolStates /\ t.lost = s.lost \ {p}
      /\ t.data = s.data /\ t.page = s.page /\ t.pin = s.pin /\ t.dirty = s.dirty
      /\ t.disk = s.disk /\ t.free = s.free /\ t.lru = s.lru /\ t.empty = s.empty
      /\ t.torn = s.torn
  BY <1>1 DEF PoolStates
<1> HIDE DEF t
<1>3. PoolOK(t, writing)
  <2>1. /\ Distinct(t.free) /\ Distinct(t.lru) /\ Len(t.free) + Len(t.lru) = CACHE_CAPACITY
        /\ Members(t.free) \cup Members(t.lru) = Frames
        /\ t.empty => t.disk = [q \in PageIds |-> <<0, 0>>]
    BY <1>2 DEF PoolOK
  <2>2. /\ \A f \in Frames : t.page[f] = NoPage <=> f \in Members(t.free)
        /\ \A f \in Frames : t.page[f] # NoPage <=> f \in Members(t.lru)
        /\ \A f, g \in Members(t.lru) : t.page[f] = t.page[g] => f = g
        /\ \A f \in Members(t.free) : ~t.dirty[f]
    BY <1>2 DEF PoolOK
  <2>3. \A f \in Members(t.lru) :
          t.dirty[f] \/ t.page[f] \in writing \/ t.disk[t.page[f]] = t.data[f]
    BY <1>2 DEF PoolOK
  <2>4. \A q \in writing : \E f \in Members(t.lru) : t.page[f] = q /\ t.pin[f] > 0
    BY <1>2 DEF PoolOK
  <2> QED BY <1>2, <2>1, <2>2, <2>3, <2>4 DEF PoolOK
<1>4. \A q : /\ Manager!InTable(t, q) = Manager!InTable(s, q)
             /\ Manager!FrameOf(t, q) = Manager!FrameOf(s, q)
  BY <1>2, SameTable
<1>5. \A q \in PageIds : Shown(t, q) = Shown(s, q) /\ PinsOn(t, q) = PinsOn(s, q)
  BY <1>2, <1>4 DEF Shown, PinsOn, Manager!Data
<1> QED BY <1>2, <1>3, <1>5 DEF t

\* A page shows a pair of numbers.
LEMMA ShownIsPair ==
  ASSUME NEW s, NEW writing, PoolOK(s, writing), NEW p \in PageIds
  PROVE  /\ Shown(s, p) \in Pairs /\ PinsOn(s, p) \in Nat
         /\ PinsOn(s, p) > 0 => Manager!Data(s, p) = Shown(s, p)
         /\ Manager!InTable(s, p) => Manager!Data(s, p) = Shown(s, p)
<1>1. s \in PoolStates
  BY DEF PoolOK
<1>2. Manager!InTable(s, p) => Manager!FrameOf(s, p) \in Frames
  BY FrameIs
<1>3. s.disk[p] \in Pairs /\ \A f \in Frames : s.data[f] \in Pairs /\ s.pin[f] \in Nat
  BY <1>1 DEF PoolStates
<1> QED BY <1>2, <1>3 DEF Shown, PinsOn, Manager!Data

-----------------------------------------------------------------------------
(* The state of the buffer pool, its guards and the file *)

Writers(gd)    == {gd[g].page : g \in {h \in Guards : gd[h].dirty}}
Holding(gd, p) == {g \in Guards : gd[g].page = p}
GuardStates    == [Guards -> [page : PageIds \cup {NoPage}, dirty : BOOLEAN]]

\* The free list in the file runs through the pages below total_pages that are not in a.
ListOK(s, a) ==
  /\ Shown(s, 0)[1] \in 1 .. LastPage + 1
  /\ a \subseteq 1 .. Shown(s, 0)[1] - 1
  /\ \E w \in Seq(PageIds) :
       /\ Distinct(w) /\ Members(w) = (1 .. Shown(s, 0)[1] - 1) \ a
       /\ Links([p \in PageIds |-> Shown(s, p)[1]], -1, Shown(s, 0)[2], w)

Contents(s, a, to) == ~s.torn => ListOK(s, a) /\ \A p \in a \ s.lost : Shown(s, p) = to[p]

GuardsOK(gd, a) ==
  /\ gd \in GuardStates
  /\ \A g \in Guards : gd[g].page = NoPage => ~gd[g].dirty
  /\ \A g \in Guards : gd[g].page # NoPage => gd[g].page \in a

PinsMatch(gd, s) == \A p \in PageIds : Cardinality(Holding(gd, p)) = PinsOn(s, p)

\* The pins of a page are the guards that hold it; a pool is closed with no frame in use.
BufferInv ==
  /\ open \in {"closed", "open", "segv"}
  /\ allotted \in SUBSET (PageIds \ {0}) /\ put \in [PageIds -> Pairs]
  /\ GuardsOK(guard, allotted)
  /\ PoolOK(pool, Writers(guard))
  /\ \A p \in PageIds : Cardinality(Holding(guard, p)) <= PinsOn(pool, p)
  /\ open # "segv" => PinsMatch(guard, pool)
  /\ open = "closed" => pool.lru = <<>> /\ \A g \in Guards : guard[g].page = NoPage
  /\ IF open = "closed" /\ pool.empty THEN pool.torn \/ allotted = {}
     ELSE Contents(pool, allotted, put)

\* A pool with every frame free.
LEMMA AllFree ==
  ASSUME NEW s \in PoolStates, s.page = [f \in Frames |-> NoPage],
         s.dirty = [f \in Frames |-> FALSE], s.free = [i \in Frames |-> i], s.lru = <<>>,
         s.empty => s.disk = [p \in PageIds |-> <<0, 0>>]
  PROVE  /\ PoolOK(s, {})
         /\ \A p \in PageIds :
              ~Manager!InTable(s, p) /\ Shown(s, p) = s.disk[p] /\ PinsOn(s, p) = 0
<1>1. /\ s.free \in Seq(Frames) /\ Len(s.free) = CACHE_CAPACITY /\ Distinct(s.free)
      /\ Members(s.free) = Frames
  BY BufferConstants DEF Distinct, Members
<1>2. s.lru \in Seq(Frames) /\ Len(s.lru) = 0 /\ Distinct(s.lru) /\ Members(s.lru) = {}
  BY DEF Distinct, Members
<1>3. PoolOK(s, {})
  <2>1. Len(s.free) + Len(s.lru) = CACHE_CAPACITY
    BY <1>1, <1>2, BufferConstants
  <2>2. \A f \in Frames : s.page[f] = NoPage /\ ~s.dirty[f]
    OBVIOUS
  <2> QED BY <1>1, <1>2, <2>1, <2>2 DEF PoolOK
<1>4. ASSUME NEW p \in PageIds PROVE ~Manager!InTable(s, p)
  BY BufferConstants DEF Manager!InTable, Frames
<1> QED BY <1>3, <1>4 DEF Shown, PinsOn

LEMMA ListSurvives ==
  ASSUME NEW s, NEW t, NEW a, ListOK(s, a), a \subseteq PageIds \ {0},
         \A p \in PageIds \ a : Shown(t, p) = Shown(s, p)
  PROVE  ListOK(t, a)
<1>1. PICK w \in Seq(PageIds) :
        /\ Distinct(w) /\ Members(w) = (1 .. Shown(s, 0)[1] - 1) \ a
        /\ Links([p \in PageIds |-> Shown(s, p)[1]], -1, Shown(s, 0)[2], w)
  BY DEF ListOK
<1>2. Shown(t, 0) = Shown(s, 0)
  BY BufferConstants
<1> DEFINE nx == [p \in PageIds |-> Shown(s, p)[1]]
           my == [p \in PageIds |-> Shown(t, p)[1]]
<1>3. \A x \in Members(w) : my[x] = nx[x]
  <2>1. \A x \in Members(w) : x \in PageIds /\ x \notin a
    BY <1>1 DEF Members
  <2> QED BY <2>1
<1> HIDE DEF nx, my
<1>4. Links(my, -1, Shown(s, 0)[2], w)
  <2>1. Links(nx, -1, Shown(s, 0)[2], w)
    BY <1>1 DEF nx
  <2> QED BY <2>1, <1>3, LinksKept
<1> QED BY <1>1, <1>2, <1>4 DEF ListOK, my

\* AllocPage takes the first page of the list.
LEMMA ListPopped ==
  ASSUME NEW s, NEW t, NEW a, ListOK(s, a), a \subseteq PageIds \ {0},
         NEW p, p = Shown(s, 0)[2], p # -1,
         p \in PageIds \ (a \cup {0})
           => /\ Shown(t, 0)[1] = Shown(s, 0)[1] /\ Shown(t, 0)[2] = Shown(s, p)[1]
              /\ \A q \in PageIds \ (a \cup {0, p}) : Shown(t, q) = Shown(s, q)
  PROVE  p \in PageIds \ {0} /\ p \notin a /\ ListOK(t, a \cup {p})
<1>1. PICK w \in Seq(PageIds) :
        /\ Distinct(w) /\ Members(w) = (1 .. Shown(s, 0)[1] - 1) \ a
        /\ Links([q \in PageIds |-> Shown(s, q)[1]], -1, Shown(s, 0)[2], w)
  BY DEF ListOK
<1>2. w # <<>> /\ p = w[1]
  BY <1>1 DEF Links
<1>3. Shown(s, 0)[1] \in 1 .. LastPage + 1 /\ a \subseteq 1 .. Shown(s, 0)[1] - 1
  BY DEF ListOK
<1> DEFINE v == Tail(w)
           nx == [q \in PageIds |-> Shown(s, q)[1]]
           my == [q \in PageIds |-> Shown(t, q)[1]]
<1>4. /\ v \in Seq(PageIds) /\ Distinct(v) /\ Members(v) = Members(w) \ {w[1]}
      /\ w[1] \in PageIds /\ w[1] \in Members(w)
  BY <1>1, <1>2, TailIs
<1>5. p \in PageIds \ (a \cup {0}) /\ p \in 1 .. Shown(s, 0)[1] - 1
  BY <1>1, <1>2, <1>4
<1>6. /\ Shown(t, 0)[1] = Shown(s, 0)[1] /\ Shown(t, 0)[2] = nx[p]
      /\ \A q \in PageIds \ (a \cup {0, p}) : my[q] = nx[q]
  BY <1>5
<1>7. \A x \in Members(w) \ {w[1]} : my[x] = nx[x]
  <2>1. \A x \in Members(w) : x \in PageIds /\ x \notin a /\ x # 0
    <3>1. \A x \in Members(w) : x \in PageIds
      BY DEF Members
    <3> QED BY <3>1, <1>1
  <2> HIDE DEF nx, my
  <2> QED BY <2>1, <1>2, <1>6
<1> HIDE DEF nx, my
<1>8. Links(my, -1, nx[p], v)
  <2>1. Links(nx, -1, p, w)
    BY <1>1 DEF nx
  <2>2. Links(my, -1, nx[p], Tail(w))
    BY <1>1, <1>2, <1>7, <2>1, Popped
  <2> QED BY <2>2
<1> HIDE DEF v
<1>9. Members(v) = (1 .. Shown(t, 0)[1] - 1) \ (a \cup {p})
  BY <1>1, <1>2, <1>4, <1>6
<1>10. a \cup {p} \subseteq 1 .. Shown(t, 0)[1] - 1
  BY <1>3, <1>5, <1>6
<1>11. ListOK(t, a \cup {p})
  BY <1>3, <1>4, <1>6, <1>8, <1>9, <1>10 DEF ListOK, my
<1> QED BY <1>5, <1>11

\* FreePage puts the page in front of it.
LEMMA ListPushed ==
  ASSUME NEW s, NEW t, NEW a, ListOK(s, a), a \subseteq PageIds \ {0}, NEW p \in a,
         Shown(t, 0)[1] = Shown(s, 0)[1], Shown(t, 0)[2] = p,
         Shown(t, p)[1] = Shown(s, 0)[2],
         \A q \in PageIds \ (a \cup {0}) : Shown(t, q) = Shown(s, q)
  PROVE  ListOK(t, a \ {p})
<1>1. PICK w \in Seq(PageIds) :
        /\ Distinct(w) /\ Members(w) = (1 .. Shown(s, 0)[1] - 1) \ a
        /\ Links([q \in PageIds |-> Shown(s, q)[1]], -1, Shown(s, 0)[2], w)
  BY DEF ListOK
<1>2. /\ Shown(s, 0)[1] \in 1 .. LastPage + 1 /\ a \subseteq 1 .. Shown(s, 0)[1] - 1
      /\ p \in PageIds /\ p \notin Members(w)
  BY <1>1 DEF ListOK
<1> DEFINE v == <<p>> \o w
           nx == [q \in PageIds |-> Shown(s, q)[1]]
           my == [q \in PageIds |-> Shown(t, q)[1]]
<1>3. v \in Seq(PageIds) /\ Distinct(v) /\ Members(v) = Members(w) \cup {p}
  BY <1>1, <1>2, InFront
<1>4. my[p] = Shown(s, 0)[2] /\ \A x \in Members(w) : my[x] = nx[x]
  <2>1. \A x \in Members(w) : x \in PageIds /\ x \notin a /\ x # 0
    <3>1. \A x \in Members(w) : x \in PageIds
      BY DEF Members
    <3> QED BY <3>1, <1>1
  <2> QED BY <2>1, <1>2
<1> HIDE DEF nx, my
<1>5. Links(my, -1, p, v)
  <2>1. Links(nx, -1, Shown(s, 0)[2], w)
    BY <1>1 DEF nx
  <2> QED BY <1>1, <1>2, <1>4, <2>1, Pushed
<1> HIDE DEF v
<1>6. Members(v) = (1 .. Shown(t, 0)[1] - 1) \ (a \ {p})
  BY <1>1, <1>2, <1>3
<1> QED BY <1>2, <1>3, <1>5, <1>6 DEF ListOK, my

\* AllocPage without a free page makes the file longer.
LEMMA ListGrown ==
  ASSUME NEW s, NEW t, NEW a, ListOK(s, a), a \subseteq PageIds \ {0},
         Shown(s, 0)[2] = -1, NEW p, p = Shown(s, 0)[1], p <= LastPage,
         Shown(t, 0)[1] = p + 1, Shown(t, 0)[2] = -1
  PROVE  p \in PageIds \ {0} /\ p \notin a /\ ListOK(t, a \cup {p})
<1>1. PICK w \in Seq(PageIds) :
        /\ Distinct(w) /\ Members(w) = (1 .. Shown(s, 0)[1] - 1) \ a
        /\ Links([q \in PageIds |-> Shown(s, q)[1]], -1, Shown(s, 0)[2], w)
  BY DEF ListOK
<1>2. p \in 1 .. LastPage + 1 /\ a \subseteq 1 .. p - 1 /\ LastPage \in Nat
      /\ PageIds = 0 .. LastPage
  BY BufferConstants DEF ListOK
<1>3. p \in PageIds \ {0} /\ p \notin a /\ p \in Nat
  BY <1>2
<1>4. w = <<>>
  <2>1. ASSUME w # <<>> PROVE FALSE
    <3>1. w[1] \in PageIds /\ w[1] = -1
      BY <1>1, <2>1, TailIs DEF Links
    <3> QED BY <3>1, <1>2
  <2> QED BY <2>1
<1>5. (1 .. p - 1) \ a = {}
  <2>1. Members(w) = {}
    BY <1>4 DEF Members
  <2> QED BY <1>1, <2>1
<1>6. 1 .. p = (1 .. p - 1) \cup {p}
  BY <1>3
<1> DEFINE v == <<>>
           my == [q \in PageIds |-> Shown(t, q)[1]]
<1>7. v \in Seq(PageIds) /\ Distinct(v) /\ Members(v) = {} /\ Links(my, -1, -1, v)
  BY DEF Distinct, Members, Links
<1>8. (p + 1) - 1 = p
  BY <1>3
<1> HIDE DEF v
<1>9. Members(v) = (1 .. (p + 1) - 1) \ (a \cup {p}) /\ a \cup {p} \subseteq 1 .. (p + 1) - 1
  BY <1>2, <1>5, <1>6, <1>7, <1>8
<1>10. p + 1 \in 1 .. LastPage + 1
  BY <1>2, <1>3
<1>11. ListOK(t, a \cup {p})
  BY <1>7, <1>9, <1>10 DEF ListOK
<1> QED BY <1>3, <1>11

LEMMA ContentsSurvive ==
  ASSUME NEW s, NEW t, allotted \subseteq PageIds \ {0}, Contents(s, allotted, put),
         Survives(s, t)
  PROVE  Contents(t, allotted, put)
<1> SUFFICES ASSUME ~t.torn
             PROVE  ListOK(t, allotted) /\ \A p \in allotted \ t.lost : Shown(t, p) = put[p]
  BY DEF Contents
<1>1. /\ ~s.torn /\ s.lost \subseteq t.lost
      /\ \A p \in PageIds : Shown(t, p) = Shown(s, p) \/ p \in allotted \cap t.lost
  BY DEF Survives
<1>2. ListOK(s, allotted) /\ \A p \in allotted \ s.lost : Shown(s, p) = put[p]
  BY <1>1 DEF Contents
<1>3. ListOK(t, allotted)
  <2>1. \A p \in PageIds \ allotted : Shown(t, p) = Shown(s, p)
    BY <1>1
  <2> QED BY <1>2, <2>1, ListSurvives
<1> QED BY <1>1, <1>2, <1>3

\* What FetchGuard, Drop, Move and MarkDirty make of the guards.
Taken(gd, g, p)  == [gd EXCEPT ![g].page = p]
Released(gd, g)  == [gd EXCEPT ![g] = Manager!NoGuard]
Moved(gd, g, h)  == [gd EXCEPT ![g] = gd[h], ![h] = Manager!NoGuard]
Marked(gd, g)    == [gd EXCEPT ![g].dirty = TRUE]

LEMMA NoHolders ==
  ASSUME NEW gd, NEW a, GuardsOK(gd, a), \A g \in Guards : gd[g].page = NoPage
  PROVE  Writers(gd) = {} /\ \A p \in PageIds : Cardinality(Holding(gd, p)) = 0
<1>1. Writers(gd) = {}
  BY DEF GuardsOK, Writers
<1>2. ASSUME NEW p \in PageIds PROVE Holding(gd, p) = {}
  BY BufferConstants DEF Holding
<1> QED BY <1>1, <1>2, FS_EmptySet

LEMMA NoGuardIs ==
  /\ Manager!NoGuard \in [page : PageIds \cup {NoPage}, dirty : BOOLEAN]
  /\ Manager!NoGuard.page = NoPage /\ ~Manager!NoGuard.dirty
BY DEF Manager!NoGuard

\* FetchGuard
LEMMA GuardTaken ==
  ASSUME NEW gd, NEW a, GuardsOK(gd, a), NEW g \in Guards, gd[g].page = NoPage,
         NEW p \in PageIds, p \in a,
         NEW nd, nd = Taken(gd, g, p)
  PROVE  /\ GuardsOK(nd, a) /\ Writers(nd) = Writers(gd)
         /\ Cardinality(Holding(nd, p)) = Cardinality(Holding(gd, p)) + 1
         /\ \A q \in PageIds \ {p} : Cardinality(Holding(nd, q)) = Cardinality(Holding(gd, q))
<1>1. /\ gd \in GuardStates /\ p # NoPage /\ ~gd[g].dirty
      /\ \A h \in Guards : gd[h].page = NoPage => ~gd[h].dirty
      /\ \A h \in Guards : gd[h].page # NoPage => gd[h].page \in a
  BY BufferConstants DEF GuardsOK
<1>2. /\ nd \in GuardStates /\ nd[g].page = p /\ ~nd[g].dirty
      /\ \A h \in Guards \ {g} : nd[h] = gd[h]
  BY <1>1 DEF GuardStates, Taken
<1>3. GuardsOK(nd, a)
  BY <1>1, <1>2 DEF GuardsOK
<1>4. Writers(nd) = Writers(gd)
  <2>1. \A h \in Guards : nd[h].dirty <=> gd[h].dirty
    BY <1>1, <1>2
  <2>2. \A h \in Guards : gd[h].dirty => nd[h].page = gd[h].page
    BY <1>1, <1>2
  <2> QED BY <2>1, <2>2 DEF Writers
<1>5. Holding(nd, p) = Holding(gd, p) \cup {g} /\ g \notin Holding(gd, p)
  BY <1>1, <1>2 DEF Holding
<1>6. \A q \in PageIds \ {p} : Holding(nd, q) = Holding(gd, q)
  BY <1>1, <1>2, BufferConstants DEF Holding
<1>7. Cardinality(Holding(nd, p)) = Cardinality(Holding(gd, p)) + 1
  <2>1. IsFiniteSet(Holding(gd, p))
    <3>1. Holding(gd, p) \subseteq Guards
      BY DEF Holding
    <3> QED BY <3>1, GuardsFinite, FS_Subset
  <2> QED BY <1>5, <2>1, FS_AddElement
<1> QED BY <1>3, <1>4, <1>6, <1>7

\* Drop
LEMMA GuardReleased ==
  ASSUME NEW gd, NEW a, GuardsOK(gd, a), a \subseteq PageIds, NEW g \in Guards,
         NEW p, p = gd[g].page, p # NoPage,
         NEW nd, nd = Released(gd, g)
  PROVE  /\ GuardsOK(nd, a) /\ nd[g].page = NoPage /\ p \in PageIds
         /\ Writers(nd) \subseteq Writers(gd)
         /\ \A q \in Writers(gd) \ Writers(nd) : q = p /\ gd[g].dirty
         /\ p \in Writers(nd) => Cardinality(Holding(nd, p)) > 0
         /\ Cardinality(Holding(nd, p)) = Cardinality(Holding(gd, p)) - 1
         /\ Cardinality(Holding(gd, p)) > 0
         /\ \A q \in PageIds \ {p} : Cardinality(Holding(nd, q)) = Cardinality(Holding(gd, q))
<1>1. /\ gd \in GuardStates /\ p \in PageIds
      /\ \A h \in Guards : gd[h].page = NoPage => ~gd[h].dirty
      /\ \A h \in Guards : gd[h].page # NoPage => gd[h].page \in a
  BY DEF GuardsOK
<1>2. /\ nd \in GuardStates /\ nd[g].page = NoPage /\ ~nd[g].dirty
      /\ \A h \in Guards \ {g} : nd[h] = gd[h]
  BY <1>1, NoGuardIs DEF GuardStates, Released
<1>3. GuardsOK(nd, a)
  BY <1>1, <1>2 DEF GuardsOK
<1>4. /\ Writers(nd) \subseteq Writers(gd)
      /\ \A q \in Writers(gd) \ Writers(nd) : q = p /\ gd[g].dirty
  BY <1>2 DEF Writers
<1>5. Holding(nd, p) = Holding(gd, p) \ {g} /\ g \in Holding(gd, p)
  BY <1>2 DEF Holding
<1>6. \A q \in PageIds \ {p} : Holding(nd, q) = Holding(gd, q)
  BY <1>1, <1>2, BufferConstants DEF Holding
<1>7. IsFiniteSet(Holding(gd, p)) /\ IsFiniteSet(Holding(nd, p))
  <2>1. Holding(gd, p) \subseteq Guards /\ Holding(nd, p) \subseteq Guards
    BY DEF Holding
  <2> QED BY <2>1, GuardsFinite, FS_Subset
<1>8. /\ Cardinality(Holding(nd, p)) = Cardinality(Holding(gd, p)) - 1
      /\ Cardinality(Holding(nd, p)) \in Nat /\ Cardinality(Holding(gd, p)) \in Nat
  BY <1>5, <1>7, FS_RemoveElement, FS_CardinalityType
<1>9. p \in Writers(nd) => Cardinality(Holding(nd, p)) > 0
  <2>1. p \in Writers(nd) => Holding(nd, p) # {}
    BY DEF Writers, Holding
  <2>2. Holding(nd, p) # {} => Cardinality(Holding(nd, p)) # 0
    BY <1>7, FS_EmptySet
  <2>3. \A n \in Nat : n # 0 => n > 0
    OBVIOUS
  <2> QED BY <1>8, <2>1, <2>2, <2>3
<1>10. Cardinality(Holding(gd, p)) > 0
  <2>1. \A n, k \in Nat : n = k - 1 => k > 0
    OBVIOUS
  <2> QED BY <1>8, <2>1
<1> QED BY <1>1, <1>2, <1>3, <1>4, <1>6, <1>8, <1>9, <1>10

\* Move, once the guard assigned to is empty
LEMMA GuardMoved ==
  ASSUME NEW gd, NEW a, GuardsOK(gd, a), NEW g \in Guards, NEW h \in Guards \ {g},
         gd[g].page = NoPage,
         NEW nd, nd = Moved(gd, g, h)
  PROVE  /\ GuardsOK(nd, a) /\ Writers(nd) = Writers(gd)
         /\ \A q \in PageIds : Cardinality(Holding(nd, q)) = Cardinality(Holding(gd, q))
<1>1. /\ gd \in GuardStates /\ ~gd[g].dirty
      /\ \A k \in Guards : gd[k].page = NoPage => ~gd[k].dirty
      /\ \A k \in Guards : gd[k].page # NoPage => gd[k].page \in a
  BY DEF GuardsOK
<1>2. /\ nd \in GuardStates /\ nd[h].page = NoPage /\ ~nd[h].dirty /\ nd[g] = gd[h]
      /\ \A k \in Guards \ {g, h} : nd[k] = gd[k]
  BY <1>1, NoGuardIs DEF GuardStates, Moved
<1>3. GuardsOK(nd, a)
  BY <1>1, <1>2 DEF GuardsOK
<1>4. Writers(nd) = Writers(gd)
  <2>1. ASSUME NEW k \in Guards, nd[k].dirty PROVE nd[k].page \in Writers(gd)
    BY <1>2, <2>1 DEF Writers
  <2>2. ASSUME NEW k \in Guards, gd[k].dirty PROVE gd[k].page \in Writers(nd)
    BY <1>1, <1>2, <2>2 DEF Writers
  <2> QED BY <2>1, <2>2 DEF Writers
<1>5. ASSUME NEW q \in PageIds PROVE Cardinality(Holding(nd, q)) = Cardinality(Holding(gd, q))
  <2>1. IsFiniteSet(Holding(gd, q)) /\ g \notin Holding(gd, q)
    <3>1. Holding(gd, q) \subseteq Guards
      BY DEF Holding
    <3>2. g \notin Holding(gd, q)
      BY BufferConstants DEF Holding
    <3> QED BY <3>1, <3>2, GuardsFinite, FS_Subset
  <2>2. CASE gd[h].page = q
    <3>1. Holding(nd, q) = (Holding(gd, q) \ {h}) \cup {g} /\ h \in Holding(gd, q)
      BY <1>1, <1>2, <2>2, BufferConstants DEF Holding
    <3>2. /\ IsFiniteSet(Holding(gd, q) \ {h}) /\ g \notin Holding(gd, q) \ {h}
          /\ Cardinality(Holding(gd, q) \ {h}) = Cardinality(Holding(gd, q)) - 1
          /\ Cardinality(Holding(gd, q)) \in Nat
      BY <2>1, <3>1, FS_RemoveElement, FS_CardinalityType
    <3>3. Cardinality(Holding(nd, q)) = Cardinality(Holding(gd, q) \ {h}) + 1
      BY <3>1, <3>2, FS_AddElement
    <3> QED BY <3>2, <3>3
  <2>3. CASE gd[h].page # q
    <3>1. Holding(nd, q) = Holding(gd, q)
      BY <1>1, <1>2, <2>3, BufferConstants DEF Holding
    <3> QED BY <3>1
  <2> QED BY <2>2, <2>3
<1> QED BY <1>3, <1>4, <1>5

\* MarkDirty
LEMMA GuardWrites ==
  ASSUME NEW gd, NEW a, GuardsOK(gd, a), NEW g \in Guards, gd[g].page # NoPage,
         NEW nd, nd = Marked(gd, g)
  PROVE  /\ GuardsOK(nd, a) /\ Writers(nd) = Writers(gd) \cup {gd[g].page}
         /\ \A q \in PageIds : Holding(nd, q) = Holding(gd, q)
<1>1. /\ gd \in GuardStates
      /\ \A k \in Guards : gd[k].page = NoPage => ~gd[k].dirty
      /\ \A k \in Guards : gd[k].page # NoPage => gd[k].page \in a
  BY DEF GuardsOK
<1>2. /\ nd \in GuardStates /\ nd[g].page = gd[g].page /\ nd[g].dirty
      /\ \A k \in Guards \ {g} : nd[k] = gd[k]
  BY <1>1 DEF GuardStates, Marked
<1>3. GuardsOK(nd, a)
  BY <1>1, <1>2 DEF GuardsOK
<1>4. Writers(nd) = Writers(gd) \cup {gd[g].page}
  <2>1. ASSUME NEW k \in Guards, nd[k].dirty PROVE nd[k].page \in Writers(gd) \cup {gd[g].page}
    BY <1>2, <2>1 DEF Writers
  <2>2. ASSUME NEW k \in Guards, gd[k].dirty PROVE gd[k].page \in Writers(nd)
    BY <1>1, <1>2, <2>2 DEF Writers
  <2>3. gd[g].page \in Writers(nd)
    BY <1>2 DEF Writers
  <2> QED BY <2>1, <2>2, <2>3 DEF Writers
<1>5. \A k \in Guards : nd[k].page = gd[k].page
  BY <1>2
<1>6. \A q \in PageIds : Holding(nd, q) = Holding(gd, q)
  BY <1>5 DEF Holding
<1> QED BY <1>3, <1>4, <1>6

-----------------------------------------------------------------------------
(* BufferInv holds initially, and whatever the buffer pool does *)

LEMMA BufferInitially == Manager!Init => BufferInv
<1> SUFFICES ASSUME Manager!Init PROVE BufferInv
  OBVIOUS
<1>1. /\ pool = [disk |-> [p \in PageIds |-> <<0, 0>>], page |-> [f \in Frames |-> NoPage],
                 data |-> [f \in Frames |-> <<0, 0>>], pin |-> [f \in Frames |-> 0],
                 dirty |-> [f \in Frames |-> FALSE], free |-> [i \in Frames |-> i],
                 lru |-> <<>>, empty |-> TRUE, lost |-> {}, torn |-> FALSE]
      /\ open = "closed" /\ guard = [g \in Guards |-> Manager!NoGuard]
      /\ allotted = {} /\ put = [p \in PageIds |-> <<0, 0>>]
  BY DEF Manager!Init, Manager!EveryFrame, PageIds, Frames
<1>2. <<0, 0>> \in Pairs
  BY DEF Pairs
<1>3. [i \in Frames |-> i] \in Seq(Frames)
  BY BufferConstants
<1>4. /\ pool.disk = [p \in PageIds |-> <<0, 0>>] /\ pool.page = [f \in Frames |-> NoPage]
      /\ pool.data = [f \in Frames |-> <<0, 0>>] /\ pool.pin = [f \in Frames |-> 0]
      /\ pool.dirty = [f \in Frames |-> FALSE] /\ pool.free = [i \in Frames |-> i]
      /\ pool.lru = <<>> /\ pool.empty = TRUE /\ pool.lost = {} /\ pool.torn = FALSE
  BY <1>1
<1>5. pool \in PoolStates
  <2>1. /\ [p \in PageIds |-> <<0, 0>>] \in [PageIds -> Pairs]
        /\ [f \in Frames |-> NoPage] \in [Frames -> PageIds \cup {NoPage}]
        /\ [f \in Frames |-> <<0, 0>>] \in [Frames -> Pairs]
        /\ [f \in Frames |-> 0] \in [Frames -> Nat]
        /\ [f \in Frames |-> FALSE] \in [Frames -> BOOLEAN]
        /\ <<>> \in Seq(Frames)
    BY <1>2
  <2> QED BY <1>1, <1>3, <2>1 DEF PoolStates
<1>6. /\ PoolOK(pool, {})
      /\ \A p \in PageIds :
           ~Manager!InTable(pool, p) /\ Shown(pool, p) = pool.disk[p] /\ PinsOn(pool, p) = 0
  BY <1>4, <1>5, AllFree
<1>7. GuardsOK(guard, allotted) /\ \A g \in Guards : guard[g].page = NoPage
  BY <1>1, NoGuardIs DEF GuardsOK, GuardStates
<1>8. Writers(guard) = {} /\ \A p \in PageIds : Cardinality(Holding(guard, p)) = 0
  BY <1>7, NoHolders
<1>9. PoolOK(pool, Writers(guard))
  BY <1>6, <1>8
<1>10. PinsMatch(guard, pool)
  BY <1>6, <1>8 DEF PinsMatch
<1>11. put \in [PageIds -> Pairs]
  BY <1>1, <1>2
<1>12. \A p \in PageIds : Cardinality(Holding(guard, p)) <= PinsOn(pool, p)
  BY <1>6, <1>8
<1> QED BY <1>1, <1>4, <1>7, <1>9, <1>10, <1>11, <1>12 DEF BufferInv

\* Drop, and the first half of Move: the pool that is left, and the guards.
LEMMA GuardDropKeeps ==
  ASSUME BufferInv, open = "open", NEW g \in Guards,
         NEW nd, nd = Released(guard, g)
  PROVE  LET t == Manager!Dropped(pool, g)
         IN  /\ GuardsOK(nd, allotted) /\ nd[g].page = NoPage
             /\ PoolOK(t, Writers(nd)) /\ PinsMatch(nd, t)
             /\ Contents(t, allotted, put)
<1> DEFINE t == Manager!Dropped(pool, g)
           p == guard[g].page
           d == guard[g].dirty
<1>1. /\ GuardsOK(guard, allotted) /\ PoolOK(pool, Writers(guard)) /\ PinsMatch(guard, pool)
      /\ Contents(pool, allotted, put) /\ allotted \subseteq PageIds \ {0}
  BY DEF BufferInv
<1>2. CASE p = NoPage
  <2>1. t = pool
    BY <1>2 DEF Manager!Dropped
  <2>2. guard \in GuardStates /\ ~d
    BY <1>1, <1>2 DEF GuardsOK
  <2>3. guard[g] = Manager!NoGuard
    BY <1>2, <2>2 DEF GuardStates, Manager!NoGuard
  <2>4. nd = guard
    BY <2>2, <2>3 DEF GuardStates, Released
  <2> QED BY <1>1, <1>2, <2>1, <2>4
<1>3. CASE p # NoPage
  <2>1. t = Manager!UnpinPage(pool, p, d)
    BY <1>3 DEF Manager!Dropped
  <2>2. d \in BOOLEAN
    BY <1>1 DEF GuardsOK, GuardStates
  <2> HIDE DEF p, d
  <2>3. /\ GuardsOK(nd, allotted) /\ nd[g].page = NoPage /\ p \in PageIds
        /\ Writers(nd) \subseteq Writers(guard)
        /\ \A q \in Writers(guard) \ Writers(nd) : q = p /\ d
        /\ p \in Writers(nd) => Cardinality(Holding(nd, p)) > 0
        /\ Cardinality(Holding(nd, p)) = Cardinality(Holding(guard, p)) - 1
        /\ Cardinality(Holding(guard, p)) > 0
        /\ \A q \in PageIds \ {p} :
             Cardinality(Holding(nd, q)) = Cardinality(Holding(guard, q))
    <3>1. allotted \subseteq PageIds
      BY <1>1
    <3>2. p = guard[g].page /\ d = guard[g].dirty
      BY DEF p, d
    <3> QED BY <1>1, <1>3, <3>1, <3>2, GuardReleased
  <2>4. \A q \in PageIds : Cardinality(Holding(guard, q)) = PinsOn(pool, q) /\ PinsOn(pool, q) \in Nat
    BY <1>1, ShownIsPair DEF PinsMatch
  <2>5. PinsOn(pool, p) > 0 /\ (p \in Writers(nd) => PinsOn(pool, p) > 1)
    <3>1. PinsOn(pool, p) \in Nat /\ Cardinality(Holding(nd, p)) = PinsOn(pool, p) - 1
      BY <2>3, <2>4
    <3> QED BY <3>1, <2>3, <2>4
  <2>6. /\ PoolOK(t, Writers(nd)) /\ PinsOn(t, p) = PinsOn(pool, p) - 1
        /\ \A q \in PageIds \ {p} : PinsOn(t, q) = PinsOn(pool, q)
        /\ \A q \in PageIds : Shown(t, q) = Shown(pool, q)
        /\ t.lost = pool.lost /\ t.torn = pool.torn
    <3> HIDE DEF t
    <3> DEFINE u == Manager!UnpinPage(pool, p, d)
               still == Writers(nd)
    <3>1. still \in SUBSET Writers(guard)
      BY <2>3
    <3>2. (\A q \in Writers(guard) \ still : q = p /\ d) /\ (p \in still => PinsOn(pool, p) > 1)
      BY <2>3, <2>5
    <3> HIDE DEF still
    <3>3. /\ PoolOK(u, still) /\ PinsOn(u, p) = PinsOn(pool, p) - 1
          /\ \A q \in PageIds \ {p} : PinsOn(u, q) = PinsOn(pool, q)
          /\ \A q \in PageIds : Shown(u, q) = Shown(pool, q)
          /\ u.lost = pool.lost /\ u.torn = pool.torn
      BY <1>1, <2>2, <2>3, <2>5, <3>1, <3>2, UnpinKeeps
    <3>4. t = u
      BY <2>1 DEF t
    <3> HIDE DEF u
    <3> QED BY <3>3, <3>4 DEF still
  <2> HIDE DEF t
  <2>7. PinsMatch(nd, t)
    BY <2>3, <2>4, <2>6 DEF PinsMatch
  <2>8. Contents(t, allotted, put)
    <3>1. Survives(pool, t)
      BY <2>6 DEF Survives
    <3> QED BY <1>1, <3>1, ContentsSurvive
  <2> QED BY <2>3, <2>6, <2>7, <2>8 DEF t
<1> QED BY <1>2, <1>3

\* With the pool open and its pins matched, the rest of BufferInv is what it says of
\* the pool, the guards and the contents.
LEMMA OpenOK ==
  ASSUME allotted' \in SUBSET (PageIds \ {0}), put' \in [PageIds -> Pairs], open' = "open",
         GuardsOK(guard', allotted'), PoolOK(pool', Writers(guard')), PinsMatch(guard', pool'),
         Contents(pool', allotted', put')
  PROVE  BufferInv'
<1>1. \A p \in PageIds : Cardinality(Holding(guard', p)) <= PinsOn(pool', p)
  <2> TAKE p \in PageIds
  <2>1. PinsOn(pool', p) \in Nat
    BY ShownIsPair
  <2>2. \A n \in Nat : n <= n
    OBVIOUS
  <2> QED BY <2>1, <2>2 DEF PinsMatch
<1> QED BY <1>1 DEF BufferInv

LEMMA DropOK ==
  ASSUME BufferInv, open = "open", NEW g \in Guards, Manager!Drop(g)
  PROVE  BufferInv'
<1>1. /\ pool' = Manager!Dropped(pool, g) /\ guard' = [guard EXCEPT ![g] = Manager!NoGuard]
      /\ open' = open /\ allotted' = allotted /\ put' = put
  BY DEF Manager!Drop
<1>2. allotted \in SUBSET (PageIds \ {0}) /\ put \in [PageIds -> Pairs]
  BY DEF BufferInv
<1> DEFINE nd == Released(guard, g)
           t == Manager!Dropped(pool, g)
<1>3. /\ GuardsOK(nd, allotted) /\ PoolOK(t, Writers(nd)) /\ PinsMatch(nd, t)
      /\ Contents(t, allotted, put)
  BY GuardDropKeeps
<1>4. pool' = t /\ guard' = nd
  BY <1>1 DEF Released
<1> HIDE DEF nd, t
<1> QED BY <1>1, <1>2, <1>3, <1>4, OpenOK

LEMMA MoveOK ==
  ASSUME BufferInv, open = "open", NEW g \in Guards, NEW h \in Guards \ {g}, Manager!Move(g, h)
  PROVE  BufferInv'
<1> DEFINE nd == Released(guard, g)
           md == Moved(nd, g, h)
           t == Manager!Dropped(pool, g)
<1>1. /\ pool' = t /\ open' = open /\ allotted' = allotted /\ put' = put
      /\ guard' = [guard EXCEPT ![g] = guard[h], ![h] = Manager!NoGuard]
  BY DEF Manager!Move
<1>2. /\ allotted \in SUBSET (PageIds \ {0}) /\ put \in [PageIds -> Pairs]
      /\ guard \in GuardStates
  BY DEF BufferInv, GuardsOK
<1>3. guard' = md
  BY <1>1, <1>2 DEF GuardStates, Moved, Released
<1>4. /\ GuardsOK(nd, allotted) /\ nd[g].page = NoPage /\ PoolOK(t, Writers(nd))
      /\ PinsMatch(nd, t) /\ Contents(t, allotted, put)
  BY GuardDropKeeps
<1> HIDE DEF nd, t
<1>5. /\ GuardsOK(md, allotted) /\ Writers(md) = Writers(nd)
      /\ \A q \in PageIds : Cardinality(Holding(md, q)) = Cardinality(Holding(nd, q))
  BY <1>4, GuardMoved
<1> HIDE DEF md
<1>6. PinsMatch(md, t) /\ PoolOK(t, Writers(md))
  BY <1>4, <1>5 DEF PinsMatch
<1> QED BY <1>1, <1>2, <1>3, <1>4, <1>5, <1>6, OpenOK

LEMMA FetchGuardOK ==
  ASSUME BufferInv, open = "open", NEW g \in Guards, NEW p \in PageIds, Manager!FetchGuard(g, p)
  PROVE  BufferInv'
<1>1. CASE UNCHANGED buffer_vars
  BY <1>1 DEF buffer_vars, BufferInv
<1>2. CASE ~UNCHANGED buffer_vars
  <2>1. /\ guard[g] = Manager!NoGuard /\ p \in allotted /\ pool' \in Manager!FetchPage(pool, p)
        /\ guard' = [guard EXCEPT ![g].page = p]
        /\ open' = open /\ allotted' = allotted /\ put' = put
    BY <1>2 DEF Manager!FetchGuard, Manager!vars, buffer_vars
  <2>2. /\ GuardsOK(guard, allotted) /\ PoolOK(pool, Writers(guard)) /\ PinsMatch(guard, pool)
        /\ Contents(pool, allotted, put) /\ allotted \in SUBSET (PageIds \ {0})
        /\ put \in [PageIds -> Pairs]
    BY DEF BufferInv
  <2> DEFINE t == pool'
             nd == guard'
  <2>3. PoolOK(t, Writers(guard)) /\ GotPage(pool, t, p)
    BY <2>1, <2>2, GotPageKeeps
  <2>4. /\ GuardsOK(nd, allotted) /\ Writers(nd) = Writers(guard)
        /\ Cardinality(Holding(nd, p)) = Cardinality(Holding(guard, p)) + 1
        /\ \A q \in PageIds \ {p} :
             Cardinality(Holding(nd, q)) = Cardinality(Holding(guard, q))
    <3>1. guard[g].page = NoPage
      BY <2>1, NoGuardIs
    <3> DEFINE md == Taken(guard, g, p)
    <3>2. nd = md
      BY <2>1 DEF Taken
    <3>3. p \in allotted
      BY <2>1
    <3>4. GuardsOK(guard, allotted)
      BY <2>2
    <3>5. /\ GuardsOK(md, allotted) /\ Writers(md) = Writers(guard)
          /\ Cardinality(Holding(md, p)) = Cardinality(Holding(guard, p)) + 1
          /\ \A q \in PageIds \ {p} :
               Cardinality(Holding(md, q)) = Cardinality(Holding(guard, q))
      <4> HIDE DEF nd
      <4> QED BY <3>1, <3>3, <3>4, GuardTaken
    <3> HIDE DEF md, nd
    <3> QED BY <3>2, <3>5
  <2> HIDE DEF t, nd
  <2>5. PinsMatch(nd, t)
    BY <2>2, <2>3, <2>4 DEF PinsMatch, GotPage
  <2>6. Contents(t, allotted, put)
    <3>1. Survives(pool, t) /\ allotted \subseteq PageIds \ {0}
      BY <2>2, <2>3 DEF GotPage
    <3> QED BY <2>2, <3>1, ContentsSurvive
  <2>7. PoolOK(t, Writers(nd))
    BY <2>3, <2>4
  <2> QED BY <2>1, <2>2, <2>4, <2>5, <2>6, <2>7, OpenOK DEF t, nd
<1> QED BY <1>1, <1>2

LEMMA WriteGuardOK ==
  ASSUME BufferInv, open = "open", NEW g \in Guards, NEW v \in {1}, Manager!WriteGuard(g, v)
  PROVE  BufferInv'
<1> DEFINE p == guard[g].page
           d == <<v, 0>>
           t == Manager!SetData(pool, p, d)
           nd == Marked(guard, g)
<1>1. /\ p # NoPage /\ pool' = t /\ guard' = nd /\ put' = [put EXCEPT ![p] = d]
      /\ open' = open /\ allotted' = allotted
  BY DEF Manager!WriteGuard, Marked
<1>2. /\ GuardsOK(guard, allotted) /\ PoolOK(pool, Writers(guard)) /\ PinsMatch(guard, pool)
      /\ Contents(pool, allotted, put) /\ allotted \in SUBSET (PageIds \ {0})
      /\ put \in [PageIds -> Pairs]
  BY DEF BufferInv
<1>3. p \in allotted /\ p \in PageIds \ {0} /\ d \in Pairs
  BY <1>1, <1>2 DEF GuardsOK, Pairs
<1>4. /\ GuardsOK(nd, allotted) /\ Writers(nd) = Writers(guard) \cup {p}
      /\ \A q \in PageIds : Holding(nd, q) = Holding(guard, q)
  BY <1>1, <1>2, GuardWrites
<1>5. PinsOn(pool, p) > 0
  <2>1. g \in Holding(guard, p)
    BY DEF Holding
  <2>2. IsFiniteSet(Holding(guard, p))
    <3>1. Holding(guard, p) \subseteq Guards
      BY DEF Holding
    <3> QED BY <3>1, GuardsFinite, FS_Subset
  <2>3. Cardinality(Holding(guard, p)) \in Nat /\ Cardinality(Holding(guard, p)) # 0
    BY <2>1, <2>2, FS_EmptySet, FS_CardinalityType
  <2>4. \A n \in Nat : n # 0 => n > 0
    OBVIOUS
  <2> HIDE DEF p
  <2> QED BY <1>2, <1>3, <2>3, <2>4 DEF PinsMatch
<1> HIDE DEF p, d, nd
<1>6. /\ PoolOK(t, Writers(guard) \cup {p}) /\ Shown(t, p) = d
      /\ \A q \in PageIds \ {p} : Shown(t, q) = Shown(pool, q)
      /\ \A q \in PageIds : PinsOn(t, q) = PinsOn(pool, q)
      /\ t.lost = pool.lost /\ t.torn = pool.torn
  BY <1>2, <1>3, <1>5, SetDataKeeps
<1> HIDE DEF t
<1> DEFINE to == [put EXCEPT ![p] = d]
<1>7. to \in [PageIds -> Pairs] /\ to[p] = d /\ \A q \in PageIds \ {p} : to[q] = put[q]
  BY <1>2, <1>3
<1> HIDE DEF to
<1>8. Contents(t, allotted, to)
  <2> SUFFICES ASSUME ~t.torn
               PROVE  ListOK(t, allotted) /\ \A q \in allotted \ t.lost : Shown(t, q) = to[q]
    BY DEF Contents
  <2>1. ListOK(pool, allotted) /\ \A q \in allotted \ pool.lost : Shown(pool, q) = put[q]
    BY <1>2, <1>6 DEF Contents
  <2>2. ListOK(t, allotted)
    <3>1. \A q \in PageIds \ allotted : Shown(t, q) = Shown(pool, q)
      BY <1>3, <1>6
    <3>2. allotted \subseteq PageIds \ {0}
      BY <1>2
    <3> QED BY <2>1, <3>1, <3>2, ListSurvives
  <2>3. ASSUME NEW q \in allotted \ t.lost PROVE Shown(t, q) = to[q]
    BY <1>2, <1>6, <1>7, <2>1
  <2> QED BY <2>2, <2>3
<1>9. PinsMatch(nd, t)
  BY <1>2, <1>4, <1>6 DEF PinsMatch
<1>10. PoolOK(t, Writers(nd))
  BY <1>4, <1>6
<1>11. pool' = t /\ guard' = nd /\ put' = to
  BY <1>1 DEF to
<1> QED BY <1>1, <1>2, <1>4, <1>7, <1>8, <1>9, <1>10, <1>11, OpenOK

\* Opening an empty file writes the header; any other file is left as it is.
LEMMA OpenPoolOK == ASSUME BufferInv, Manager!Open PROVE BufferInv'
<1>1. /\ open = "closed" /\ open' = "open" /\ guard' = guard /\ allotted' = allotted
      /\ put' = put
  BY DEF Manager!Open
<1>2. /\ GuardsOK(guard, allotted) /\ PoolOK(pool, Writers(guard)) /\ PinsMatch(guard, pool)
      /\ allotted \in SUBSET (PageIds \ {0}) /\ put \in [PageIds -> Pairs]
      /\ \A g \in Guards : guard[g].page = NoPage
      /\ IF pool.empty THEN pool.torn \/ allotted = {} ELSE Contents(pool, allotted, put)
  BY <1>1 DEF BufferInv
<1>3. CASE ~pool.empty
  <2>1. pool' = pool
    BY <1>3 DEF Manager!Open
  <2> QED BY <1>1, <1>2, <1>3, <2>1, OpenOK
<1>4. CASE pool.empty
  <2> DEFINE h == <<1, -1>>
  <2>1. PICK s \in Manager!FetchPage(pool, 0) :
          pool' \in Manager!FlushPage(Manager!UnpinPage(Manager!SetData(s, 0, h), 0, TRUE), 0)
    BY <1>4 DEF Manager!Open
  <2>2. Writers(guard) = {} /\ 0 \in PageIds /\ h \in Pairs
    BY <1>2, NoHolders, BufferConstants DEF Pairs
  <2> HIDE DEF h
  <2>3. PoolOK(s, {}) /\ GotPage(pool, s, 0) /\ PinsOn(pool, 0) \in Nat
    BY <1>2, <2>1, <2>2, GotPageKeeps, ShownIsPair
  <2>4. PinsOn(s, 0) > 0 /\ PinsOn(s, 0) = PinsOn(pool, 0) + 1
    BY <2>3 DEF GotPage
  <2> DEFINE u == Manager!SetData(s, 0, h)
             x == Manager!UnpinPage(u, 0, TRUE)
  <2>5. /\ PoolOK(u, {} \cup {0}) /\ Shown(u, 0) = h
        /\ \A q \in PageIds : PinsOn(u, q) = PinsOn(s, q)
        /\ u.lost = s.lost /\ u.torn = s.torn
    <3>1. PoolOK(s, {}) /\ 0 \in PageIds /\ PinsOn(s, 0) > 0 /\ h \in Pairs
      BY <2>2, <2>3, <2>4
    <3> QED BY <3>1, SetDataKeeps
  <2>6. /\ PoolOK(x, {}) /\ PinsOn(x, 0) = PinsOn(u, 0) - 1
        /\ \A q \in PageIds \ {0} : PinsOn(x, q) = PinsOn(u, q)
        /\ \A q \in PageIds : Shown(x, q) = Shown(u, q)
        /\ x.lost = u.lost /\ x.torn = u.torn
    <3>1. PinsOn(u, 0) > 0
      BY <2>2, <2>4, <2>5
    <3>2. {} \in SUBSET ({} \cup {0}) /\ TRUE \in BOOLEAN
          /\ (\A q \in ({} \cup {0}) \ {} : q = 0 /\ TRUE) /\ (0 \in {} => PinsOn(u, 0) > 1)
      OBVIOUS
    <3> HIDE DEF u
    <3> QED BY <2>2, <2>5, <3>1, <3>2, UnpinKeeps
  <2>7. Manager!InTable(x, 0)
    <3>1. \A q \in PageIds : PinsOn(s, q) > 0 => Manager!InTable(s, q)
      BY DEF PinsOn
    <3>2. Manager!InTable(s, 0) /\ u.page = s.page
      <4>1. s \in PoolStates
        BY <2>3 DEF PoolOK
      <4> QED BY <2>2, <2>4, <3>1, <4>1 DEF Manager!SetData, PoolStates
    <3>3. x.page = u.page
      <4>1. u \in PoolStates
        BY <2>5 DEF PoolOK
      <4> HIDE DEF u
      <4> QED BY <4>1 DEF Manager!UnpinPage, PoolStates
    <3>4. x.page = s.page
      BY <3>2, <3>3
    <3> HIDE DEF u, x
    <3> QED BY <3>2, <3>4, SameTable
  <2> DEFINE t == pool'
  <2>8. t \in Manager!FlushPage(x, 0)
    BY <2>1
  <2> HIDE DEF u, x, t
  <2>9. /\ PoolOK(t, {}) /\ t.lost = x.lost /\ t.torn = x.torn
        /\ \A q \in PageIds : Shown(t, q) = Shown(x, q) /\ PinsOn(t, q) = PinsOn(x, q)
    BY <2>2, <2>6, <2>7, <2>8, PageFlushed
  <2>10. ASSUME NEW q \in PageIds PROVE PinsOn(t, q) = PinsOn(pool, q)
    <3>1. CASE q = 0
      BY <2>2, <2>3, <2>4, <2>5, <2>6, <2>9, <3>1
    <3>2. CASE q # 0
      BY <2>3, <2>5, <2>6, <2>9, <3>2 DEF GotPage
    <3> QED BY <3>1, <3>2
  <2>11. PinsMatch(guard, t)
    BY <1>2, <2>10 DEF PinsMatch
  <2>12. Contents(t, allotted, put)
    <3> SUFFICES ASSUME ~t.torn
                 PROVE  ListOK(t, allotted) /\ \A p \in allotted \ t.lost : Shown(t, p) = put[p]
      BY DEF Contents
    <3>1. allotted = {}
      <4>1. ~pool.torn
        BY <2>3, <2>5, <2>6, <2>9 DEF GotPage, Survives
      <4> QED BY <1>2, <1>4, <4>1
    <3>2. Shown(t, 0) = <<1, -1>>
      BY <2>2, <2>5, <2>6, <2>9 DEF h
    <3> DEFINE v == <<>>
               my == [q \in PageIds |-> Shown(t, q)[1]]
    <3>3. v \in Seq(PageIds) /\ Distinct(v) /\ Members(v) = {} /\ Links(my, -1, -1, v)
      BY DEF Distinct, Members, Links
    <3> HIDE DEF v
    <3>4. Shown(t, 0)[1] = 1 /\ Shown(t, 0)[2] = -1
      BY <3>2
    <3>5. 1 \in 1 .. LastPage + 1 /\ allotted \subseteq 1 .. 1 - 1 /\ Members(v) = (1 .. 1 - 1) \ allotted
      BY <3>1, <3>3, BufferConstants
    <3>6. ListOK(t, allotted)
      BY <3>3, <3>4, <3>5 DEF ListOK
    <3> QED BY <3>1, <3>6
  <2>13. PoolOK(t, Writers(guard))
    BY <2>2, <2>9
  <2> QED BY <1>1, <1>2, <2>11, <2>12, <2>13, OpenOK DEF t
<1> QED BY <1>3, <1>4

\* Without a guard there is no pin, and a frame that is not dirty is as it is on disk: a
\* page only loses its content when its write fails.
LEMMA ClosePoolOK == ASSUME BufferInv, Manager!Close PROVE BufferInv'
<1> DEFINE written == {pool.page[f] : f \in {k \in Frames : pool.dirty[k]}}
<1>1. /\ open = "open" /\ open' = "closed" /\ guard' = guard /\ allotted' = allotted
      /\ put' = put /\ \A g \in Guards : guard[g] = Manager!NoGuard
  BY DEF Manager!Close
<1>2. PICK failed \in SUBSET written :
        pool' = Manager!NewPool([Manager!Losing(pool, failed) EXCEPT
                  !.empty = @ /\ written \subseteq failed,
                  !.disk = [p \in PageIds |-> IF p \in written \ failed
                                              THEN Manager!Data(pool, p) ELSE @[p]]])
  <2>1. \E failed \in SUBSET (IF WriteMayFail THEN written ELSE {}) :
          pool' = Manager!NewPool([Manager!Losing(pool, failed) EXCEPT
                    !.empty = @ /\ written \subseteq failed,
                    !.disk = [p \in PageIds |-> IF p \in written \ failed
                                                THEN Manager!Data(pool, p) ELSE @[p]]])
    BY DEF Manager!Close, PageIds, Frames
  <2>2. (IF WriteMayFail THEN written ELSE {}) \subseteq written
    OBVIOUS
  <2> HIDE DEF written
  <2> QED BY <2>1, <2>2
<1>3. /\ GuardsOK(guard, allotted) /\ PoolOK(pool, Writers(guard)) /\ PinsMatch(guard, pool)
      /\ allotted \in SUBSET (PageIds \ {0}) /\ put \in [PageIds -> Pairs]
      /\ Contents(pool, allotted, put)
  BY <1>1 DEF BufferInv
<1>4. \A g \in Guards : guard[g].page = NoPage
  BY <1>1, NoGuardIs
<1>5. Writers(guard) = {} /\ \A p \in PageIds : Cardinality(Holding(guard, p)) = 0
  BY <1>3, <1>4, NoHolders
<1>6. PoolOK(pool, {}) /\ pool \in PoolStates
  BY <1>3, <1>5 DEF PoolOK
<1>7. /\ \A f \in Frames : pool.dirty[f] => f \in Members(pool.lru)
      /\ written \subseteq PageIds
      /\ \A f \in Members(pool.lru) : pool.page[f] \in written <=> pool.dirty[f]
      /\ \A f \in Members(pool.lru) :
           pool.dirty[f] \/ pool.disk[pool.page[f]] = pool.data[f]
  <2>1. \A f \in Frames : pool.dirty[f] => f \in Members(pool.lru)
    BY <1>6 DEF PoolOK
  <2>2. \A f \in Members(pool.lru) : f \in Frames /\ pool.page[f] \in PageIds
    BY <1>6, FrameIs
  <2>3. /\ \A f, g \in Members(pool.lru) : pool.page[f] = pool.page[g] => f = g
        /\ \A f \in Members(pool.lru) :
             pool.dirty[f] \/ pool.disk[pool.page[f]] = pool.data[f]
    BY <1>6 DEF PoolOK
  <2> QED BY <2>1, <2>2, <2>3
<1> DEFINE gone == pool.lost \cup (failed \cap allotted)
           tears == pool.torn \/ ~(failed \subseteq allotted)
           void == pool.empty /\ written \subseteq failed
           d == [p \in PageIds |-> IF p \in written \ failed
                                   THEN Manager!Data(pool, p) ELSE pool.disk[p]]
           x == Manager!Losing(pool, failed)
           z == [x EXCEPT !.empty = void, !.disk = d]
           t == Manager!NewPool(z)
<1>8. pool' = t
  <2>1. x.empty = pool.empty /\ x.disk = pool.disk
    BY <1>6 DEF Manager!Losing, PoolStates
  <2> HIDE DEF x, written
  <2> QED BY <1>2, <2>1 DEF x
<1>9. /\ gone \in SUBSET PageIds /\ tears \in BOOLEAN /\ void \in BOOLEAN
      /\ d \in [PageIds -> Pairs]
  <2>1. gone \in SUBSET PageIds
    BY <1>3, <1>6 DEF PoolStates
  <2>2. d \in [PageIds -> Pairs]
    <3>1. \A p \in PageIds : p \in written => Manager!InTable(pool, p)
      BY <1>7, FrameIs DEF Manager!InTable, Frames
    <3>2. \A p \in PageIds : Manager!InTable(pool, p) => Manager!Data(pool, p) \in Pairs
      BY <1>6, ShownIsPair
    <3>3. \A p \in PageIds : pool.disk[p] \in Pairs
      BY <1>6 DEF PoolStates
    <3> HIDE DEF written
    <3> QED BY <3>1, <3>2, <3>3
  <2>3. tears \in BOOLEAN /\ void \in BOOLEAN
    BY <1>6 DEF PoolStates
  <2> QED BY <2>1, <2>2, <2>3
<1>10. /\ x \in PoolStates /\ x.lost = gone /\ x.torn = tears
  <2>1. x = [pool EXCEPT !.lost = gone, !.torn = tears]
    BY DEF Manager!Losing
  <2> HIDE DEF gone, tears, x
  <2> QED BY <1>6, <1>9, <2>1 DEF PoolStates
<1>11. /\ z \in PoolStates /\ z.lost = gone /\ z.torn = tears /\ z.empty = void /\ z.disk = d
  <2> HIDE DEF x, gone, tears, void, d
  <2> QED BY <1>9, <1>10 DEF PoolStates
<1> DEFINE all == [f \in Frames |-> f]
           none == [f \in Frames |-> NoPage]
           clean == [f \in Frames |-> FALSE]
           zeros == [f \in Frames |-> <<0, 0>>]
           pins == [f \in Frames |-> 0]
<1>12. /\ t = [z EXCEPT !.page = none, !.data = zeros, !.pin = pins, !.dirty = clean,
                        !.free = all, !.lru = <<>>]
       /\ none \in [Frames -> PageIds \cup {NoPage}] /\ zeros \in [Frames -> Pairs]
       /\ pins \in [Frames -> Nat] /\ clean \in [Frames -> BOOLEAN] /\ all \in Seq(Frames)
       /\ <<>> \in Seq(Frames)
  BY BufferConstants DEF Manager!NewPool, Manager!EveryFrame, Frames, Pairs
<1> HIDE DEF z, t, all, none, clean, zeros, pins
<1>13. /\ t \in PoolStates /\ t.page = none /\ t.dirty = clean /\ t.free = all /\ t.lru = <<>>
       /\ t.disk = d /\ t.empty = void /\ t.lost = gone /\ t.torn = tears
  <2> HIDE DEF gone, tears, void, d
  <2> QED BY <1>11, <1>12 DEF PoolStates
<1>14. t.empty => t.disk = [p \in PageIds |-> <<0, 0>>]
  <2>1. void => pool.disk = [p \in PageIds |-> <<0, 0>>]
    BY <1>6 DEF PoolOK
  <2>2. void => d = pool.disk
    BY <1>6 DEF PoolStates
  <2> QED BY <1>13, <2>1, <2>2
<1>15. /\ PoolOK(t, {})
       /\ \A p \in PageIds :
            ~Manager!InTable(t, p) /\ Shown(t, p) = t.disk[p] /\ PinsOn(t, p) = 0
  BY <1>13, <1>14, AllFree DEF all, none, clean
<1>16. \A p \in PageIds : Shown(t, p) = Shown(pool, p) \/ p \in failed
  <2> TAKE p \in PageIds
  <2>1. Shown(t, p) = d[p]
    BY <1>13, <1>15
  <2>2. CASE Manager!InTable(pool, p)
    <3> DEFINE f == Manager!FrameOf(pool, p)
    <3>1. f \in Members(pool.lru) /\ pool.page[f] = p
      BY <1>6, <2>2, FrameIs
    <3>2. p \in written \/ pool.disk[p] = Manager!Data(pool, p)
      BY <1>7, <3>1 DEF Manager!Data
    <3> HIDE DEF written
    <3> QED BY <2>1, <2>2, <3>2 DEF Shown
  <2>3. CASE ~Manager!InTable(pool, p)
    <3>1. p \notin written
      BY <1>7, <2>3, FrameIs DEF Manager!InTable, Frames
    <3> HIDE DEF written
    <3> QED BY <2>1, <2>3, <3>1 DEF Shown
  <2> QED BY <2>2, <2>3
<1>17. Survives(pool, t)
  BY <1>13, <1>16 DEF Survives
<1>18. Contents(t, allotted, put)
  <2>1. allotted \subseteq PageIds \ {0}
    BY <1>3
  <2> QED BY <1>3, <1>17, <2>1, ContentsSurvive
<1>19. t.empty => t.torn
  <2> SUFFICES ASSUME void, ~tears PROVE FALSE
    BY <1>13
  <2>1. Shown(pool, 0)[1] \in 1 .. LastPage + 1
    BY <1>3 DEF Contents, ListOK
  <2>2. 0 \in PageIds /\ 0 \notin allotted
    BY <1>3, BufferConstants
  <2>3. pool.disk[0] = <<0, 0>>
    BY <1>6, <2>2 DEF PoolOK
  <2>4. Shown(pool, 0) # <<0, 0>>
    BY <2>1
  <2>5. Manager!InTable(pool, 0) /\ Manager!Data(pool, 0) # <<0, 0>>
    BY <2>3, <2>4 DEF Shown
  <2>6. 0 \in written
    <3>1. /\ Manager!FrameOf(pool, 0) \in Members(pool.lru)
          /\ pool.page[Manager!FrameOf(pool, 0)] = 0
      BY <1>6, <2>2, <2>5, FrameIs
    <3> HIDE DEF written
    <3> QED BY <1>7, <2>3, <2>5, <3>1 DEF Manager!Data
  <2> QED BY <2>2, <2>6
<1>20. \A p \in PageIds : Cardinality(Holding(guard, p)) = PinsOn(t, p)
  BY <1>5, <1>15
<1>21. \A p \in PageIds : Cardinality(Holding(guard, p)) <= PinsOn(t, p)
  BY <1>5, <1>15
<1>22. /\ open' \in {"closed", "open", "segv"} /\ open' = "closed"
       /\ PoolOK(pool', Writers(guard'))
  BY <1>1, <1>5, <1>8, <1>15
<1> HIDE DEF gone, tears, void, d, x
<1> QED BY <1>1, <1>3, <1>4, <1>8, <1>13, <1>18, <1>19, <1>20, <1>21, <1>22
        DEF BufferInv, PinsMatch

\* After a crash the file may be torn, and no guard is left.
LEMMA CrashOK == ASSUME BufferInv, Manager!DestroyNoFlush PROVE BufferInv'
<1> DEFINE z == [pool EXCEPT !.torn = TRUE]
           t == Manager!NewPool(z)
<1>1. /\ open' = "closed" /\ pool' = t /\ guard' = [g \in Guards |-> Manager!NoGuard]
      /\ allotted' = {} /\ put' = put /\ put \in [PageIds -> Pairs]
  BY DEF Manager!DestroyNoFlush, BufferInv
<1>2. pool \in PoolStates /\ (pool.empty => pool.disk = [p \in PageIds |-> <<0, 0>>])
  BY DEF BufferInv, PoolOK
<1>3. z \in PoolStates /\ z.disk = pool.disk /\ z.empty = pool.empty /\ z.torn = TRUE
  BY <1>2 DEF PoolStates
<1> DEFINE all == [f \in Frames |-> f]
           none == [f \in Frames |-> NoPage]
           clean == [f \in Frames |-> FALSE]
           zeros == [f \in Frames |-> <<0, 0>>]
           pins == [f \in Frames |-> 0]
<1>4. /\ t = [z EXCEPT !.page = none, !.data = zeros, !.pin = pins, !.dirty = clean,
                        !.free = all, !.lru = <<>>]
      /\ none \in [Frames -> PageIds \cup {NoPage}] /\ zeros \in [Frames -> Pairs]
      /\ pins \in [Frames -> Nat] /\ clean \in [Frames -> BOOLEAN] /\ all \in Seq(Frames)
      /\ <<>> \in Seq(Frames)
  BY BufferConstants DEF Manager!NewPool, Manager!EveryFrame, Frames, Pairs
<1> HIDE DEF z, t, all, none, clean, zeros, pins
<1>5. /\ t \in PoolStates /\ t.page = none /\ t.dirty = clean /\ t.free = all /\ t.lru = <<>>
      /\ t.disk = z.disk /\ t.empty = z.empty /\ t.torn = TRUE
  BY <1>3, <1>4 DEF PoolStates
<1>6. t.empty => t.disk = [p \in PageIds |-> <<0, 0>>]
  BY <1>2, <1>3, <1>5
<1>7. /\ PoolOK(t, {})
      /\ \A p \in PageIds :
           ~Manager!InTable(t, p) /\ Shown(t, p) = t.disk[p] /\ PinsOn(t, p) = 0
  BY <1>5, <1>6, AllFree DEF all, none, clean
<1> DEFINE nd == guard'
<1>8. GuardsOK(nd, {}) /\ \A g \in Guards : nd[g].page = NoPage
  BY <1>1, NoGuardIs DEF GuardsOK, GuardStates
<1>9. Writers(nd) = {} /\ \A p \in PageIds : Cardinality(Holding(nd, p)) = 0
  <2> HIDE DEF nd
  <2> QED BY <1>8, NoHolders
<1>10. /\ PoolOK(pool', Writers(guard')) /\ GuardsOK(guard', allotted')
       /\ allotted' \in SUBSET (PageIds \ {0}) /\ put' \in [PageIds -> Pairs]
  BY <1>1, <1>7, <1>8, <1>9
<1>11. Contents(t, allotted', put')
  BY <1>5 DEF Contents
<1>12. \A p \in PageIds : /\ Cardinality(Holding(nd, p)) = PinsOn(t, p)
                          /\ Cardinality(Holding(nd, p)) <= PinsOn(t, p)
  BY <1>7, <1>9
<1> QED BY <1>1, <1>5, <1>8, <1>10, <1>11, <1>12 DEF BufferInv, PinsMatch

\* AllocPage and FreePage may dereference null: the pool is then left with the header
\* pinned, or as it was.
LEMMA SegvOK ==
  ASSUME BufferInv, NEW s, Manager!Segv(s), open = "open", PoolOK(s, Writers(guard)),
         \A p \in PageIds : PinsOn(s, p) >= PinsOn(pool, p), Survives(pool, s)
  PROVE  BufferInv'
<1>1. /\ open' = "segv" /\ pool' = s /\ guard' = guard /\ allotted' = allotted /\ put' = put
  BY DEF Manager!Segv
<1>2. /\ GuardsOK(guard, allotted) /\ PinsMatch(guard, pool) /\ PoolOK(pool, Writers(guard))
      /\ allotted \in SUBSET (PageIds \ {0}) /\ put \in [PageIds -> Pairs]
      /\ Contents(pool, allotted, put)
  BY DEF BufferInv
<1>3. Contents(s, allotted, put)
  <2>1. allotted \subseteq PageIds \ {0}
    BY <1>2
  <2> QED BY <1>2, <2>1, ContentsSurvive
<1>4. \A p \in PageIds : Cardinality(Holding(guard, p)) <= PinsOn(s, p)
  <2> TAKE p \in PageIds
  <2>1. PinsOn(pool, p) \in Nat /\ PinsOn(s, p) \in Nat
    BY <1>2, ShownIsPair
  <2>2. \A n, k \in Nat : k >= n => n <= k
    OBVIOUS
  <2> QED BY <1>2, <2>1, <2>2 DEF PinsMatch
<1> QED BY <1>1, <1>2, <1>3, <1>4 DEF BufferInv

LEMMA WritersOwn ==
  ASSUME BufferInv
  PROVE  /\ Writers(guard) \subseteq allotted /\ 0 \notin Writers(guard)
         /\ \A p \in PageIds \ allotted : p \notin Writers(guard)
         /\ GuardsOK(guard, allotted) /\ PoolOK(pool, Writers(guard))
         /\ allotted \in SUBSET (PageIds \ {0}) /\ put \in [PageIds -> Pairs]
<1>1. /\ GuardsOK(guard, allotted) /\ PoolOK(pool, Writers(guard))
      /\ allotted \in SUBSET (PageIds \ {0}) /\ put \in [PageIds -> Pairs]
  BY DEF BufferInv
<1>2. Writers(guard) \subseteq allotted
  BY <1>1 DEF GuardsOK, Writers
<1> QED BY <1>1, <1>2

\* The header is fetched: it shows what it showed, and its pin is the only one more.
LEMMA HeaderGot ==
  ASSUME BufferInv, open = "open", NEW s \in Manager!FetchPage(pool, 0)
  PROVE  /\ PoolOK(s, Writers(guard)) /\ GotPage(pool, s, 0) /\ PinsOn(s, 0) > 0
         /\ PinsOn(s, 0) = PinsOn(pool, 0) + 1 /\ PinsOn(pool, 0) \in Nat
         /\ \A p \in PageIds : PinsOn(s, p) >= PinsOn(pool, p)
         /\ Shown(s, 0) = Shown(pool, 0) /\ Manager!Data(s, 0) = Shown(pool, 0)
         /\ Shown(pool, 0) \in Pairs /\ Survives(pool, s)
<1>1. PoolOK(pool, Writers(guard)) /\ 0 \in PageIds
  BY WritersOwn, BufferConstants
<1>2. PoolOK(s, Writers(guard)) /\ GotPage(pool, s, 0)
  BY <1>1, GotPageKeeps
<1>3. /\ PinsOn(s, 0) = PinsOn(pool, 0) + 1 /\ Shown(s, 0) = Shown(pool, 0)
      /\ \A q \in PageIds \ {0} : PinsOn(s, q) = PinsOn(pool, q)
      /\ Manager!InTable(s, 0) /\ Survives(pool, s)
  BY <1>2 DEF GotPage
<1>4. \A q \in PageIds : PinsOn(pool, q) \in Nat
  BY <1>1, ShownIsPair
<1>5. Shown(pool, 0) \in Pairs /\ Manager!Data(s, 0) = Shown(s, 0)
  BY <1>1, <1>2, <1>3, ShownIsPair
<1>6. PinsOn(s, 0) > 0 /\ \A p \in PageIds : PinsOn(s, p) >= PinsOn(pool, p)
  <2>1. \A n \in Nat : n + 1 > 0 /\ n + 1 >= n /\ n >= n
    OBVIOUS
  <2> QED BY <1>1, <1>3, <1>4, <2>1
<1> QED BY <1>1, <1>2, <1>3, <1>4, <1>5, <1>6

\* The page is handed out with what it shows, once the pins are as they were.
LEMMA GiveOK ==
  ASSUME BufferInv, open = "open", NEW u, NEW p \in PageIds \ {0}, p \notin allotted,
         Manager!Give(u, p), PoolOK(u, Writers(guard)),
         \A q \in PageIds : PinsOn(u, q) = PinsOn(pool, q),
         pool.lost \subseteq u.lost, pool.torn => u.torn,
         ~u.torn => /\ ListOK(u, allotted \cup {p})
                    /\ \A q \in allotted \ u.lost : Shown(u, q) = Shown(pool, q)
  PROVE  BufferInv'
<1> DEFINE t == [u EXCEPT !.lost = u.lost \ {p}]
           to == [put EXCEPT ![p] = IF Manager!InTable(u, p) THEN Manager!Data(u, p) ELSE u.disk[p]]
           a == allotted \cup {p}
<1>1. /\ pool' = t /\ allotted' = a /\ put' = to /\ open' = "open" /\ guard' = guard
  BY DEF Manager!Give
<1>2. /\ GuardsOK(guard, allotted) /\ PinsMatch(guard, pool)
      /\ allotted \in SUBSET (PageIds \ {0}) /\ put \in [PageIds -> Pairs]
      /\ Contents(pool, allotted, put)
  BY DEF BufferInv
<1>3. /\ PoolOK(t, Writers(guard)) /\ t.lost = u.lost \ {p} /\ t.torn = u.torn
      /\ \A q \in PageIds : Shown(t, q) = Shown(u, q) /\ PinsOn(t, q) = PinsOn(u, q)
  BY ForgetKeeps
<1>4. GuardsOK(guard, a)
  BY <1>2 DEF GuardsOK
<1>5. /\ to \in [PageIds -> Pairs] /\ to[p] = Shown(u, p)
      /\ \A q \in PageIds \ {p} : to[q] = put[q]
  <2>1. Shown(u, p) \in Pairs
    BY ShownIsPair
  <2>2. to = [put EXCEPT ![p] = Shown(u, p)]
    BY DEF Shown
  <2> HIDE DEF to
  <2> QED BY <1>2, <2>1, <2>2
<1> HIDE DEF t, to
<1>6. PinsMatch(guard, t)
  BY <1>2, <1>3 DEF PinsMatch
<1>7. Contents(t, a, to)
  <2> SUFFICES ASSUME ~t.torn
               PROVE  ListOK(t, a) /\ \A q \in a \ t.lost : Shown(t, q) = to[q]
    BY DEF Contents
  <2>1. /\ ~u.torn /\ ~pool.torn /\ ListOK(u, a)
        /\ \A q \in allotted \ u.lost : Shown(u, q) = Shown(pool, q)
        /\ \A q \in allotted \ pool.lost : Shown(pool, q) = put[q]
    BY <1>2, <1>3 DEF Contents
  <2>2. a \subseteq PageIds \ {0}
    BY <1>2
  <2> HIDE DEF a
  <2>3. ListOK(t, a)
    <3>1. \A q \in PageIds \ a : Shown(t, q) = Shown(u, q)
      BY <1>3
    <3> QED BY <2>1, <2>2, <3>1, ListSurvives
  <2>4. ASSUME NEW q \in a \ t.lost PROVE Shown(t, q) = to[q]
    <3>1. CASE q = p
      BY <3>1, <1>3, <1>5
    <3>2. CASE q # p
      <4>1. q \in allotted \ u.lost /\ q \in PageIds
        BY <3>2, <1>2, <1>3 DEF a
      <4>2. q \notin pool.lost
        BY <4>1
      <4> QED BY <3>2, <4>1, <4>2, <1>3, <1>5, <2>1
    <3> QED BY <3>1, <3>2
  <2> QED BY <2>3, <2>4
<1>8. a \in SUBSET (PageIds \ {0})
  BY <1>2
<1> HIDE DEF a
<1> QED BY <1>1, <1>3, <1>4, <1>5, <1>6, <1>7, <1>8, OpenOK

LEMMA HeadIs ==
  ASSUME NEW s, NEW a, ListOK(s, a), a \subseteq PageIds \ {0}, Shown(s, 0)[2] # -1
  PROVE  Shown(s, 0)[2] \in PageIds \ {0} /\ Shown(s, 0)[2] \notin a
<1>1. PICK w \in Seq(PageIds) :
        /\ Distinct(w) /\ Members(w) = (1 .. Shown(s, 0)[1] - 1) \ a
        /\ Links([q \in PageIds |-> Shown(s, q)[1]], -1, Shown(s, 0)[2], w)
  BY DEF ListOK
<1>2. w # <<>> /\ Shown(s, 0)[2] = w[1]
  BY <1>1 DEF Links
<1>3. w[1] \in PageIds /\ w[1] \in Members(w)
  BY <1>1, <1>2, TailIs
<1> QED BY <1>1, <1>2, <1>3

\* What survives is what was not lost.
LEMMA WhatSurvives ==
  ASSUME NEW s, NEW t, Survives(s, t)
  PROVE  /\ s.lost \subseteq t.lost /\ (s.torn => t.torn)
         /\ \A q \in PageIds \ allotted : t.torn \/ Shown(t, q) = Shown(s, q)
         /\ \A q \in PageIds \ t.lost : t.torn \/ Shown(t, q) = Shown(s, q)
BY DEF Survives

\* The header is written and unpinned, as every change of it ends.
LEMMA HeaderWritten ==
  ASSUME NEW s, NEW writing, PoolOK(s, writing), 0 \notin writing, PinsOn(s, 0) > 0,
         NEW h \in Pairs
  PROVE  LET t == Manager!UnpinPage(Manager!SetData(s, 0, h), 0, TRUE)
         IN  /\ PoolOK(t, writing) /\ Shown(t, 0) = h
             /\ PinsOn(t, 0) = PinsOn(s, 0) - 1
             /\ \A q \in PageIds \ {0} :
                  Shown(t, q) = Shown(s, q) /\ PinsOn(t, q) = PinsOn(s, q)
             /\ t.lost = s.lost /\ t.torn = s.torn
<1> DEFINE u == Manager!SetData(s, 0, h)
           t == Manager!UnpinPage(u, 0, TRUE)
<1>1. 0 \in PageIds
  BY BufferConstants
<1>2. /\ PoolOK(u, writing \cup {0}) /\ Shown(u, 0) = h
      /\ \A q \in PageIds \ {0} : Shown(u, q) = Shown(s, q)
      /\ \A q \in PageIds : PinsOn(u, q) = PinsOn(s, q)
      /\ u.lost = s.lost /\ u.torn = s.torn
  BY <1>1, SetDataKeeps
<1> HIDE DEF u
<1>3. /\ writing \in SUBSET (writing \cup {0}) /\ TRUE \in BOOLEAN
      /\ (\A q \in (writing \cup {0}) \ writing : q = 0 /\ TRUE)
      /\ (0 \in writing => PinsOn(u, 0) > 1) /\ PinsOn(u, 0) > 0
  BY <1>1, <1>2
<1>4. /\ PoolOK(t, writing) /\ PinsOn(t, 0) = PinsOn(u, 0) - 1
      /\ \A q \in PageIds \ {0} : PinsOn(t, q) = PinsOn(u, q)
      /\ \A q \in PageIds : Shown(t, q) = Shown(u, q)
      /\ t.lost = u.lost /\ t.torn = u.torn
  BY <1>1, <1>2, <1>3, UnpinKeeps
<1> HIDE DEF t
<1> QED BY <1>1, <1>2, <1>4 DEF t, u

LEMMA AppendOK ==
  ASSUME BufferInv, open = "open", ~pool.torn, NEW s \in Manager!FetchPage(pool, 0),
         Manager!Data(s, 0)[2] = -1, Manager!Append1(s, Manager!Data(s, 0)[1])
  PROVE  BufferInv'
<1> DEFINE p == Manager!Data(s, 0)[1]
           h == <<p + 1, -1>>
           u == Manager!UnpinPage(Manager!SetData(s, 0, h), 0, TRUE)
           W == Writers(guard)
<1>1. p <= LastPage /\ Manager!Give(u, p)
  BY DEF Manager!Append1
<1>2. /\ PoolOK(s, W) /\ PinsOn(s, 0) > 0 /\ GotPage(pool, s, 0)
      /\ PinsOn(s, 0) = PinsOn(pool, 0) + 1 /\ PinsOn(pool, 0) \in Nat
      /\ Manager!Data(s, 0) = Shown(pool, 0) /\ Survives(pool, s)
  BY HeaderGot
<1>3. /\ 0 \notin W /\ allotted \in SUBSET (PageIds \ {0}) /\ allotted \subseteq PageIds \ {0}
      /\ ListOK(pool, allotted)
  BY WritersOwn DEF BufferInv, Contents
<1>4. p = Shown(pool, 0)[1] /\ Shown(pool, 0)[2] = -1 /\ p \in Nat
  BY <1>2, <1>3 DEF ListOK
<1> HIDE DEF p, W
<1>5. h \in Pairs
  BY <1>4 DEF Pairs
<1>6. h[1] = p + 1 /\ h[2] = -1
  OBVIOUS
<1> HIDE DEF h
<1>7. /\ PoolOK(u, W) /\ Shown(u, 0) = h /\ PinsOn(u, 0) = PinsOn(s, 0) - 1
      /\ \A q \in PageIds \ {0} : Shown(u, q) = Shown(s, q) /\ PinsOn(u, q) = PinsOn(s, q)
      /\ u.lost = s.lost /\ u.torn = s.torn
  BY <1>2, <1>3, <1>5, HeaderWritten
<1> HIDE DEF u
<1>8. p \in PageIds \ {0} /\ p \notin allotted /\ ListOK(u, allotted \cup {p})
  BY <1>1, <1>3, <1>4, <1>6, <1>7, ListGrown
<1>9. \A q \in PageIds : PinsOn(u, q) = PinsOn(pool, q)
  <2>1. \A q \in PageIds \ {0} : PinsOn(u, q) = PinsOn(pool, q)
    BY <1>2, <1>7 DEF GotPage
  <2>2. PinsOn(u, 0) = PinsOn(pool, 0)
    BY <1>2, <1>7
  <2> QED BY <2>1, <2>2
<1>10. /\ pool.lost \subseteq u.lost /\ (pool.torn => u.torn)
       /\ ~u.torn => \A q \in allotted \ u.lost : Shown(u, q) = Shown(pool, q)
  <2>1. \A q \in allotted : q \in PageIds \ {0}
    BY <1>3
  <2> QED BY <1>2, <1>7, <2>1, WhatSurvives
<1> QED BY <1>1, <1>7, <1>8, <1>9, <1>10, GiveOK DEF W

LEMMA ReuseOK ==
  ASSUME BufferInv, open = "open", ~pool.torn, NEW s \in Manager!FetchPage(pool, 0),
         Manager!Data(s, 0)[2] # -1, Manager!Reuse(s, Manager!Data(s, 0)[2])
  PROVE  BufferInv'
<1> DEFINE p == Manager!Data(s, 0)[2]
           W == Writers(guard)
<1>1. /\ PoolOK(s, W) /\ PinsOn(s, 0) > 0 /\ GotPage(pool, s, 0)
      /\ PinsOn(s, 0) = PinsOn(pool, 0) + 1 /\ PinsOn(pool, 0) \in Nat
      /\ Manager!Data(s, 0) = Shown(pool, 0) /\ Survives(pool, s)
      /\ \A q \in PageIds : PinsOn(s, q) >= PinsOn(pool, q)
      /\ Shown(s, 0) = Shown(pool, 0) /\ Shown(pool, 0) \in Pairs
  BY HeaderGot
<1>2. CASE Manager!FetchPage(s, p) = {}
  <2>1. Manager!Segv(s)
    BY <1>2 DEF Manager!Reuse
  <2> QED BY <1>1, <2>1, SegvOK
<1>3. CASE Manager!FetchPage(s, p) # {}
  <2> DEFINE new(x) == <<Manager!Data(x, 0)[1], Manager!Data(x, p)[1]>>
  <2>1. PICK t \in Manager!FetchPage(s, p) :
          Manager!Give(Manager!UnpinPage(Manager!UnpinPage(
            Manager!SetData(t, 0, new(t)), p, FALSE), 0, TRUE), p)
    BY <1>3 DEF Manager!Reuse
  <2> DEFINE h == new(t)
             x == Manager!SetData(t, 0, h)
             y == Manager!UnpinPage(x, p, FALSE)
             u == Manager!UnpinPage(y, 0, TRUE)
  <2>2. /\ 0 \notin W /\ allotted \subseteq PageIds \ {0} /\ ListOK(pool, allotted)
        /\ \A q \in PageIds \ allotted : q \notin W
        /\ 0 \in PageIds
    BY WritersOwn, BufferConstants DEF BufferInv, Contents
  <2>3. p = Shown(pool, 0)[2] /\ p \in PageIds \ {0} /\ p \notin allotted /\ p \notin W
    <3>1. p = Shown(pool, 0)[2] /\ p # -1
      BY <1>1
    <3> HIDE DEF p, W
    <3> QED BY <2>2, <3>1, HeadIs
  <2>4. Manager!Give(u, p)
    BY <2>1
  <2>5. h = <<Manager!Data(t, 0)[1], Manager!Data(t, p)[1]>>
    OBVIOUS
  <2> HIDE DEF p, W, h
  <2>6. PoolOK(t, W) /\ GotPage(s, t, p)
    BY <1>1, <2>1, <2>3, GotPageKeeps
  <2>7. /\ PinsOn(t, p) = PinsOn(s, p) + 1 /\ PinsOn(s, p) \in Nat /\ PinsOn(t, 0) = PinsOn(s, 0)
        /\ Manager!InTable(t, p) /\ Survives(s, t)
        /\ Shown(t, 0) = Shown(s, 0) /\ Shown(t, p) = Shown(s, p)
        /\ \A q \in PageIds \ {0, p} : PinsOn(t, q) = PinsOn(s, q)
    <3>1. PinsOn(s, p) \in Nat
      BY <1>1, <2>3, ShownIsPair
    <3> QED BY <1>1, <2>2, <2>3, <2>6, <3>1 DEF GotPage
  <2>8. PinsOn(t, 0) > 0 /\ PinsOn(t, p) > 0
    BY <1>1, <2>7
  <2>9. h = <<Shown(pool, 0)[1], Shown(s, p)[1]>> /\ h \in Pairs
    <3>1. Manager!Data(t, 0) = Shown(t, 0) /\ Manager!Data(t, p) = Shown(t, p)
      BY <2>2, <2>3, <2>6, <2>8, ShownIsPair
    <3>2. Shown(s, p) \in Pairs
      BY <1>1, <2>3, ShownIsPair
    <3> QED BY <1>1, <2>5, <2>7, <3>1, <3>2 DEF Pairs
  <2>10. /\ PoolOK(x, W \cup {0}) /\ Shown(x, 0) = h
         /\ \A q \in PageIds \ {0} : Shown(x, q) = Shown(t, q)
         /\ \A q \in PageIds : PinsOn(x, q) = PinsOn(t, q)
         /\ x.lost = t.lost /\ x.torn = t.torn
    BY <2>2, <2>6, <2>8, <2>9, SetDataKeeps
  <2> HIDE DEF x
  <2>11. /\ PoolOK(y, W \cup {0}) /\ PinsOn(y, p) = PinsOn(x, p) - 1
         /\ \A q \in PageIds \ {p} : PinsOn(y, q) = PinsOn(x, q)
         /\ \A q \in PageIds : Shown(y, q) = Shown(x, q)
         /\ y.lost = x.lost /\ y.torn = x.torn
    <3> DEFINE still == W \cup {0}
    <3>1. /\ still \in SUBSET (W \cup {0}) /\ FALSE \in BOOLEAN
          /\ (\A q \in (W \cup {0}) \ still : q = p /\ FALSE)
          /\ (p \in still => PinsOn(x, p) > 1) /\ PinsOn(x, p) > 0
      BY <2>3, <2>8, <2>10
    <3> HIDE DEF still
    <3>2. /\ PoolOK(y, still) /\ PinsOn(y, p) = PinsOn(x, p) - 1
          /\ \A q \in PageIds \ {p} : PinsOn(y, q) = PinsOn(x, q)
          /\ \A q \in PageIds : Shown(y, q) = Shown(x, q)
          /\ y.lost = x.lost /\ y.torn = x.torn
      BY <2>3, <2>10, <3>1, UnpinKeeps
    <3> QED BY <3>2 DEF still
  <2> HIDE DEF y
  <2>12. /\ PoolOK(u, W) /\ PinsOn(u, 0) = PinsOn(y, 0) - 1
         /\ \A q \in PageIds \ {0} : PinsOn(u, q) = PinsOn(y, q)
         /\ \A q \in PageIds : Shown(u, q) = Shown(y, q)
         /\ u.lost = y.lost /\ u.torn = y.torn
    <3> DEFINE both == W \cup {0}
    <3>1. /\ W \in SUBSET both /\ TRUE \in BOOLEAN /\ PoolOK(y, both)
          /\ (\A q \in both \ W : q = 0 /\ TRUE)
          /\ (0 \in W => PinsOn(y, 0) > 1) /\ PinsOn(y, 0) > 0
      BY <2>2, <2>3, <2>8, <2>10, <2>11
    <3> HIDE DEF both
    <3> QED BY <2>2, <3>1, UnpinKeeps
  <2> HIDE DEF u
  <2>13. \A q \in PageIds : PinsOn(u, q) = PinsOn(pool, q)
    <3>1. PinsOn(u, 0) = PinsOn(pool, 0)
      BY <1>1, <2>2, <2>3, <2>7, <2>10, <2>11, <2>12
    <3>2. PinsOn(u, p) = PinsOn(s, p) /\ PinsOn(s, p) = PinsOn(pool, p)
      BY <1>1, <2>3, <2>7, <2>10, <2>11, <2>12 DEF GotPage
    <3>3. \A q \in PageIds \ {0, p} : PinsOn(u, q) = PinsOn(pool, q)
      BY <1>1, <2>7, <2>10, <2>11, <2>12 DEF GotPage
    <3> QED BY <3>1, <3>2, <3>3
  <2>14. /\ u.lost = t.lost /\ u.torn = t.torn /\ Shown(u, 0) = h
         /\ \A q \in PageIds \ {0} : Shown(u, q) = Shown(t, q)
    BY <2>2, <2>10, <2>11, <2>12
  <2>15. /\ s.lost \subseteq t.lost /\ (s.torn => t.torn)
         /\ pool.lost \subseteq s.lost /\ (pool.torn => s.torn)
         /\ \A q \in PageIds \ allotted : t.torn \/ Shown(t, q) = Shown(s, q)
         /\ \A q \in PageIds \ t.lost : t.torn \/ Shown(t, q) = Shown(s, q)
         /\ \A q \in PageIds \ allotted : s.torn \/ Shown(s, q) = Shown(pool, q)
         /\ \A q \in PageIds \ s.lost : s.torn \/ Shown(s, q) = Shown(pool, q)
    BY <1>1, <2>7, WhatSurvives
  <2>16. ASSUME ~u.torn
         PROVE  /\ ListOK(u, allotted \cup {p})
                /\ \A q \in allotted \ u.lost : Shown(u, q) = Shown(pool, q)
    <3>1. ~t.torn /\ ~s.torn
      BY <2>14, <2>15, <2>16
    <3>2. Shown(s, p) = Shown(pool, p)
      BY <2>3, <2>15, <3>1
    <3>3. Shown(u, 0)[1] = Shown(pool, 0)[1] /\ Shown(u, 0)[2] = Shown(pool, p)[1]
      BY <2>9, <2>14, <3>2
    <3>4. \A q \in PageIds \ (allotted \cup {0, p}) : Shown(u, q) = Shown(pool, q)
      BY <2>14, <2>15, <3>1
    <3>5. ListOK(u, allotted \cup {p})
      <4>1. p # -1
        BY DEF p
      <4> QED BY <2>2, <2>3, <3>3, <3>4, <4>1, ListPopped
    <3>6. \A q \in allotted \ u.lost : Shown(u, q) = Shown(pool, q)
      <4>1. \A q \in allotted : q \in PageIds /\ q # 0
        BY <2>2
      <4> QED BY <2>14, <2>15, <3>1, <4>1
    <3> QED BY <3>5, <3>6
  <2>17. pool.lost \subseteq u.lost /\ (pool.torn => u.torn)
    BY <2>14, <2>15
  <2> QED BY <2>3, <2>4, <2>12, <2>13, <2>16, <2>17, GiveOK DEF W
<1> QED BY <1>2, <1>3

LEMMA AllocPageOK ==
  ASSUME BufferInv, open = "open", ~pool.torn, Manager!AllocPage
  PROVE  BufferInv'
<1>1. CASE Manager!FetchPage(pool, 0) = {}
  <2>1. Manager!Segv(pool)
    BY <1>1 DEF Manager!AllocPage
  <2>2. Survives(pool, pool)
    BY DEF Survives
  <2>3. PoolOK(pool, Writers(guard)) /\ \A p \in PageIds : PinsOn(pool, p) >= PinsOn(pool, p)
    <3>1. PoolOK(pool, Writers(guard))
      BY WritersOwn
    <3>2. \A p \in PageIds : PinsOn(pool, p) \in Nat
      BY <3>1, ShownIsPair
    <3>3. \A n \in Nat : n >= n
      OBVIOUS
    <3> QED BY <3>1, <3>2, <3>3
  <2> QED BY <2>1, <2>2, <2>3, SegvOK
<1>2. ASSUME NEW s \in Manager!FetchPage(pool, 0), Manager!Data(s, 0)[2] # -1,
             Manager!Reuse(s, Manager!Data(s, 0)[2])
      PROVE  BufferInv'
  BY <1>2, ReuseOK
<1>3. ASSUME NEW s \in Manager!FetchPage(pool, 0), Manager!Data(s, 0)[2] = -1,
             Manager!Append1(s, Manager!Data(s, 0)[1])
      PROVE  BufferInv'
  BY <1>3, AppendOK
<1> QED BY <1>1, <1>2, <1>3 DEF Manager!AllocPage

LEMMA FreePageOK ==
  ASSUME BufferInv, open = "open", ~pool.torn, NEW p \in PageIds \ {0}, Manager!FreePage(p)
  PROVE  BufferInv'
<1> DEFINE W == Writers(guard)
<1>1. p \in allotted /\ \A g \in Guards : guard[g].page # p
  BY DEF Manager!FreePage
<1>2. /\ W \subseteq allotted /\ 0 \notin W /\ GuardsOK(guard, allotted) /\ PoolOK(pool, W)
      /\ allotted \in SUBSET (PageIds \ {0}) /\ put \in [PageIds -> Pairs]
      /\ allotted \subseteq PageIds \ {0} /\ 0 \in PageIds /\ p \in PageIds
      /\ ListOK(pool, allotted) /\ PinsMatch(guard, pool) /\ Contents(pool, allotted, put)
  BY WritersOwn, BufferConstants DEF BufferInv, Contents
<1>3. p \notin W
  BY <1>1 DEF Writers
<1> HIDE DEF W
<1>4. CASE Manager!FetchPage(pool, 0) = {}
  <2>1. Manager!Segv(pool)
    BY <1>4 DEF Manager!FreePage
  <2>2. Survives(pool, pool)
    BY DEF Survives
  <2>3. \A q \in PageIds : PinsOn(pool, q) >= PinsOn(pool, q)
    <3>1. \A q \in PageIds : PinsOn(pool, q) \in Nat
      BY <1>2, ShownIsPair
    <3>2. \A n \in Nat : n >= n
      OBVIOUS
    <3> QED BY <3>1, <3>2
  <2> QED BY <1>2, <2>1, <2>2, <2>3, SegvOK DEF W
<1>5. ASSUME NEW s \in Manager!FetchPage(pool, 0), Manager!FetchPage(s, p) = {},
             Manager!Segv(s)
      PROVE  BufferInv'
  <2>1. /\ PoolOK(s, Writers(guard)) /\ Survives(pool, s)
        /\ \A q \in PageIds : PinsOn(s, q) >= PinsOn(pool, q)
    BY HeaderGot
  <2> QED BY <1>5, <2>1, SegvOK
<1>6. ASSUME NEW s \in Manager!FetchPage(pool, 0), NEW t \in Manager!FetchPage(s, p),
             pool' = [Manager!UnpinPage(Manager!UnpinPage(Manager!Link(t, p), p, TRUE), 0, TRUE)
                        EXCEPT !.lost = @ \ {p}],
             allotted' = allotted \ {p}, UNCHANGED <<open, guard, put>>
      PROVE  BufferInv'
  <2> DEFINE l == <<Manager!Data(t, 0)[2], 0>>
             h == <<Manager!Data(t, 0)[1], p>>
             x == Manager!SetData(t, p, l)
             y == Manager!SetData(x, 0, h)
             z == Manager!UnpinPage(y, p, TRUE)
             u == Manager!UnpinPage(z, 0, TRUE)
  <2>1. pool' = [u EXCEPT !.lost = u.lost \ {p}]
    BY <1>6 DEF Manager!Link
  <2>2. l = <<Manager!Data(t, 0)[2], 0>> /\ h = <<Manager!Data(t, 0)[1], p>>
    OBVIOUS
  <2> HIDE DEF l, h
  <2>3. /\ PoolOK(s, W) /\ PinsOn(s, 0) > 0 /\ GotPage(pool, s, 0)
        /\ PinsOn(s, 0) = PinsOn(pool, 0) + 1 /\ PinsOn(pool, 0) \in Nat
        /\ Survives(pool, s) /\ Shown(s, 0) = Shown(pool, 0) /\ Shown(pool, 0) \in Pairs
    BY HeaderGot DEF W
  <2>4. PoolOK(t, W) /\ GotPage(s, t, p)
    BY <1>2, <2>3, GotPageKeeps
  <2>5. /\ PinsOn(t, p) = PinsOn(s, p) + 1 /\ PinsOn(s, p) \in Nat /\ PinsOn(t, 0) = PinsOn(s, 0)
        /\ Survives(s, t) /\ Shown(t, 0) = Shown(s, 0) /\ p # 0
        /\ \A q \in PageIds \ {0, p} : PinsOn(t, q) = PinsOn(s, q)
    <3>1. PinsOn(s, p) \in Nat
      BY <1>2, <2>3, ShownIsPair
    <3> QED BY <1>2, <2>3, <2>4, <3>1 DEF GotPage
  <2>6. PinsOn(t, 0) > 0 /\ PinsOn(t, p) > 0
    BY <2>3, <2>5
  <2>7. /\ l = <<Shown(pool, 0)[2], 0>> /\ h = <<Shown(pool, 0)[1], p>>
        /\ l \in Pairs /\ h \in Pairs
    <3>1. Manager!Data(t, 0) = Shown(t, 0)
      BY <1>2, <2>4, <2>6, ShownIsPair
    <3>2. p \in Int
      BY <1>2, BufferConstants
    <3> QED BY <2>2, <2>3, <2>5, <3>1, <3>2 DEF Pairs
  <2>8. /\ PoolOK(x, W \cup {p}) /\ Shown(x, p) = l
        /\ \A q \in PageIds \ {p} : Shown(x, q) = Shown(t, q)
        /\ \A q \in PageIds : PinsOn(x, q) = PinsOn(t, q)
        /\ x.lost = t.lost /\ x.torn = t.torn
    BY <1>2, <2>4, <2>6, <2>7, SetDataKeeps
  <2> HIDE DEF x
  <2> DEFINE one == W \cup {p}
             two == one \cup {0}
             rest == W \cup {0}
  <2>9. PoolOK(x, one) /\ PinsOn(x, 0) > 0
    BY <1>2, <2>6, <2>8
  <2>10. /\ rest \in SUBSET two /\ \A q \in two \ rest : q = p /\ TRUE
         /\ p \notin rest /\ W \in SUBSET rest /\ \A q \in rest \ W : q = 0 /\ TRUE
    BY <1>3, <2>5
  <2> HIDE DEF one
  <2>11. /\ PoolOK(y, two) /\ Shown(y, 0) = h
         /\ \A q \in PageIds \ {0} : Shown(y, q) = Shown(x, q)
         /\ \A q \in PageIds : PinsOn(y, q) = PinsOn(x, q)
         /\ y.lost = x.lost /\ y.torn = x.torn
    BY <1>2, <2>7, <2>9, SetDataKeeps
  <2> HIDE DEF y, two, rest
  <2>12. /\ PoolOK(z, rest) /\ PinsOn(z, p) = PinsOn(y, p) - 1
         /\ \A q \in PageIds \ {p} : PinsOn(z, q) = PinsOn(y, q)
         /\ \A q \in PageIds : Shown(z, q) = Shown(y, q)
         /\ z.lost = y.lost /\ z.torn = y.torn
    <3>1. PinsOn(y, p) > 0 /\ TRUE \in BOOLEAN /\ (p \in rest => PinsOn(y, p) > 1)
      BY <1>2, <2>6, <2>8, <2>10, <2>11
    <3> QED BY <1>2, <2>10, <2>11, <3>1, UnpinKeeps
  <2> HIDE DEF z
  <2>13. /\ PoolOK(u, W) /\ PinsOn(u, 0) = PinsOn(z, 0) - 1
         /\ \A q \in PageIds \ {0} : PinsOn(u, q) = PinsOn(z, q)
         /\ \A q \in PageIds : Shown(u, q) = Shown(z, q)
         /\ u.lost = z.lost /\ u.torn = z.torn
    <3>1. PinsOn(z, 0) > 0 /\ TRUE \in BOOLEAN /\ (0 \in W => PinsOn(z, 0) > 1)
      BY <1>2, <2>5, <2>9, <2>11, <2>12
    <3> QED BY <1>2, <2>10, <2>12, <3>1, UnpinKeeps
  <2> HIDE DEF u
  <2>14. \A q \in PageIds : PinsOn(u, q) = PinsOn(pool, q)
    <3>1. PinsOn(u, 0) = PinsOn(pool, 0)
      BY <1>2, <2>3, <2>5, <2>8, <2>11, <2>12, <2>13
    <3>2. PinsOn(u, p) = PinsOn(s, p) /\ PinsOn(s, p) = PinsOn(pool, p)
      BY <1>2, <2>3, <2>5, <2>8, <2>11, <2>12, <2>13 DEF GotPage
    <3>3. \A q \in PageIds \ {0, p} : PinsOn(u, q) = PinsOn(pool, q)
      BY <2>3, <2>5, <2>8, <2>11, <2>12, <2>13 DEF GotPage
    <3> QED BY <3>1, <3>2, <3>3
  <2>15. /\ u.lost = t.lost /\ u.torn = t.torn /\ Shown(u, 0) = h /\ Shown(u, p) = l
         /\ \A q \in PageIds \ {0, p} : Shown(u, q) = Shown(t, q)
    BY <1>2, <2>5, <2>8, <2>11, <2>12, <2>13
  <2>16. /\ s.lost \subseteq t.lost /\ (s.torn => t.torn)
         /\ pool.lost \subseteq s.lost /\ (pool.torn => s.torn)
         /\ \A q \in PageIds \ allotted : t.torn \/ Shown(t, q) = Shown(s, q)
         /\ \A q \in PageIds \ t.lost : t.torn \/ Shown(t, q) = Shown(s, q)
         /\ \A q \in PageIds \ allotted : s.torn \/ Shown(s, q) = Shown(pool, q)
         /\ \A q \in PageIds \ s.lost : s.torn \/ Shown(s, q) = Shown(pool, q)
    BY <2>3, <2>5, WhatSurvives
  <2> DEFINE v == [u EXCEPT !.lost = u.lost \ {p}]
             a == allotted \ {p}
  <2>17. /\ PoolOK(v, W) /\ v.lost = u.lost \ {p} /\ v.torn = u.torn
         /\ \A q \in PageIds : Shown(v, q) = Shown(u, q) /\ PinsOn(v, q) = PinsOn(u, q)
    BY <2>13, ForgetKeeps
  <2>18. pool' = v
    BY <2>1
  <2> HIDE DEF v
  <2>19. Contents(v, a, put)
    <3> SUFFICES ASSUME ~v.torn
                 PROVE  ListOK(v, a) /\ \A q \in a \ v.lost : Shown(v, q) = put[q]
      BY DEF Contents
    <3>1. ~t.torn /\ ~s.torn
      BY <2>15, <2>16, <2>17
    <3>2. /\ Shown(v, 0)[1] = Shown(pool, 0)[1] /\ Shown(v, 0)[2] = p
          /\ Shown(v, p)[1] = Shown(pool, 0)[2]
      BY <1>2, <2>7, <2>15, <2>17
    <3>3. \A q \in PageIds \ (allotted \cup {0}) : Shown(v, q) = Shown(pool, q)
      BY <1>1, <2>15, <2>16, <2>17, <3>1
    <3>4. ListOK(v, a)
      BY <1>1, <1>2, <3>2, <3>3, ListPushed
    <3>5. ASSUME NEW q \in a \ v.lost PROVE Shown(v, q) = put[q]
      <4>1. q \in PageIds \ {0, p} /\ q \in allotted /\ q \notin t.lost /\ q \notin s.lost
            /\ q \notin pool.lost
        BY <1>2, <2>15, <2>16, <2>17
      <4>2. Shown(v, q) = Shown(pool, q)
        BY <2>15, <2>16, <2>17, <3>1, <4>1
      <4> QED BY <1>2, <4>1, <4>2 DEF Contents
    <3> QED BY <3>4, <3>5
  <2>20. PinsMatch(guard, v)
    BY <1>2, <2>14, <2>17 DEF PinsMatch
  <2>21. GuardsOK(guard, a)
    BY <1>1, <1>2 DEF GuardsOK
  <2>22. a \in SUBSET (PageIds \ {0})
    BY <1>2
  <2>23. allotted' = a /\ open' = "open" /\ guard' = guard /\ put' = put
    BY <1>6
  <2> HIDE DEF a
  <2>24. PoolOK(v, Writers(guard))
    BY <2>17 DEF W
  <2> QED BY <1>2, <2>18, <2>19, <2>20, <2>21, <2>22, <2>23, <2>24, OpenOK
<1> QED BY <1>4, <1>5, <1>6 DEF Manager!FreePage

\* The pins, the contents and the free list of the buffer pool, whatever it does.
LEMMA BufferInductive ==
  ASSUME BufferInv, Manager!Next \/ UNCHANGED buffer_vars
  PROVE  BufferInv'
<1>1. CASE UNCHANGED buffer_vars
  BY <1>1 DEF buffer_vars, BufferInv
<1>2. CASE Manager!Open
  BY <1>2, OpenPoolOK
<1>3. CASE Manager!Close
  BY <1>3, ClosePoolOK
<1>4. CASE Manager!DestroyNoFlush
  BY <1>4, CrashOK
<1>5. CASE Manager!Use
  <2>1. open = "open" /\ ~pool.torn
    BY <1>5 DEF Manager!Use
  <2>2. CASE Manager!AllocPage
    BY <2>1, <2>2, AllocPageOK
  <2>3. ASSUME NEW p \in PageIds \ {0}, Manager!FreePage(p) PROVE BufferInv'
    BY <2>1, <2>3, FreePageOK
  <2>4. ASSUME NEW g \in Guards, Manager!Drop(g) PROVE BufferInv'
    BY <2>1, <2>4, DropOK
  <2>5. ASSUME NEW g \in Guards, NEW p \in PageIds, Manager!FetchGuard(g, p) PROVE BufferInv'
    BY <2>1, <2>5, FetchGuardOK
  <2>6. ASSUME NEW g \in Guards, NEW v \in {1}, Manager!WriteGuard(g, v) PROVE BufferInv'
    BY <2>1, <2>6, WriteGuardOK
  <2>7. ASSUME NEW g \in Guards, NEW h \in Guards \ {g}, Manager!Move(g, h) PROVE BufferInv'
    BY <2>1, <2>7, MoveOK
  <2> QED BY <1>5, <2>2, <2>3, <2>4, <2>5, <2>6, <2>7 DEF Manager!Use, PageIds
<1> QED BY <1>1, <1>2, <1>3, <1>4, <1>5 DEF Manager!Next

\* PinsAreGuards, PagesKept and FreePagesListed follow.
LEMMA PinsFollow == BufferInv => Manager!PinsAreGuards
<1> SUFFICES ASSUME BufferInv PROVE Manager!PinsAreGuards
  OBVIOUS
<1>1. /\ PoolOK(pool, Writers(guard)) /\ guard \in GuardStates
      /\ \A g \in Guards : guard[g].page # NoPage => guard[g].page \in PageIds
      /\ \A p \in PageIds : Cardinality(Holding(guard, p)) <= PinsOn(pool, p)
      /\ open # "segv" => PinsMatch(guard, pool)
  BY DEF BufferInv, GuardsOK
<1>2. /\ Manager!ToSet(pool.free) = Members(pool.free)
      /\ Manager!ToSet(pool.lru) = Members(pool.lru)
  BY DEF Manager!ToSet, Members
<1>3. /\ Members(pool.free) \cup Members(pool.lru) = Frames
      /\ Len(pool.free) + Len(pool.lru) = CACHE_CAPACITY
      /\ \A f, g \in Members(pool.lru) : pool.page[f] = pool.page[g] => f = g
  BY <1>1 DEF PoolOK
<1>4. Members(pool.lru) = {f \in Frames : pool.page[f] # NoPage}
  <2>1. \A f \in Frames : pool.page[f] # NoPage <=> f \in Members(pool.lru)
    BY <1>1 DEF PoolOK
  <2> QED BY <1>3, <2>1
<1>5. ASSUME NEW g \in Guards, guard[g].page # NoPage PROVE Manager!InTable(pool, guard[g].page)
  <2> DEFINE p == guard[g].page
  <2>1. p \in PageIds /\ g \in Holding(guard, p) /\ IsFiniteSet(Holding(guard, p))
    <3>1. Holding(guard, p) \subseteq Guards /\ g \in Holding(guard, p)
      BY DEF Holding
    <3>2. p \in PageIds
      BY <1>1, <1>5
    <3> HIDE DEF p
    <3> QED BY <3>1, <3>2, GuardsFinite, FS_Subset
  <2> HIDE DEF p
  <2>2. Cardinality(Holding(guard, p)) \in Nat /\ Cardinality(Holding(guard, p)) # 0
    BY <2>1, FS_EmptySet, FS_CardinalityType
  <2>3. PinsOn(pool, p) # 0
    <3>1. \A n \in Nat : n # 0 => ~(n <= 0)
      OBVIOUS
    <3> QED BY <1>1, <2>1, <2>2, <3>1
  <2>4. Manager!InTable(pool, p)
    BY <2>3 DEF PinsOn
  <2> QED BY <2>4 DEF p
<1>6. \A T : Manager!Cardinality(T) = Cardinality(T)
  BY DEF Manager!Cardinality, Cardinality
<1>7. ASSUME open # "segv", NEW f \in Members(pool.lru)
      PROVE  pool.pin[f] = Cardinality({g \in Guards : guard[g].page = pool.page[f]})
  <2>1. /\ pool.page[f] \in PageIds /\ Manager!InTable(pool, pool.page[f])
        /\ Manager!FrameOf(pool, pool.page[f]) = f
    BY <1>1, FrameIs
  <2>2. PinsOn(pool, pool.page[f]) = pool.pin[f]
    BY <2>1 DEF PinsOn
  <2> QED BY <1>1, <1>7, <2>1, <2>2 DEF PinsMatch, Holding
<1>8. /\ open # "segv" => \A f \in Manager!ToSet(pool.lru) :
             pool.pin[f] = Manager!Cardinality({g \in Guards : guard[g].page = pool.page[f]})
  BY <1>2, <1>6, <1>7
<1>9. \A g \in Guards : guard[g].page # NoPage => Manager!InTable(pool, guard[g].page)
  BY <1>5
<1>10. /\ Manager!ToSet(pool.free) \cup Manager!ToSet(pool.lru) = Manager!Frames
       /\ Manager!ToSet(pool.lru) = {f \in Manager!Frames : pool.page[f] # NoPage}
  BY <1>2, <1>3, <1>4 DEF Frames
<1>11. \A f, g \in Manager!ToSet(pool.lru) : pool.page[f] = pool.page[g] => f = g
  BY <1>2, <1>3
<1> QED BY <1>3, <1>8, <1>9, <1>10, <1>11 DEF Manager!PinsAreGuards

LEMMA ViewIs == \A p : Manager!View(p) = Shown(pool, p)
BY DEF Manager!View, Shown

LEMMA PagesFollow == BufferInv => Manager!PagesKept
<1> SUFFICES ASSUME BufferInv, ~pool.torn, NEW p \in allotted \ pool.lost
             PROVE  Manager!View(p) = put[p]
  BY DEF Manager!PagesKept
<1>1. Contents(pool, allotted, put)
  BY DEF BufferInv
<1> QED BY <1>1, ViewIs DEF Contents

LEMMA PageListFollows == BufferInv => Manager!FreePagesListed
<1> SUFFICES ASSUME BufferInv PROVE Manager!FreePagesListed
  OBVIOUS
<1> DEFINE N == LastPage + 1
           walk[n \in 0 .. LastPage + 1] ==
             IF n = 0 THEN Manager!View(0)[2]
             ELSE IF walk[n - 1] \in PageIds THEN Manager!View(walk[n - 1])[1] ELSE -1
           unowned == (1 .. Manager!View(0)[1] - 1) \ allotted
<1>1. ASSUME ~pool.empty, ~pool.torn
      PROVE  /\ {walk[n] : n \in 0 .. LastPage + 1} = unowned \cup {-1}
             /\ walk[Cardinality(unowned)] = -1
  <2>1. ListOK(pool, allotted)
    BY <1>1 DEF BufferInv, Contents
  <2> DEFINE head == Shown(pool, 0)[2]
             nx == [p \in PageIds |-> Shown(pool, p)[1]]
  <2>2. PICK w \in Seq(PageIds) :
          Distinct(w) /\ Members(w) = unowned /\ Links(nx, -1, head, w)
    BY <2>1, ViewIs DEF ListOK
  <2>3. Manager!View(0)[1] \in 1 .. LastPage + 1 /\ LastPage \in Nat /\ N \in Nat
    BY <2>1, ViewIs, BufferConstants DEF ListOK
  <2>4. Len(w) = Cardinality(unowned) /\ Len(w) \in Nat
    <3> HIDE DEF unowned
    <3> QED BY <2>2, DistinctCount
  <2>5. Len(w) <= N
    <3>1. unowned \subseteq 1 .. N
      BY <2>3
    <3>2. IsFiniteSet(1 .. N) /\ Cardinality(1 .. N) = N
      BY <2>3, FS_Interval
    <3> HIDE DEF unowned
    <3>3. Cardinality(unowned) <= N
      BY <3>1, <3>2, FS_Subset
    <3> QED BY <2>4, <3>3
  <2>6. N = LastPage + 1 /\ \A p \in PageIds : Manager!View(p)[1] = nx[p]
    BY ViewIs
  <2> HIDE DEF N, nx, unowned
  <2> DEFINE f == [n \in 0 .. N |-> IF n < Len(w) THEN w[n + 1] ELSE -1]
             after(p) == IF p \in PageIds THEN Manager!View(p)[1] ELSE -1
  <2>7. f[0] = head /\ \A n \in 1 .. N : f[n] = after(f[n - 1])
    <3>1. f[0] = head
      <4>1. 0 < Len(w) <=> w # <<>>
        OBVIOUS
      <4> QED BY <4>1, <2>2, <2>3 DEF Links
    <3>2. ASSUME NEW n \in 1 .. N PROVE f[n] = after(f[n - 1])
      <4>1. CASE n - 1 < Len(w)
        <5>1. f[n - 1] = w[n] /\ n \in DOMAIN w /\ w[n] \in PageIds
          BY <4>1, <2>3, <2>4
        <5>2. nx[w[n]] = IF n < Len(w) THEN w[n + 1] ELSE -1
          BY <5>1, <2>2 DEF Links
        <5> QED BY <5>1, <5>2, <2>3, <2>6
      <4>2. CASE ~(n - 1 < Len(w))
        <5>1. -1 \notin PageIds
          BY BufferConstants
        <5> QED BY <4>2, <5>1, <2>3, <2>4
      <4> QED BY <4>1, <4>2
    <3> QED BY <3>1, <3>2
  <2>8. f = [n \in 0 .. N |-> IF n = 0 THEN head
                            ELSE IF f[n - 1] \in PageIds THEN Manager!View(f[n - 1])[1] ELSE -1]
    <3> DEFINE g == [n \in 0 .. N |-> IF n = 0 THEN head ELSE after(f[n - 1])]
    <3>1. \A n \in 0 .. N : f[n] = g[n]
      <4> HIDE DEF f, after, head
      <4> QED BY <2>3, <2>7
    <3>2. f = g
      <4> HIDE DEF after, head
      <4> QED BY <3>1
    <3> HIDE DEF f
    <3> QED BY <3>2
  <2>9. walk = [n \in 0 .. N |-> IF n = 0 THEN head
                            ELSE IF walk[n - 1] \in PageIds THEN Manager!View(walk[n - 1])[1] ELSE -1]
    <3> HIDE DEF f
    <3>1. head = Manager!View(0)[2]
      BY ViewIs
    <3> HIDE DEF head
    <3>2. f = [n \in 0 .. LastPage + 1 |->
                 IF n = 0 THEN Manager!View(0)[2]
                 ELSE IF f[n - 1] \in PageIds THEN Manager!View(f[n - 1])[1] ELSE -1]
      BY <2>6, <2>8, <3>1
    <3>3. walk = [n \in 0 .. LastPage + 1 |->
                    IF n = 0 THEN Manager!View(0)[2]
                    ELSE IF walk[n - 1] \in PageIds THEN Manager!View(walk[n - 1])[1] ELSE -1]
      BY <3>2
    <3> HIDE DEF walk
    <3> QED BY <2>6, <3>1, <3>3
  <2> HIDE DEF walk
  <2>10. walk[0] = head /\ \A n \in 1 .. N : walk[n] = after(walk[n - 1])
    <3> HIDE DEF head
    <3> QED BY <2>3, <2>9
  <2> HIDE DEF f, after, head
  <2> DEFINE T == {n \in 0 .. N : walk[n] = f[n]}
  <2>11. T = 0 .. N
    <3>1. T \in SUBSET (0 .. N) /\ 0 \in T
      BY <2>3, <2>7, <2>10
    <3>2. ASSUME NEW n \in T, n < N PROVE n + 1 \in T
      <4>1. n + 1 \in 1 .. N /\ (n + 1) - 1 = n /\ walk[n] = f[n]
        BY <3>2, <2>3
      <4> QED BY <4>1, <2>7, <2>10
    <3> HIDE DEF T
    <3> QED BY <3>1, <3>2, <2>3, UpTo
  <2>12. Follows(walk, N, w, -1)
    BY <2>11 DEF f, Follows
  <2>13. {walk[n] : n \in 0 .. N} = Members(w) \cup {-1} /\ walk[Len(w)] = -1
    <3> HIDE DEF T
    <3>1. /\ \A n \in 0 .. N : walk[n] \in Members(w) \cup {-1}
          /\ \A x \in Members(w) \cup {-1} : \E n \in 0 .. N : walk[n] = x
          /\ walk[Len(w)] = -1
      BY <2>3, <2>5, <2>12, WalkFinds
    <3> QED BY <3>1
  <2> QED BY <2>2, <2>4, <2>6, <2>13
<1>2. \A T : Manager!Cardinality(T) = Cardinality(T)
  BY DEF Manager!Cardinality, Cardinality
<1>3. SUFFICES ASSUME ~pool.empty, ~pool.torn
               PROVE  /\ {walk[n] : n \in 0 .. LastPage + 1} = unowned \cup {-1}
                      /\ walk[Manager!Cardinality(unowned)] = -1
  BY DEF Manager!FreePagesListed, PageIds
<1> HIDE DEF walk, unowned
<1> QED BY <1>1, <1>2, <1>3
=============================================================================
