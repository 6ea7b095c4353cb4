--------------------------- MODULE StorageProofs ----------------------------
(***************************************************************************)
(* The memory managers of MCStorage, for any number of threads, addresses, *)
(* handles, blocks and bytes.  The invariants of those with free lists are *)
(* in ListStoresProofs; they are carried over to MCSpec at the end.        *)
(*                                                                         *)
(* Tracker of Day 17: between malloc and its record, and between a record  *)
(* and its free, an allocated address belongs to the one thread inside the *)
(* call, so no other call changes what is recorded of it; the rest of the  *)
(* table is the rest of the heap; a delete of what is not allocated finds  *)
(* no record, unless malloc gives the address before it ends (TrackerInv). *)
(*                                                                         *)
(* Vector of Day 27: the arena only goes forward, so a block it gives out  *)
(* lies behind all earlier ones, and growing copies into bytes that nobody *)
(* has; a failed growth writes nothing (VectorInv).                        *)
(*                                                                         *)
(* Owners of Days 12 and 16: the count of an object is the number of       *)
(* handles to it at the end of every call, and an object leaves with its   *)
(* last handle; a handle that moves takes its part of the count with it    *)
(* (OwnerInv).                                                             *)
(*                                                                         *)
(* Strings of Day 21: every block in use is held by exactly one string,    *)
(* and each string reads as the text its calls should have made. All calls *)
(* replace one string and free or fill blocks no other string holds: one   *)
(* lemma shows that this keeps the invariant, StringReplaced (TextInv).    *)
(***************************************************************************)
EXTENDS MCStorage, ListStoresProofs, RingArithmetic, FiniteSetTheorems, TLAPS

-----------------------------------------------------------------------------
(* Day 17: the tracker of allocations *)

Records == [ptr : Addresses, is_array : BOOLEAN]

\* Thread t is inside a call, in a place of the set here, with the address a.
Calls(t, here, a) == t \in TrackedThreads /\ doing[t] \in here /\ arg[t].ptr = a
InCall == {"add_record", "remove_record", "free"}

InTable(a) == \E i \in DOMAIN table : table[i].ptr = a

TrackerTypeOK ==
  /\ source \in {"c", "cpp"}
  /\ heap \in [Addresses -> {"free", "plain", "array"}]
  /\ table \in Seq(Records)
  /\ doing \in [TrackedThreads -> {"idle"} \cup InCall]
  /\ arg = [t \in TrackedThreads |-> arg[t]]
  /\ \A t \in TrackedThreads : doing[t] \in InCall => arg[t] \in Records
  /\ may_delete \subseteq Addresses /\ dropped \subseteq Addresses
  /\ report \in [TrackedThreads -> {"none", "invalid", "mismatch"}]
  /\ ended \in {"no", "exit", "abort", "clash"}

\* A thread in a call has its address to itself, unless the address is not allocated.
OneCaller ==
  ended # "clash" =>
    /\ \A t \in TrackedThreads : doing[t] \in InCall /\ heap[arg[t].ptr] # "free" =>
         /\ arg[t].ptr \notin may_delete
         /\ \A u \in TrackedThreads :
              doing[u] \in InCall /\ arg[u].ptr = arg[t].ptr => u = t
    /\ \A t \in TrackedThreads : doing[t] = "add_record" =>
         heap[arg[t].ptr] = Tracker!Form(arg[t].is_array) /\ arg[t].ptr \notin dropped

\* What is allocated is with the program or in a call.
HeapShared ==
  /\ \A a \in may_delete : heap[a] # "free"
  /\ \A a \in dropped : heap[a] # "free"
  /\ \A a \in Addresses : heap[a] # "free" =>
       a \in may_delete \/ \E t \in TrackedThreads : Calls(t, InCall, a)
  /\ source = "c" => \A a \in Addresses : heap[a] # "array"

TableSound ==
  /\ \A a \in Addresses :
       InTable(a) <=> /\ heap[a] # "free" /\ a \notin dropped
                      /\ ~\E t \in TrackedThreads : Calls(t, {"add_record", "free"}, a)
  /\ \A i, j \in DOMAIN table : table[i].ptr = table[j].ptr => i = j
  /\ \A i \in DOMAIN table : heap[table[i].ptr] = Tracker!Form(table[i].is_array)

TrackerInv ==
  /\ TrackerTypeOK
  /\ OneCaller
  /\ HeapShared
  /\ TableSound
  /\ Tracker!ReportsJustified
  /\ ended = "exit" => leaks = may_delete \ dropped

\* Two forms are equal only if both are, or neither is, of an array.
LEMMA FormsDiffer ==
  ASSUME NEW x \in BOOLEAN, NEW y \in BOOLEAN
  PROVE  /\ Tracker!Form(x) \in {"plain", "array"}
         /\ Tracker!Form(x) = Tracker!Form(y) <=> x = y
BY DEF Tracker!Form

\* A record put at the end.
LEMMA RecordAppended ==
  ASSUME NEW s \in Seq(Records), NEW r \in Records
  PROVE  /\ Append(s, r) \in Seq(Records)
         /\ DOMAIN Append(s, r) = DOMAIN s \cup {Len(s) + 1}
         /\ Len(s) + 1 \notin DOMAIN s
         /\ \A i \in DOMAIN s : Append(s, r)[i] = s[i]
         /\ Append(s, r)[Len(s) + 1] = r
OBVIOUS

\* The last record moved to where one was taken out: what is left are the others, each
\* in one place (q) if it was in one before.
LEMMA RecordRemoved ==
  ASSUME table \in Seq(Records), NEW i \in DOMAIN table
  PROVE  LET new == Tracker!SwapBack(i)
             old(j) == IF j = i THEN Len(table) ELSE j
         IN  /\ new \in Seq(Records)
             /\ DOMAIN new = 1 .. Len(table) - 1
             /\ \A j \in DOMAIN new : /\ old(j) \in DOMAIN table \ {i}
                                      /\ new[j] = table[old(j)]
             /\ \A k \in DOMAIN table \ {i} : \E j \in DOMAIN new : old(j) = k
<1> DEFINE n == Len(table)
           moved == [table EXCEPT ![i] = table[n]]
           new == Tracker!SwapBack(i)
           old(j) == IF j = i THEN n ELSE j
<1>1. n \in Nat /\ DOMAIN table = 1 .. n /\ i \in 1 .. n /\ n \in 1 .. n
  OBVIOUS
<1>2. moved \in Seq(Records) /\ Len(moved) = n
  BY <1>1
<1>3. new = [j \in 1 .. n - 1 |-> moved[j]]
  BY <1>1, <1>2 DEF Tracker!SwapBack, Tracker!Front, Tracker!Last
<1>4. ASSUME NEW j \in 1 .. n - 1
      PROVE  old(j) \in DOMAIN table \ {i} /\ new[j] = table[old(j)] /\ new[j] \in Records
  BY <1>1, <1>3
<1>5. new \in Seq(Records) /\ DOMAIN new = 1 .. n - 1
  BY <1>1, <1>3, <1>4
<1>6. ASSUME NEW k \in DOMAIN table \ {i} PROVE \E j \in 1 .. n - 1 : old(j) = k
  <2>1. CASE k = n
    BY <2>1, <1>1
  <2>2. CASE k # n
    BY <2>2, <1>1
  <2> QED BY <2>1, <2>2
<1> QED BY <1>4, <1>5, <1>6

\* In a table that lists every address once, the entry found is the entry there is.
LEMMA EntryFound ==
  ASSUME table \in Seq(Records), NEW a,
         \A i, j \in DOMAIN table : table[i].ptr = table[j].ptr => i = j,
         Tracker!Entries(a) # {}
  PROVE  /\ Tracker!FirstEntry(a) \in DOMAIN table
         /\ table[Tracker!FirstEntry(a)].ptr = a
<1>1. PICK k \in DOMAIN table : table[k].ptr = a
  BY DEF Tracker!Entries
<1>2. k \in Nat
  OBVIOUS
<1>3. Tracker!Entries(a) = {k}
  BY <1>1 DEF Tracker!Entries
<1>4. k \in Tracker!Entries(a) /\ \A j \in Tracker!Entries(a) : k <= j
  BY <1>2, <1>3
<1>5. Tracker!FirstEntry(a) \in Tracker!Entries(a)
  BY <1>4 DEF Tracker!FirstEntry
<1> QED BY <1>1, <1>3, <1>5

LEMMA TrackerInitially == Tracker!Init => TrackerInv
<1> SUFFICES ASSUME Tracker!Init PROVE TrackerInv
  OBVIOUS
<1>1. TrackerTypeOK
  BY DEF Tracker!Init, TrackerTypeOK, InCall
<1>2. OneCaller /\ HeapShared /\ Tracker!ReportsJustified
  BY DEF Tracker!Init, OneCaller, HeapShared, Tracker!ReportsJustified, InCall
<1>3. TableSound
  BY DEF Tracker!Init, TableSound, InTable
<1> QED BY <1>1, <1>2, <1>3 DEF Tracker!Init, TrackerInv

\* malloc gives an address nobody has.
LEMMA OperatorNew ==
  ASSUME TrackerInv, NEW t \in TrackedThreads, NEW a \in Addresses, NEW b \in BOOLEAN,
         Tracker!operator_new(t, a, b)
  PROVE  TrackerInv'
<1> DEFINE r == [ptr |-> a, is_array |-> b]
<1>1. TrackerTypeOK /\ OneCaller /\ HeapShared /\ TableSound /\ Tracker!ReportsJustified
  BY DEF TrackerInv
<1>2. /\ doing[t] = "idle" /\ heap[a] = "free" /\ source = "cpp" /\ ended = "no"
      /\ doing' = [doing EXCEPT ![t] = "add_record"]
      /\ heap' = [heap EXCEPT ![a] = Tracker!Form(b)]
      /\ arg' = [arg EXCEPT ![t] = r]
      /\ \/ ended' = "clash"
         \/ /\ ended' = "no"
            /\ \A u \in TrackedThreads : doing[u] # "idle" => arg[u].ptr # a
      /\ UNCHANGED <<source, table, may_delete, dropped, report, leaks>>
  BY DEF Tracker!operator_new, Tracker!Enter
<1>3. r \in Records /\ r.ptr = a /\ r.is_array = b /\ Tracker!Form(b) # "free"
  BY FormsDiffer DEF Records
<1>4. /\ doing'[t] = "add_record" /\ arg'[t] = r /\ heap'[a] = Tracker!Form(b)
      /\ \A u \in TrackedThreads \ {t} : doing'[u] = doing[u] /\ arg'[u] = arg[u]
      /\ \A x \in Addresses \ {a} : heap'[x] = heap[x]
  BY <1>1, <1>2 DEF TrackerTypeOK
<1>5. /\ a \notin may_delete /\ a \notin dropped /\ ~InTable(a)
      /\ \A u \in TrackedThreads : doing[u] \in InCall =>
           (ended' # "clash" => arg[u].ptr # a) /\ arg[u].ptr \in Addresses
      /\ \A i \in DOMAIN table : table[i].ptr # a
  <2>1. \A u \in TrackedThreads : doing[u] \in InCall =>
           (ended' # "clash" => arg[u].ptr # a) /\ arg[u].ptr \in Addresses
    BY <1>1, <1>2 DEF TrackerTypeOK, Records, InCall
  <2>2. a \notin may_delete /\ a \notin dropped /\ ~InTable(a)
    BY <1>1, <1>2 DEF HeapShared, TableSound
  <2> QED BY <2>1, <2>2 DEF InTable
<1>6. TrackerTypeOK'
  BY <1>1, <1>2, <1>3, FormsDiffer DEF TrackerTypeOK, InCall
<1>7. OneCaller'
  BY <1>1, <1>2, <1>3, <1>4, <1>5 DEF OneCaller, InCall, TrackerTypeOK
<1>8. HeapShared'
  <2>1. \A x \in may_delete \cup dropped : x # a /\ x \in Addresses
    BY <1>1, <1>5 DEF TrackerTypeOK
  <2>2. ASSUME NEW x \in Addresses, heap'[x] # "free", x \notin may_delete
        PROVE  \E u \in TrackedThreads : Calls(u, InCall, x)'
    BY <2>2, <1>1, <1>2, <1>3, <1>4 DEF HeapShared, Calls, InCall
  <2> QED BY <2>1, <2>2, <1>1, <1>2, <1>4 DEF HeapShared
<1>9. TableSound'
  <2>1. ASSUME NEW x \in Addresses
        PROVE  InTable(x)' <=>
                 /\ heap'[x] # "free" /\ x \notin dropped'
                 /\ ~\E u \in TrackedThreads : Calls(u, {"add_record", "free"}, x)'
    <3>1. InTable(x)' <=> InTable(x)
      BY <1>2 DEF InTable
    <3>2. CASE x = a
      BY <3>1, <3>2, <1>3, <1>4, <1>5 DEF Calls
    <3>3. CASE x # a
      <4>1. ASSUME NEW u \in TrackedThreads
            PROVE  Calls(u, {"add_record", "free"}, x)' <=> Calls(u, {"add_record", "free"}, x)
        BY <3>3, <1>2, <1>3, <1>4 DEF Calls
      <4> QED BY <4>1, <3>1, <3>3, <1>1, <1>2, <1>4 DEF TableSound
    <3> QED BY <3>2, <3>3
  <2> QED BY <2>1, <1>1, <1>2, <1>4, <1>5 DEF TableSound
<1>10. Tracker!ReportsJustified'
  BY <1>1, <1>2, <1>4, <1>5 DEF Tracker!ReportsJustified, InCall
<1> QED BY <1>1, <1>2, <1>6, <1>7, <1>8, <1>9, <1>10 DEF TrackerInv

\* The record goes into the table, or is dropped, and the program has the address.
LEMMA AddRecord ==
  ASSUME TrackerInv, NEW t \in TrackedThreads, Tracker!add_record(t)
  PROVE  TrackerInv'
<1> DEFINE r == arg[t]
           a == r.ptr
<1>1. TrackerTypeOK /\ OneCaller /\ HeapShared /\ TableSound /\ Tracker!ReportsJustified
  BY DEF TrackerInv
<1>2. /\ doing[t] = "add_record" /\ Tracker!Add(r)
      /\ doing' = [doing EXCEPT ![t] = "idle"]
      /\ may_delete' = may_delete \cup {a}
      /\ arg' = [arg EXCEPT ![t] = <<>>]
      /\ ended = "no"
      /\ UNCHANGED <<source, heap, report, ended, leaks>>
  BY DEF Tracker!add_record, Tracker!Enter
<1>3. /\ r \in Records /\ a \in Addresses /\ heap[a] = Tracker!Form(r.is_array)
      /\ a \notin dropped /\ a \notin may_delete /\ heap[a] # "free" /\ ended = "no"
      /\ ~InTable(a)
  <2>1. /\ r \in Records /\ a \in Addresses /\ r.is_array \in BOOLEAN
        /\ heap[a] = Tracker!Form(r.is_array) /\ a \notin dropped
    BY <1>1, <1>2 DEF TrackerTypeOK, OneCaller, InCall, Records
  <2>2. heap[a] # "free"
    BY <2>1, FormsDiffer
  <2> QED BY <2>1, <2>2, <1>1, <1>2 DEF OneCaller, TableSound, Calls, InCall
<1>4. /\ doing'[t] = "idle"
      /\ \A u \in TrackedThreads \ {t} : doing'[u] = doing[u] /\ arg'[u] = arg[u]
      /\ \A u \in TrackedThreads \ {t} : doing[u] \in InCall =>
           arg[u].ptr # a /\ arg[u].ptr \in Addresses
  BY <1>1, <1>2, <1>3 DEF TrackerTypeOK, OneCaller, InCall, Records
<1>5. ASSUME NEW u \in TrackedThreads, NEW x, NEW here \in SUBSET InCall
      PROVE  Calls(u, here, x)' <=> u # t /\ Calls(u, here, x)
  BY <1>4 DEF Calls, InCall
<1>6. \/ table' = Append(table, r) /\ dropped' = dropped
      \/ table' = table /\ dropped' = dropped \cup {a}
  BY <1>2 DEF Tracker!Add
<1>7. TrackerTypeOK'
  <2>1. table' \in Seq(Records) /\ dropped' \subseteq Addresses
    <3>1. Append(table, r) \in Seq(Records) /\ table \in Seq(Records)
      BY <1>1, <1>3, RecordAppended DEF TrackerTypeOK
    <3>2. dropped \subseteq Addresses /\ dropped \cup {a} \subseteq Addresses
      BY <1>1, <1>3 DEF TrackerTypeOK
    <3> QED BY <3>1, <3>2, <1>6
  <2>2. /\ doing' \in [TrackedThreads -> {"idle"} \cup InCall]
        /\ arg' = [u \in TrackedThreads |-> arg'[u]]
        /\ \A u \in TrackedThreads : doing'[u] \in InCall => arg'[u] \in Records
    BY <1>1, <1>2, <1>4 DEF TrackerTypeOK, InCall
  <2> QED BY <2>1, <2>2, <1>1, <1>2, <1>3 DEF TrackerTypeOK
<1>8. OneCaller'
  <2>1. \A x \in Addresses : x # a => (x \in dropped' <=> x \in dropped)
    BY <1>6
  <2> QED BY <2>1, <1>1, <1>2, <1>3, <1>4 DEF OneCaller, InCall
<1>9. HeapShared'
  <2>1. ASSUME NEW x \in Addresses, heap[x] # "free", x \notin may_delete, x # a
        PROVE  \E u \in TrackedThreads : Calls(u, InCall, x)'
    <3>1. PICK u \in TrackedThreads : Calls(u, InCall, x)
      BY <2>1, <1>1 DEF HeapShared
    <3>2. u # t
      BY <3>1, <2>1 DEF Calls
    <3> QED BY <3>1, <3>2, <1>5
  <2> QED BY <2>1, <1>1, <1>2, <1>3, <1>6 DEF HeapShared
<1>10. ASSUME NEW x \in Addresses
       PROVE  (\E u \in TrackedThreads : Calls(u, {"add_record", "free"}, x)') <=>
                x # a /\ \E u \in TrackedThreads : Calls(u, {"add_record", "free"}, x)
  <2>1. \A u \in TrackedThreads : Calls(u, {"add_record", "free"}, a) => u = t
    BY <1>4 DEF Calls, InCall
  <2>2. \A u \in TrackedThreads : Calls(u, {"add_record", "free"}, x) =>
          (x = a <=> u = t)
    BY <1>4, <2>1 DEF Calls, InCall
  <2>3. {"add_record", "free"} \in SUBSET InCall
    BY DEF InCall
  <2> QED BY <2>2, <2>3, <1>5
<1>11. CASE table' = Append(table, r) /\ dropped' = dropped
  <2>1. /\ DOMAIN table' = DOMAIN table \cup {Len(table) + 1}
        /\ Len(table) + 1 \notin DOMAIN table
        /\ \A i \in DOMAIN table : table'[i] = table[i]
        /\ table'[Len(table) + 1] = r
    BY <1>11, <1>1, <1>3, RecordAppended DEF TrackerTypeOK
  <2>2. \A x : InTable(x)' <=> InTable(x) \/ x = a
    BY <2>1 DEF InTable
  <2>3. \A i \in DOMAIN table : table[i].ptr # a
    BY <1>3 DEF InTable
  <2>4. TableSound'
    <3>1. \A x \in Addresses :
            InTable(x)' <=>
              /\ heap'[x] # "free" /\ x \notin dropped'
              /\ ~\E u \in TrackedThreads : Calls(u, {"add_record", "free"}, x)'
      BY <1>10, <1>1, <1>2, <1>3, <1>11, <2>2 DEF TableSound
    <3>2. \A i, j \in DOMAIN table' : table'[i].ptr = table'[j].ptr => i = j
      BY <2>1, <2>3, <1>1 DEF TableSound
    <3>3. \A i \in DOMAIN table' : heap'[table'[i].ptr] = Tracker!Form(table'[i].is_array)
      BY <2>1, <1>1, <1>2, <1>3 DEF TableSound
    <3> QED BY <3>1, <3>2, <3>3 DEF TableSound
  <2>5. Tracker!ReportsJustified'
    BY <1>1, <1>2, <1>4, <1>11 DEF Tracker!ReportsJustified
  <2> QED BY <2>4, <2>5, <1>2, <1>3, <1>7, <1>8, <1>9 DEF TrackerInv
<1>12. CASE table' = table /\ dropped' = dropped \cup {a}
  <2>1. \A x : InTable(x)' <=> InTable(x)
    BY <1>12 DEF InTable
  <2>2. TableSound'
    <3>1. \A x \in Addresses :
            InTable(x)' <=>
              /\ heap'[x] # "free" /\ x \notin dropped'
              /\ ~\E u \in TrackedThreads : Calls(u, {"add_record", "free"}, x)'
      BY <1>10, <1>1, <1>2, <1>3, <1>12, <2>1 DEF TableSound
    <3> QED BY <3>1, <1>1, <1>2, <1>12 DEF TableSound
  <2>3. Tracker!ReportsJustified'
    BY <1>1, <1>2, <1>4, <1>12 DEF Tracker!ReportsJustified, InCall
  <2> QED BY <2>2, <2>3, <1>2, <1>3, <1>7, <1>8, <1>9 DEF TrackerInv
<1> QED BY <1>6, <1>11, <1>12

\* What is left of a table that lists every address once, without the record of a.
LEMMA WithoutRecord ==
  ASSUME TrackerTypeOK, TableSound, NEW a \in Addresses, InTable(a),
         table' = Tracker!SwapBack(Tracker!FirstEntry(a))
  PROVE  /\ table' \in Seq(Records)
         /\ \A x : InTable(x)' <=> InTable(x) /\ x # a
         /\ \A j \in DOMAIN table' : \E k \in DOMAIN table :
              table'[j] = table[k] /\ table[k].ptr # a
         /\ \A j, k \in DOMAIN table' : table'[j].ptr = table'[k].ptr => j = k
<1> DEFINE i == Tracker!FirstEntry(a)
           old(j) == IF j = i THEN Len(table) ELSE j
<1>1. /\ table \in Seq(Records) /\ Tracker!Entries(a) # {}
      /\ \A j, k \in DOMAIN table : table[j].ptr = table[k].ptr => j = k
  BY DEF TrackerTypeOK, TableSound, InTable, Tracker!Entries
<1>2. i \in DOMAIN table /\ table[i].ptr = a
  BY <1>1, EntryFound
<1>3. /\ table' \in Seq(Records) /\ DOMAIN table' = 1 .. Len(table) - 1
      /\ \A j \in DOMAIN table' : old(j) \in DOMAIN table \ {i} /\ table'[j] = table[old(j)]
      /\ \A k \in DOMAIN table \ {i} : \E j \in DOMAIN table' : old(j) = k
  <2>1. table' = Tracker!SwapBack(i)
    OBVIOUS
  <2> HIDE DEF i
  <2> QED BY <2>1, <1>1, <1>2, RecordRemoved
<1>4. \A k \in DOMAIN table \ {i} : table[k].ptr # a
  BY <1>1, <1>2
<1>5. ASSUME NEW j \in DOMAIN table', NEW k \in DOMAIN table', table'[j].ptr = table'[k].ptr
      PROVE  j = k
  <2>1. old(j) = old(k)
    BY <1>1, <1>3, <1>5
  <2>2. j # Len(table) /\ k # Len(table)
    BY <1>3, <1>1
  <2> QED BY <2>1, <2>2
<1>6. ASSUME NEW x PROVE InTable(x)' <=> InTable(x) /\ x # a
  BY <1>2, <1>3, <1>4 DEF InTable
<1> QED BY <1>3, <1>4, <1>5, <1>6

LEMMA DeleteCalled ==
  ASSUME TrackerInv, NEW t \in TrackedThreads, NEW a \in Addresses, NEW b \in BOOLEAN,
         Tracker!Delete(t, a, b)
  PROVE  TrackerInv'
<1> DEFINE r == [ptr |-> a, is_array |-> b]
<1>1. TrackerTypeOK /\ OneCaller /\ HeapShared /\ TableSound /\ Tracker!ReportsJustified
  BY DEF TrackerInv
<1>2. /\ doing[t] = "idle" /\ source = "cpp" /\ ended = "no"
      /\ a \in may_delete \/ heap[a] = "free"
      /\ doing' = [doing EXCEPT ![t] = "remove_record"]
      /\ may_delete' = may_delete \ {a}
      /\ arg' = [arg EXCEPT ![t] = r]
      /\ UNCHANGED <<source, heap, table, dropped, report, ended, leaks>>
  BY DEF Tracker!Delete, Tracker!Enter, Tracker!Deletable
<1>3. r \in Records /\ r.ptr = a
  BY DEF Records
<1>4. /\ doing'[t] = "remove_record" /\ arg'[t] = r
      /\ \A u \in TrackedThreads \ {t} : doing'[u] = doing[u] /\ arg'[u] = arg[u]
      /\ heap[a] # "free" =>
           \A u \in TrackedThreads : doing[u] \in InCall => arg[u].ptr # a
      /\ \A u \in TrackedThreads : doing[u] = "add_record" => arg[u].ptr # a
  <2>1. \A u \in TrackedThreads : doing[u] = "add_record" => heap[arg[u].ptr] # "free"
    <3>1. \A u \in TrackedThreads : doing[u] = "add_record" =>
            arg[u].is_array \in BOOLEAN /\ heap[arg[u].ptr] = Tracker!Form(arg[u].is_array)
      BY <1>1, <1>2 DEF TrackerTypeOK, OneCaller, InCall, Records
    <3> QED BY <3>1, FormsDiffer
  <2> QED BY <2>1, <1>1, <1>2 DEF TrackerTypeOK, OneCaller, InCall
<1>5. TrackerTypeOK'
  BY <1>1, <1>2, <1>3, <1>4 DEF TrackerTypeOK, InCall
<1>6. OneCaller'
  BY <1>1, <1>2, <1>3, <1>4 DEF OneCaller, InCall
<1>7. HeapShared'
  <2>1. ASSUME NEW x \in Addresses, heap[x] # "free", x \notin may_delete'
        PROVE  \E u \in TrackedThreads : Calls(u, InCall, x)'
    <3>1. CASE x = a
      BY <3>1, <1>3, <1>4 DEF Calls, InCall
    <3>2. CASE x # a
      <4>1. PICK u \in TrackedThreads : Calls(u, InCall, x)
        BY <3>2, <2>1, <1>1, <1>2 DEF HeapShared
      <4> QED BY <4>1, <1>2, <1>4 DEF Calls, InCall
    <3> QED BY <3>1, <3>2
  <2> QED BY <2>1, <1>1, <1>2 DEF HeapShared
<1>8. TableSound'
  <2>1. \A x : InTable(x)' <=> InTable(x)
    BY <1>2 DEF InTable
  <2>2. \A x, u : Calls(u, {"add_record", "free"}, x)' <=> Calls(u, {"add_record", "free"}, x)
    BY <1>2, <1>4 DEF Calls
  <2> QED BY <2>1, <2>2, <1>1, <1>2 DEF TableSound
<1>9. Tracker!ReportsJustified'
  BY <1>1, <1>2, <1>4 DEF Tracker!ReportsJustified
<1> QED BY <1>1, <1>2, <1>5, <1>6, <1>7, <1>8, <1>9 DEF TrackerInv

\* The table after the search for a, which finds the one record of a if there is one.
LEMMA Searched ==
  ASSUME TrackerTypeOK, TableSound, NEW a \in Addresses, UNCHANGED heap,
         table' = IF Tracker!Entries(a) = {} THEN table
                  ELSE Tracker!SwapBack(Tracker!FirstEntry(a))
  PROVE  /\ Tracker!Entries(a) = {} <=> ~InTable(a)
         /\ table' \in Seq(Records)
         /\ \A x : InTable(x)' <=> InTable(x) /\ x # a
         /\ \A j, k \in DOMAIN table' : table'[j].ptr = table'[k].ptr => j = k
         /\ \A j \in DOMAIN table' : heap'[table'[j].ptr] = Tracker!Form(table'[j].is_array)
         /\ InTable(a) =>
              /\ table[Tracker!FirstEntry(a)].is_array \in BOOLEAN
              /\ heap[a] = Tracker!Form(table[Tracker!FirstEntry(a)].is_array)
<1> DEFINE i == Tracker!FirstEntry(a)
<1>1. Tracker!Entries(a) = {} <=> ~InTable(a)
  BY DEF InTable, Tracker!Entries
<1>2. CASE InTable(a)
  <2>1. table' = Tracker!SwapBack(i)
    BY <1>1, <1>2
  <2>2. /\ table' \in Seq(Records)
        /\ \A x : InTable(x)' <=> InTable(x) /\ x # a
        /\ \A j \in DOMAIN table' : \E k \in DOMAIN table :
             table'[j] = table[k] /\ table[k].ptr # a
        /\ \A j, k \in DOMAIN table' : table'[j].ptr = table'[k].ptr => j = k
    BY <1>2, <2>1, WithoutRecord
  <2>3. i \in DOMAIN table /\ table[i].ptr = a
    BY <1>1, <1>2, EntryFound DEF TableSound, TrackerTypeOK
  <2>4. table[i] \in Records
    BY <2>3 DEF TrackerTypeOK
  <2>5. table[i].is_array \in BOOLEAN /\ heap[a] = Tracker!Form(table[i].is_array)
    BY <2>3, <2>4 DEF TableSound, Records
  <2> HIDE DEF i
  <2>6. \A j \in DOMAIN table' : heap'[table'[j].ptr] = Tracker!Form(table'[j].is_array)
    BY <2>2 DEF TableSound
  <2> QED BY <1>1, <1>2, <2>2, <2>5, <2>6 DEF i
<1>3. CASE ~InTable(a)
  <2>1. table' = table
    BY <1>1, <1>3
  <2>2. \A x : InTable(x)' <=> InTable(x)
    BY <2>1 DEF InTable
  <2> QED BY <1>1, <1>3, <2>1, <2>2 DEF TableSound, TrackerTypeOK
<1> QED BY <1>2, <1>3

\* The record comes out, and says whether the delete is right.
LEMMA RemoveRecord ==
  ASSUME TrackerInv, NEW t \in TrackedThreads, Tracker!remove_record(t)
  PROVE  TrackerInv'
<1> DEFINE r == arg[t]
           a == r.ptr
           i == Tracker!FirstEntry(a)
<1>1. TrackerTypeOK /\ OneCaller /\ HeapShared /\ TableSound /\ Tracker!ReportsJustified
  BY DEF TrackerInv
<1>2. /\ doing[t] = "remove_record" /\ ended = "no"
      /\ doing' = [doing EXCEPT ![t] = "free"]
      /\ report' = [report EXCEPT ![t] =
            IF Tracker!Entries(a) = {} THEN "invalid"
            ELSE IF table[i].is_array # r.is_array THEN "mismatch" ELSE "none"]
      /\ table' = IF Tracker!Entries(a) = {} THEN table ELSE Tracker!SwapBack(i)
      /\ UNCHANGED <<source, heap, arg, may_delete, dropped, ended, leaks>>
  BY DEF Tracker!remove_record, Tracker!Enter
<1>3. /\ r \in Records /\ a \in Addresses /\ r.is_array \in BOOLEAN
      /\ heap[a] # "free" =>
           \A u \in TrackedThreads : doing[u] \in InCall /\ arg[u].ptr = a => u = t
  BY <1>1, <1>2 DEF TrackerTypeOK, OneCaller, InCall, Records
<1>4. /\ doing'[t] = "free"
      /\ \A u \in TrackedThreads \ {t} : doing'[u] = doing[u] /\ report'[u] = report[u]
  BY <1>1, <1>2 DEF TrackerTypeOK
<1>5. InTable(a) <=> heap[a] # "free" /\ a \notin dropped
  BY <1>1, <1>2, <1>3 DEF TableSound, Calls, InCall
<1>7. /\ Tracker!Entries(a) = {} <=> ~InTable(a)
      /\ table' \in Seq(Records)
      /\ \A x : InTable(x)' <=> InTable(x) /\ x # a
      /\ \A j, k \in DOMAIN table' : table'[j].ptr = table'[k].ptr => j = k
      /\ \A j \in DOMAIN table' : heap'[table'[j].ptr] = Tracker!Form(table'[j].is_array)
      /\ InTable(a) => table[i].is_array \in BOOLEAN /\ heap[a] = Tracker!Form(table[i].is_array)
  BY <1>1, <1>2, <1>3, Searched
<1> HIDE DEF i
<1>8. TrackerTypeOK'
  <2>1. report' \in [TrackedThreads -> {"none", "invalid", "mismatch"}]
    BY <1>1, <1>2 DEF TrackerTypeOK
  <2>2. /\ doing' \in [TrackedThreads -> {"idle"} \cup InCall]
        /\ \A u \in TrackedThreads : doing'[u] \in InCall => arg'[u] \in Records
    BY <1>1, <1>2, <1>3 DEF TrackerTypeOK, InCall
  <2> QED BY <2>1, <2>2, <1>1, <1>2, <1>7 DEF TrackerTypeOK
<1>9. OneCaller'
  BY <1>1, <1>2, <1>3, <1>4 DEF OneCaller, InCall
<1>10. HeapShared'
  <2>1. \A x, u : Calls(u, InCall, x)' <=> Calls(u, InCall, x)
    BY <1>2, <1>4 DEF Calls, InCall
  <2> QED BY <2>1, <1>1, <1>2 DEF HeapShared
<1>11. TableSound'
  <2>1. ASSUME NEW x
        PROVE  (\E u \in TrackedThreads : Calls(u, {"add_record", "free"}, x)') <=>
                 x = a \/ \E u \in TrackedThreads : Calls(u, {"add_record", "free"}, x)
    BY <1>2, <1>4 DEF Calls
  <2>2. \A x \in Addresses :
          InTable(x)' <=>
            /\ heap'[x] # "free" /\ x \notin dropped'
            /\ ~\E u \in TrackedThreads : Calls(u, {"add_record", "free"}, x)'
    BY <2>1, <1>1, <1>2, <1>7 DEF TableSound
  <2> QED BY <2>2, <1>7 DEF TableSound
<1>12. Tracker!ReportsJustified'
  <2>1. /\ report'[t] = "invalid" <=> heap[a] = "free" \/ a \in dropped
        /\ report'[t] = "mismatch" <=>
             heap[a] \notin {"free", Tracker!Form(r.is_array)} /\ a \notin dropped
    <3>1. CASE InTable(a)
      <4>1. report'[t] = IF table[i].is_array # r.is_array THEN "mismatch" ELSE "none"
        BY <3>1, <1>1, <1>2, <1>7 DEF TrackerTypeOK
      <4> QED BY <3>1, <4>1, <1>3, <1>5, <1>7, FormsDiffer
    <3>2. CASE ~InTable(a)
      BY <3>2, <1>1, <1>2, <1>5, <1>7 DEF TrackerTypeOK
    <3> QED BY <3>1, <3>2
  <2>2. ASSUME NEW u \in TrackedThreads \ {t}, doing'[u] = "free"
        PROVE  /\ report'[u] = "mismatch" <=>
                    /\ heap'[arg'[u].ptr] \notin {"free", Tracker!Form(arg'[u].is_array)}
                    /\ arg'[u].ptr \notin dropped'
               /\ report'[u] = "invalid" <=>
                    heap'[arg'[u].ptr] = "free" \/ arg'[u].ptr \in dropped'
    BY <2>2, <1>1, <1>2, <1>4 DEF Tracker!ReportsJustified
  <2> QED BY <2>1, <2>2, <1>2 DEF Tracker!ReportsJustified, Tracker!Form
<1> QED BY <1>1, <1>2, <1>3, <1>8, <1>9, <1>10, <1>11, <1>12 DEF TrackerInv

\* free: the address is malloc's again, or was so all the time.
LEMMA RealFree ==
  ASSUME TrackerInv, NEW t \in TrackedThreads, Tracker!free(t)
  PROVE  TrackerInv'
<1> DEFINE a == arg[t].ptr
<1>1. TrackerTypeOK /\ OneCaller /\ HeapShared /\ TableSound /\ Tracker!ReportsJustified
  BY DEF TrackerInv
<1>2. /\ doing[t] = "free" /\ ended = "no" /\ ended' \in {"no", "abort"}
      /\ doing' = [doing EXCEPT ![t] = "idle"]
      /\ heap' = [heap EXCEPT ![a] = "free"]
      /\ dropped' = dropped \ {a}
      /\ arg' = [arg EXCEPT ![t] = <<>>] /\ report' = [report EXCEPT ![t] = "none"]
      /\ UNCHANGED <<source, table, may_delete, leaks>>
  BY DEF Tracker!free, Tracker!Enter
<1>3. /\ arg[t] \in Records /\ a \in Addresses /\ a \notin may_delete
      /\ heap[a] # "free" =>
           \A u \in TrackedThreads : doing[u] \in InCall /\ arg[u].ptr = a => u = t
      /\ \A u \in TrackedThreads : doing[u] \in InCall => arg[u].ptr \in Addresses
  <2>1. /\ arg[t] \in Records /\ a \in Addresses
        /\ \A u \in TrackedThreads : doing[u] \in InCall => arg[u].ptr \in Addresses
    BY <1>1, <1>2 DEF TrackerTypeOK, InCall, Records
  <2> QED BY <2>1, <1>1, <1>2 DEF OneCaller, HeapShared, InCall
<1>4. /\ doing'[t] = "idle" /\ heap'[a] = "free"
      /\ \A x \in Addresses \ {a} : heap'[x] = heap[x]
      /\ \A u \in TrackedThreads \ {t} :
           doing'[u] = doing[u] /\ arg'[u] = arg[u] /\ report'[u] = report[u]
  BY <1>1, <1>2, <1>3 DEF TrackerTypeOK
<1>5. ~InTable(a) /\ \A i \in DOMAIN table : table[i].ptr # a /\ table[i].ptr \in Addresses
  <2>1. ~InTable(a)
    BY <1>1, <1>2, <1>3 DEF TableSound, Calls
  <2>2. ASSUME NEW i \in DOMAIN table PROVE table[i] \in Records
    BY <1>1 DEF TrackerTypeOK
  <2> QED BY <2>1, <2>2 DEF InTable, Records
<1>6. ASSUME NEW u, NEW x \in Addresses \ {a}, NEW here \in SUBSET InCall
      PROVE  Calls(u, here, x)' <=> Calls(u, here, x)
  BY <1>2, <1>3, <1>4 DEF Calls, InCall
<1>7. TrackerTypeOK'
  <2>1. heap' \in [Addresses -> {"free", "plain", "array"}]
    BY <1>1, <1>2 DEF TrackerTypeOK
  <2>2. /\ doing' \in [TrackedThreads -> {"idle"} \cup InCall]
        /\ arg' = [u \in TrackedThreads |-> arg'[u]]
        /\ \A u \in TrackedThreads : doing'[u] \in InCall => arg'[u] \in Records
    BY <1>1, <1>2, <1>4 DEF TrackerTypeOK, InCall
  <2>3. report' \in [TrackedThreads -> {"none", "invalid", "mismatch"}]
    BY <1>1, <1>2 DEF TrackerTypeOK
  <2> QED BY <2>1, <2>2, <2>3, <1>1, <1>2 DEF TrackerTypeOK
<1>8. OneCaller'
  <2>1. \A u \in TrackedThreads \ {t} : doing[u] = "add_record" => arg[u].ptr # a
    <3>1. \A u \in TrackedThreads : doing[u] = "add_record" =>
            arg[u].is_array \in BOOLEAN /\ heap[arg[u].ptr] = Tracker!Form(arg[u].is_array)
      BY <1>1, <1>2 DEF TrackerTypeOK, OneCaller, InCall, Records
    <3>2. \A u \in TrackedThreads : doing[u] = "add_record" => heap[arg[u].ptr] # "free"
      BY <3>1, FormsDiffer
    <3> QED BY <3>2, <1>3 DEF InCall
  <2> QED BY <2>1, <1>1, <1>2, <1>3, <1>4 DEF OneCaller, InCall
<1>9. HeapShared'
  <2>1. ASSUME NEW x \in Addresses, heap'[x] # "free", x \notin may_delete
        PROVE  \E u \in TrackedThreads : Calls(u, InCall, x)'
    BY <2>1, <1>1, <1>4, <1>6 DEF HeapShared
  <2>2. may_delete \subseteq Addresses \ {a} /\ dropped' \subseteq Addresses \ {a}
    BY <1>1, <1>2, <1>3 DEF TrackerTypeOK
  <2> QED BY <2>1, <2>2, <1>1, <1>2, <1>4 DEF HeapShared
<1>10. TableSound'
  <2>1. \A x : InTable(x)' <=> InTable(x)
    BY <1>2 DEF InTable
  <2>2. \A u : \A x \in Addresses \ {a} :
          Calls(u, {"add_record", "free"}, x)' <=> Calls(u, {"add_record", "free"}, x)
    BY <1>6 DEF InCall
  <2>3. \A x \in Addresses :
          InTable(x)' <=>
            /\ heap'[x] # "free" /\ x \notin dropped'
            /\ ~\E u \in TrackedThreads : Calls(u, {"add_record", "free"}, x)'
    BY <2>1, <2>2, <1>1, <1>2, <1>4, <1>5 DEF TableSound
  <2> QED BY <2>3, <1>1, <1>2, <1>4, <1>5 DEF TableSound
<1>11. Tracker!ReportsJustified'
  <2>1. ASSUME NEW u \in TrackedThreads, doing'[u] = "free"
        PROVE  /\ u # t /\ doing[u] = "free" /\ arg'[u] = arg[u] /\ report'[u] = report[u]
               /\ heap'[arg[u].ptr] = heap[arg[u].ptr]
               /\ arg[u].ptr \in dropped' <=> arg[u].ptr \in dropped
    <3>1. u # t /\ doing[u] = "free" /\ arg'[u] = arg[u] /\ report'[u] = report[u]
      BY <2>1, <1>4
    <3>2. CASE arg[u].ptr = a
      BY <3>1, <3>2, <1>1, <1>2, <1>3, <1>4 DEF HeapShared, InCall
    <3>3. CASE arg[u].ptr # a
      BY <3>1, <3>3, <1>2, <1>3, <1>4 DEF InCall
    <3> QED BY <3>1, <3>2, <3>3
  <2> QED BY <2>1, <1>1, <1>2 DEF Tracker!ReportsJustified, Tracker!Form
<1> QED BY <1>1, <1>2, <1>3, <1>7, <1>8, <1>9, <1>10, <1>11 DEF TrackerInv

LEMMA TrackedMalloc ==
  ASSUME TrackerInv, NEW t \in TrackedThreads, NEW a \in Addresses,
         Tracker!tracked_malloc(t, a)
  PROVE  TrackerInv'
<1> DEFINE r == [ptr |-> a, is_array |-> FALSE]
<1>1. TrackerTypeOK /\ OneCaller /\ HeapShared /\ TableSound /\ Tracker!ReportsJustified
  BY DEF TrackerInv
<1>2. /\ source = "c" /\ ended = "no" /\ heap[a] = "free" /\ Tracker!Add(r)
      /\ heap' = [heap EXCEPT ![a] = "plain"] /\ may_delete' = may_delete \cup {a}
      /\ UNCHANGED <<source, doing, arg, report, ended, leaks>>
  BY DEF Tracker!tracked_malloc, Tracker!Alone
<1>3. r \in Records /\ r.ptr = a /\ Tracker!Form(r.is_array) = "plain"
  BY DEF Records, Tracker!Form
<1>4. \A u \in TrackedThreads : doing[u] \notin InCall /\ doing'[u] \notin InCall
  BY <1>2 DEF Tracker!tracked_malloc, Tracker!Alone, InCall
<1>5. /\ heap'[a] = "plain" /\ \A x \in Addresses \ {a} : heap'[x] = heap[x]
      /\ heap' \in [Addresses -> {"free", "plain", "array"}]
  BY <1>1, <1>2 DEF TrackerTypeOK
<1>6. ~InTable(a) /\ \A i \in DOMAIN table : table[i].ptr # a /\ table[i].ptr \in Addresses
  <2>1. ~InTable(a)
    BY <1>1, <1>2 DEF TableSound
  <2>2. ASSUME NEW i \in DOMAIN table PROVE table[i] \in Records
    BY <1>1 DEF TrackerTypeOK
  <2> QED BY <2>1, <2>2 DEF InTable, Records
<1>7. \/ table' = Append(table, r) /\ dropped' = dropped
      \/ table' = table /\ dropped' = dropped \cup {a}
  BY <1>2, <1>3 DEF Tracker!Add
<1>8. table' \in Seq(Records) /\ dropped' \subseteq Addresses
  <2>1. Append(table, r) \in Seq(Records) /\ table \in Seq(Records)
    BY <1>1, <1>3, RecordAppended DEF TrackerTypeOK
  <2>2. dropped \subseteq Addresses /\ dropped \cup {a} \subseteq Addresses
    BY <1>1 DEF TrackerTypeOK
  <2> HIDE DEF r
  <2> QED BY <2>1, <2>2, <1>7
<1>9. TrackerTypeOK' /\ OneCaller'
  BY <1>1, <1>2, <1>4, <1>5, <1>8 DEF TrackerTypeOK, OneCaller, InCall
<1>10. HeapShared'
  BY <1>1, <1>2, <1>4, <1>5, <1>7 DEF TrackerTypeOK, HeapShared, Calls
<1>11. TableSound'
  <2>1. \A here \in SUBSET InCall : \A u, x : ~Calls(u, here, x) /\ ~Calls(u, here, x)'
    BY <1>4 DEF Calls
  <2>2. {"add_record", "free"} \in SUBSET InCall
    BY DEF InCall
  <2>3. CASE table' = Append(table, r) /\ dropped' = dropped
    <3>1. /\ DOMAIN table' = DOMAIN table \cup {Len(table) + 1}
          /\ Len(table) + 1 \notin DOMAIN table
          /\ \A i \in DOMAIN table : table'[i] = table[i]
          /\ table'[Len(table) + 1] = r
      BY <2>3, <1>1, <1>3, RecordAppended DEF TrackerTypeOK
    <3>2. \A x : InTable(x)' <=> InTable(x) \/ x = a
      BY <3>1, <1>3 DEF InTable
    <3>3. a \notin dropped
      BY <1>1, <1>2 DEF HeapShared
    <3>4. \A x \in Addresses :
            InTable(x)' <=>
              /\ heap'[x] # "free" /\ x \notin dropped'
              /\ ~\E u \in TrackedThreads : Calls(u, {"add_record", "free"}, x)'
      BY <2>1, <2>2, <2>3, <3>2, <3>3, <1>1, <1>5 DEF TableSound
    <3>5. \A i, j \in DOMAIN table' : table'[i].ptr = table'[j].ptr => i = j
      BY <3>1, <1>1, <1>3, <1>6 DEF TableSound
    <3>6. \A i \in DOMAIN table' : heap'[table'[i].ptr] = Tracker!Form(table'[i].is_array)
      <4> HIDE DEF r
      <4> QED BY <3>1, <1>1, <1>3, <1>5, <1>6 DEF TableSound
    <3> QED BY <3>4, <3>5, <3>6 DEF TableSound
  <2>4. CASE table' = table /\ dropped' = dropped \cup {a}
    <3>1. \A x : InTable(x)' <=> InTable(x)
      BY <2>4 DEF InTable
    <3>2. \A x \in Addresses :
            InTable(x)' <=>
              /\ heap'[x] # "free" /\ x \notin dropped'
              /\ ~\E u \in TrackedThreads : Calls(u, {"add_record", "free"}, x)'
      BY <2>1, <2>2, <2>4, <3>1, <1>1, <1>5, <1>6 DEF TableSound
    <3> QED BY <2>4, <3>2, <1>1, <1>5, <1>6 DEF TableSound
  <2> QED BY <2>3, <2>4, <1>7
<1>12. Tracker!ReportsJustified'
  BY <1>4 DEF Tracker!ReportsJustified, InCall
<1> QED BY <1>1, <1>2, <1>9, <1>10, <1>11, <1>12 DEF TrackerInv

\* In C: the search, its report, and free still to come.
LEMMA TrackedFree ==
  ASSUME TrackerInv, NEW t \in TrackedThreads, NEW a \in Addresses,
         Tracker!tracked_free(t, a)
  PROVE  TrackerInv'
<1> DEFINE r == [ptr |-> a, is_array |-> FALSE]
<1>1. TrackerTypeOK /\ OneCaller /\ HeapShared /\ TableSound /\ Tracker!ReportsJustified
  BY DEF TrackerInv
<1>2. /\ source = "c" /\ ended = "no" /\ may_delete' = may_delete \ {a}
      /\ doing' = [doing EXCEPT ![t] = "free"]
      /\ arg' = [arg EXCEPT ![t] = r]
      /\ report' = [report EXCEPT ![t] = IF Tracker!Entries(a) = {} THEN "invalid" ELSE "none"]
      /\ table' = IF Tracker!Entries(a) = {} THEN table
                  ELSE Tracker!SwapBack(Tracker!FirstEntry(a))
      /\ UNCHANGED <<source, heap, dropped, ended, leaks>>
  BY DEF Tracker!tracked_free, Tracker!Enter
<1>3. r \in Records /\ r.ptr = a /\ r.is_array = FALSE /\ Tracker!Form(FALSE) = "plain"
  BY DEF Records, Tracker!Form
<1>4. /\ \A u \in TrackedThreads : doing[u] = "idle"
      /\ doing'[t] = "free" /\ arg'[t] = r
      /\ \A u \in TrackedThreads \ {t} : doing'[u] = "idle"
  BY <1>1, <1>2 DEF TrackerTypeOK, Tracker!tracked_free, Tracker!Alone
<1>5. InTable(a) <=> heap[a] # "free" /\ a \notin dropped
  BY <1>1, <1>4 DEF TableSound, Calls
<1>6. /\ Tracker!Entries(a) = {} <=> ~InTable(a)
      /\ table' \in Seq(Records)
      /\ \A x : InTable(x)' <=> InTable(x) /\ x # a
      /\ \A j, k \in DOMAIN table' : table'[j].ptr = table'[k].ptr => j = k
      /\ \A j \in DOMAIN table' : heap'[table'[j].ptr] = Tracker!Form(table'[j].is_array)
  BY <1>1, <1>2, Searched
<1>7. TrackerTypeOK'
  <2>1. report' \in [TrackedThreads -> {"none", "invalid", "mismatch"}]
    BY <1>1, <1>2 DEF TrackerTypeOK
  <2>2. /\ doing' \in [TrackedThreads -> {"idle"} \cup InCall]
        /\ arg' = [u \in TrackedThreads |-> arg'[u]]
        /\ \A u \in TrackedThreads : doing'[u] \in InCall => arg'[u] \in Records
    BY <1>1, <1>2, <1>3, <1>4 DEF TrackerTypeOK, InCall
  <2> QED BY <2>1, <2>2, <1>1, <1>2, <1>6 DEF TrackerTypeOK
<1>8. OneCaller'
  <2>1. ASSUME NEW u \in TrackedThreads, doing'[u] \in InCall
        PROVE  u = t
    BY <2>1, <1>4 DEF InCall
  <2>2. \A u \in TrackedThreads : doing'[u] # "add_record"
    BY <1>4
  <2>3. arg'[t].ptr \notin may_delete'
    BY <1>2, <1>3, <1>4
  <2> QED BY <2>1, <2>2, <2>3 DEF OneCaller
<1>9. HeapShared'
  <2>1. ASSUME NEW x \in Addresses, heap[x] # "free", x \notin may_delete'
        PROVE  \E u \in TrackedThreads : Calls(u, InCall, x)'
    <3>1. x = a
      BY <2>1, <1>1, <1>2, <1>4 DEF HeapShared, Calls, InCall
    <3> QED BY <3>1, <1>3, <1>4 DEF Calls, InCall
  <2> QED BY <2>1, <1>1, <1>2 DEF HeapShared
<1>10. TableSound'
  <2>1. ASSUME NEW x
        PROVE  (\E u \in TrackedThreads : Calls(u, {"add_record", "free"}, x)') <=> x = a
    BY <1>3, <1>4 DEF Calls
  <2>2. \A x \in Addresses : InTable(x) <=> heap[x] # "free" /\ x \notin dropped
    BY <1>1, <1>4 DEF TableSound, Calls
  <2> QED BY <2>1, <2>2, <1>2, <1>6 DEF TableSound
<1>11. Tracker!ReportsJustified'
  <2>1. /\ report'[t] = "invalid" <=> heap[a] = "free" \/ a \in dropped
        /\ report'[t] # "mismatch"
    BY <1>1, <1>2, <1>5, <1>6 DEF TrackerTypeOK
  <2>2. heap[a] \in {"free", Tracker!Form(FALSE)}
    BY <1>1, <1>2, <1>3 DEF TrackerTypeOK, HeapShared
  <2> QED BY <2>1, <2>2, <1>2, <1>3, <1>4 DEF Tracker!ReportsJustified, Tracker!Form
<1> QED BY <1>1, <1>2, <1>7, <1>8, <1>9, <1>10, <1>11 DEF TrackerInv

\* At exit no thread is in a call, and the table is what the program still has.
LEMMA TrackerExits == ASSUME TrackerInv, Tracker!Exit PROVE TrackerInv'
<1>1. TrackerTypeOK /\ OneCaller /\ HeapShared /\ TableSound /\ Tracker!ReportsJustified
  BY DEF TrackerInv
<1>2. /\ \A t \in TrackedThreads : doing[t] = "idle" /\ doing'[t] = "idle"
      /\ ended' = "exit" /\ leaks' = Tracker!dump_leaks
      /\ UNCHANGED <<source, heap, table, doing, arg, may_delete, dropped, report>>
  BY DEF Tracker!Exit
<1>3. Tracker!dump_leaks = {a \in Addresses : InTable(a)}
  <2>1. ASSUME NEW i \in DOMAIN table PROVE table[i].ptr \in Addresses
    <3>1. table[i] \in Records
      BY <1>1 DEF TrackerTypeOK
    <3> QED BY <3>1 DEF Records
  <2> QED BY <2>1 DEF Tracker!dump_leaks, Tracker!ToSet, InTable
<1>4. \A t, here, a : ~(here \subseteq InCall /\ Calls(t, here, a))
  BY <1>2 DEF Calls, InCall
<1>5. leaks' = may_delete \ dropped
  <2>1. {"add_record", "free"} \subseteq InCall
    BY DEF InCall
  <2>2. \A a \in Addresses : InTable(a) <=> a \in may_delete /\ a \notin dropped
    BY <2>1, <1>1, <1>4 DEF HeapShared, TableSound
  <2> QED BY <2>2, <1>1, <1>2, <1>3 DEF TrackerTypeOK
<1>6. TrackerTypeOK' /\ HeapShared' /\ TableSound' /\ OneCaller' /\ Tracker!ReportsJustified'
  BY <1>1, <1>2 DEF TrackerTypeOK, HeapShared, TableSound, OneCaller, InCall, InTable, Calls,
                    Tracker!ReportsJustified, Tracker!Form
<1> QED BY <1>2, <1>5, <1>6 DEF TrackerInv

\* The other components leave the tracker alone.
LEMMA TrackerAlone ==
  ASSUME TrackerInv, UNCHANGED tracker_vars
  PROVE  TrackerInv'
BY DEF TrackerInv, tracker_vars, TrackerTypeOK, HeapShared, TableSound, OneCaller, InCall,
       InTable, Calls, Tracker!ReportsJustified, Tracker!Form

LEMMA TrackerInductive == TrackerInv /\ [MCNext]_allvars => TrackerInv'
<1> SUFFICES ASSUME TrackerInv, [MCNext]_allvars PROVE TrackerInv'
  OBVIOUS
<1>1. Tracker!Next \/ UNCHANGED tracker_vars
  BY DEF MCNext, Runs, allvars
<1>2. CASE Tracker!Next
  BY <1>2, OperatorNew, AddRecord, DeleteCalled, RemoveRecord, RealFree,
     TrackedMalloc, TrackedFree, TrackerExits DEF Tracker!Next
<1> QED BY <1>1, <1>2, TrackerAlone

THEOREM TrackerInvariance == MCSpec => []TrackerInv
<1>1. MCInit => TrackerInv
  BY TrackerInitially DEF MCInit
<1> QED BY <1>1, TrackerInductive, PTL DEF MCSpec

\* Day 17: whatever two threads' calls of malloc, of the table and of free fall between,
\* and whichever freed address malloc gives again, the table lists exactly what is
\* allocated and fits it.  In C and in C++ a delete is reported just when it has the
\* wrong form, or its address is not allocated or did not fit the table.
THEOREM TableExact == MCSpec => []TableIsHeap
<1>1. ASSUME TrackerInv PROVE Tracker!TableIsHeap
  <2>1. \A i \in DOMAIN table : table[i].ptr \in Addresses
    <3>1. \A i \in DOMAIN table : table[i] \in Records
      BY <1>1 DEF TrackerInv, TrackerTypeOK
    <3> QED BY <3>1 DEF Records
  <2>2. Tracker!dump_leaks = {a \in Addresses : InTable(a)}
    BY <2>1 DEF Tracker!dump_leaks, Tracker!ToSet, InTable
  <2> DEFINE inside(here) == {arg[t].ptr : t \in {u \in TrackedThreads : doing[u] = here}}
             recorded == {a \in Addresses : heap[a] # "free"}
                           \ (dropped \cup inside("add_record") \cup inside("free"))
  <2>3. \A a : (\E t \in TrackedThreads : Calls(t, {"add_record", "free"}, a)) <=>
                 a \in inside("add_record") \cup inside("free")
    BY DEF Calls
  <2>4. Tracker!dump_leaks = recorded
    <3>1. \A a \in Addresses : InTable(a) <=> a \in recorded
      BY <2>3, <1>1 DEF TrackerInv, TableSound
    <3> QED BY <2>2, <3>1
  <2>5. /\ \A i, j \in DOMAIN table : table[i].ptr = table[j].ptr => i = j
        /\ \A r \in Tracker!ToSet(table) : heap[r.ptr] = Tracker!Form(r.is_array)
    BY <1>1 DEF TrackerInv, TableSound, Tracker!ToSet
  <2> QED BY <2>4, <2>5, <1>1 DEF Tracker!TableIsHeap, TrackerInv
<1>2. TrackerInv => TableIsHeap
  BY <1>1 DEF TrackerInv, TableIsHeap
<1> QED BY <1>2, TrackerInvariance, PTL

-----------------------------------------------------------------------------
(* Day 27: the arena and the vector in it *)

\* The vector has no block, or an aligned one inside the arena.
OwnBlock ==
  \/ data = -1 /\ vec_size = 0 /\ capacity = 0
  \/ /\ data \in Nat /\ data % INT = 0
     /\ vec_size <= capacity /\ data + INT * capacity <= offset

\* Blocks of others lie below the offset, and apart from each other and from the vector's.
OtherBlocks ==
  /\ \A b \in taken : b[1] + b[2] <= offset
  /\ \A b, d \in taken : b # d => b[1] + b[2] <= d[1] \/ d[1] + d[2] <= b[1]
  /\ data # -1 => \A b \in taken :
       b[1] + b[2] <= data \/ data + INT * capacity <= b[1]

VectorInv ==
  /\ offset \in 0 .. ARENA_CAPACITY
  /\ mem \in [0 .. ARENA_CAPACITY - 1 -> Values \cup {0}]
  /\ vec_size \in Nat /\ capacity \in Nat
  /\ taken \subseteq Nat \X Nat
  /\ OwnBlock
  /\ OtherBlocks
  /\ Vector!Contents = pushed

\* The constants of the vector, without the instance's names.
LEMMA VectorConstants ==
  /\ ARENA_CAPACITY \in Nat /\ INT \in Nat \ {0} /\ FIRST_CAPACITY \in Nat \ {0}
  /\ \A r \in {<<1, 1>>, <<2, 4>>, <<3, 2>>} : r[1] \in Nat /\ r[2] \in Nat \ {0}
BY ArenaUsable DEF Vector!ArenaAssumption

\* The arena hands out addresses at or past its offset, of the alignment asked for.
LEMMA Aligned ==
  ASSUME offset \in Nat, NEW m \in Nat \ {0}
  PROVE  /\ Vector!aligned(m) \in Nat
         /\ Vector!aligned(m) >= offset
         /\ Vector!aligned(m) % m = 0
<1> DEFINE x == offset + m - 1
           q == x \div m
           r == x % m
           a == q * m
<1>1. x \in Nat /\ q \in Nat /\ r \in 0 .. m - 1 /\ x = m * q + r
  OBVIOUS
<1>2. a = m * q /\ a \in Nat
  BY <1>1
<1>3. a >= offset
  <2> HIDE DEF q, r, a
  <2> QED BY <1>1, <1>2
<1>4. a % m = 0
  <2> HIDE DEF q, a
  <2>1. a = m * q + 0 /\ 0 \in 0 .. m - 1
    BY <1>1, <1>2
  <2> QED BY <2>1, <1>1, <1>2, RemainderIs
<1> QED BY <1>2, <1>3, <1>4 DEF Vector!aligned

\* The place of the i-th int, and the int a byte belongs to.
LEMMA IntPlaces ==
  ASSUME NEW m \in Nat \ {0}, NEW i \in Nat, NEW n \in Nat
  PROVE  /\ m * i \in Nat
         /\ i < n => m * i + m <= m * n
         /\ (m * i) \div m = i
<1>1. m * i \in Nat /\ m * n \in Nat
  OBVIOUS
<1>2. ASSUME i < n PROVE m * i + m <= m * n
  <2> DEFINE k == n - i - 1
  <2>1. k \in Nat /\ n = k + i + 1
    BY <1>2
  <2>2. m * n = m * k + m * i + m /\ m * k \in Nat
    <3> HIDE DEF k
    <3> QED BY <2>1
  <2> QED BY <2>2, <1>1
<1>3. (m * i) \div m = i
  OBVIOUS
<1> QED BY <1>1, <1>2, <1>3

LEMMA WhichInt ==
  ASSUME NEW m \in Nat \ {0}, NEW y \in Nat, NEW n \in Nat, y < m * n
  PROVE  y \div m \in 0 .. n - 1
<1> DEFINE q == y \div m
           r == y % m
<1>1. q \in Nat /\ r \in 0 .. m - 1 /\ y = m * q + r
  OBVIOUS
<1>2. q < n
  <2> HIDE DEF q, r
  <2>1. SUFFICES ASSUME q >= n PROVE FALSE
    BY <1>1
  <2>2. m * n <= m * q
    <3>1. q = n \/ n < q
      BY <1>1, <2>1
    <3>2. CASE q = n
      BY <3>2, <1>1
    <3>3. CASE n < q
      BY <3>3, <1>1, IntPlaces
    <3> QED BY <3>1, <3>2, <3>3
  <2> QED BY <1>1, <2>2
<1> QED BY <1>1, <1>2

Bytes == 0 .. ARENA_CAPACITY - 1
Data  == Values \cup {0}

\* Ints written to memory read back, and nothing else changes.
LEMMA IntsWritten ==
  ASSUME mem \in [Bytes -> Data], NEW a \in Nat, NEW s \in Seq(Data),
         a + INT * Len(s) <= ARENA_CAPACITY
  PROVE  LET new == Vector!Ints(mem, a, s)
         IN  /\ new \in [Bytes -> Data]
             /\ \A i \in 1 .. Len(s) : new[a + INT * (i - 1)] = s[i]
             /\ \A x \in Bytes : x < a \/ x >= a + INT * Len(s) => new[x] = mem[x]
<1> DEFINE new == Vector!Ints(mem, a, s)
           n == Len(s)
<1>1. INT \in Nat \ {0} /\ ARENA_CAPACITY \in Nat /\ n \in Nat /\ INT * n \in Nat
  BY VectorConstants
<1>2. new = [x \in Bytes |-> IF a <= x /\ x < a + INT * n THEN s[(x - a) \div INT + 1] ELSE mem[x]]
  BY DEF Vector!Ints
<1>3. ASSUME NEW x \in Bytes, a <= x, x < a + INT * n
      PROVE  s[(x - a) \div INT + 1] \in Data
  <2>1. x - a \in Nat /\ x - a < INT * n
    BY <1>1, <1>3 DEF Bytes
  <2>2. (x - a) \div INT \in 0 .. n - 1
    <3> DEFINE y == x - a
    <3> HIDE DEF y
    <3>1. y \div INT \in 0 .. n - 1
      BY <2>1, <1>1, WhichInt DEF y
    <3> QED BY <3>1 DEF y
  <2>3. (x - a) \div INT + 1 \in 1 .. n
    <3> DEFINE z == (x - a) \div INT
    <3>1. z \in 0 .. n - 1
      BY <2>2
    <3> HIDE DEF z
    <3>2. z + 1 \in 1 .. n
      BY <3>1, <1>1
    <3> QED BY <3>2 DEF z
  <2> QED BY <2>3
<1>4. new \in [Bytes -> Data]
  BY <1>2, <1>3
<1>5. ASSUME NEW i \in 1 .. n PROVE new[a + INT * (i - 1)] = s[i]
  <2> DEFINE k == i - 1
             x == a + INT * k
  <2>1. k \in Nat /\ k < n /\ k + 1 = i
    BY <1>1
  <2>2. INT * k \in Nat /\ INT * k + INT <= INT * n /\ (INT * k) \div INT = k
    <3> HIDE DEF k
    <3> QED BY <2>1, <1>1, IntPlaces
  <2>3. x \in Bytes /\ a <= x /\ x < a + INT * n /\ x - a = INT * k
    <3> DEFINE y == INT * k
               z == INT * n
    <3>1. y \in Nat /\ z \in Nat /\ y + INT <= z
      BY <1>1, <2>2
    <3>2. a + z <= ARENA_CAPACITY
      OBVIOUS
    <3> HIDE DEF y, z
    <3>3. a + y \in Bytes /\ a <= a + y /\ a + y < a + z /\ (a + y) - a = y
      BY <3>1, <3>2, <1>1 DEF Bytes
    <3> QED BY <3>3 DEF y, z
  <2>4. (x - a) \div INT + 1 = i
    BY <2>1, <2>2, <2>3
  <2> HIDE DEF x
  <2>5. new[x] = s[i]
    BY <1>2, <2>3, <2>4
  <2> QED BY <2>5 DEF x
<1>6. \A x \in Bytes : x < a \/ x >= a + INT * n => new[x] = mem[x]
  BY <1>1, <1>2 DEF Bytes
<1> QED BY <1>4, <1>5, <1>6

\* The vector's ints lie in its block, and the block in memory.
LEMMA IntsOwned ==
  ASSUME VectorInv
  PROVE  /\ pushed = [i \in 1 .. vec_size |-> mem[data + INT * (i - 1)]]
         /\ pushed \in Seq(Data) /\ Len(pushed) = vec_size
         /\ \A i \in 1 .. vec_size :
              /\ data \in Nat /\ data + INT * (i - 1) \in Bytes
              /\ data + INT * (i - 1) < data + INT * vec_size
              /\ data + INT * vec_size <= data + INT * capacity
              /\ data + INT * capacity <= offset
<1>1. /\ INT \in Nat \ {0} /\ ARENA_CAPACITY \in Nat /\ vec_size \in Nat /\ capacity \in Nat
      /\ offset \in 0 .. ARENA_CAPACITY /\ mem \in [Bytes -> Data]
      /\ OwnBlock /\ Vector!Contents = pushed
  BY VectorConstants DEF VectorInv, Bytes, Data
<1>2. pushed = [i \in 1 .. vec_size |-> mem[data + INT * (i - 1)]]
  BY <1>1 DEF Vector!Contents
<1>3. ASSUME NEW i \in 1 .. vec_size
      PROVE  /\ data \in Nat /\ data + INT * (i - 1) \in Bytes
             /\ data + INT * (i - 1) < data + INT * vec_size
             /\ data + INT * vec_size <= data + INT * capacity
             /\ data + INT * capacity <= offset
  <2>1. /\ data \in Nat /\ vec_size <= capacity /\ data + INT * capacity <= offset
    BY <1>1 DEF OwnBlock
  <2> DEFINE y == INT * (i - 1)
             z == INT * vec_size
             w == INT * capacity
  <2>2. y \in Nat /\ z \in Nat /\ w \in Nat
    BY <1>1
  <2>3. y + INT <= z
    <3> DEFINE k == i - 1
    <3>1. k \in Nat /\ k < vec_size
      BY <1>1
    <3> HIDE DEF k
    <3>2. INT * k + INT <= INT * vec_size
      BY <3>1, <1>1, IntPlaces
    <3> QED BY <3>2 DEF k
  <2>4. z <= w
    <3>1. vec_size = capacity \/ vec_size < capacity
      BY <2>1, <1>1
    <3>2. CASE vec_size < capacity
      <4>1. z + INT <= w
        BY <3>2, <1>1, IntPlaces
      <4> QED BY <4>1, <2>2, <1>1
    <3> QED BY <3>1, <3>2, <2>2
  <2>5. data + w <= offset
    BY <2>1
  <2> HIDE DEF y, z, w
  <2>6. /\ data + y \in Bytes /\ data + y < data + z /\ data + z <= data + w
    BY <1>1, <2>1, <2>2, <2>3, <2>4, <2>5 DEF Bytes
  <2> QED BY <2>1, <2>5, <2>6 DEF y, z, w
<1>4. \A i \in 1 .. vec_size : mem[data + INT * (i - 1)] \in Data
  BY <1>1, <1>3
<1>5. pushed \in Seq(Data) /\ Len(pushed) = vec_size
  BY <1>1, <1>2, <1>4
<1> QED BY <1>2, <1>3, <1>5

LEMMA VectorInitially == Vector!Init => VectorInv
<1> SUFFICES ASSUME Vector!Init PROVE VectorInv
  OBVIOUS
<1>1. Vector!Contents = pushed
  BY DEF Vector!Init, Vector!Contents
<1> QED BY <1>1, VectorConstants
        DEF VectorInv, Vector!Init, Vector!NULL, OwnBlock, OtherBlocks

\* What a step has to keep: the list of ints, written at the new place.
LEMMA ContentsAfter ==
  ASSUME vec_size' \in Nat, pushed' \in Seq(Data), Len(pushed') = vec_size',
         \A i \in 1 .. vec_size' : mem'[data' + INT * (i - 1)] = pushed'[i]
  PROVE  Vector!Contents' = pushed'
BY DEF Vector!Contents

LEMMA PushInPlace ==
  ASSUME VectorInv, NEW v \in Values, Vector!Push(v)
  PROVE  VectorInv'
<1> DEFINE a == data + INT * vec_size
           s == <<v>>
<1>1. /\ INT \in Nat \ {0} /\ ARENA_CAPACITY \in Nat /\ vec_size \in Nat /\ capacity \in Nat
      /\ offset \in 0 .. ARENA_CAPACITY /\ mem \in [Bytes -> Data] /\ taken \subseteq Nat \X Nat
      /\ OwnBlock /\ OtherBlocks
  BY VectorConstants DEF VectorInv, Bytes, Data
<1>2. /\ vec_size < capacity /\ mem' = Vector!Ints(mem, a, s)
      /\ vec_size' = vec_size + 1 /\ pushed' = Append(pushed, v)
      /\ UNCHANGED <<offset, data, capacity, taken>>
  BY DEF Vector!Push
<1>3. data \in Nat /\ data + INT * capacity <= offset /\ data % INT = 0
  BY <1>1, <1>2 DEF OwnBlock
<1>4. a \in Nat /\ a + INT <= data + INT * capacity
  <2>1. INT * vec_size \in Nat /\ INT * capacity \in Nat /\ INT * vec_size + INT <= INT * capacity
    BY <1>1, <1>2, IntPlaces
  <2> QED BY <2>1, <1>1, <1>3
<1>5. s \in Seq(Data) /\ Len(s) = 1 /\ s[1] = v /\ INT * Len(s) = INT
  BY <1>1 DEF Data
<1>6. /\ mem' \in [Bytes -> Data]
      /\ mem'[a] = v
      /\ \A x \in Bytes : x < a => mem'[x] = mem[x]
  <2>1. a + INT * Len(s) <= ARENA_CAPACITY
    <3> HIDE DEF a, s
    <3>1. INT * capacity \in Nat
      BY <1>1
    <3> QED BY <3>1, <1>1, <1>3, <1>4, <1>5
  <2>2. /\ Vector!Ints(mem, a, s) \in [Bytes -> Data]
        /\ \A i \in 1 .. Len(s) : Vector!Ints(mem, a, s)[a + INT * (i - 1)] = s[i]
        /\ \A x \in Bytes : x < a \/ x >= a + INT * Len(s) => Vector!Ints(mem, a, s)[x] = mem[x]
    <3> HIDE DEF a, s
    <3> QED BY <2>1, <1>1, <1>4, <1>5, IntsWritten
  <2>3. a + INT * (1 - 1) = a
    BY <1>1, <1>4
  <2> HIDE DEF a, s
  <2> QED BY <2>2, <2>3, <1>2, <1>5
<1>7. /\ pushed \in Seq(Data) /\ Len(pushed) = vec_size
      /\ \A i \in 1 .. vec_size : /\ pushed[i] = mem[data + INT * (i - 1)]
                                  /\ data + INT * (i - 1) \in Bytes
                                  /\ data + INT * (i - 1) < a
  BY <1>1, IntsOwned
<1>8. /\ pushed' \in Seq(Data) /\ Len(pushed') = vec_size'
      /\ pushed'[vec_size'] = v
      /\ \A i \in 1 .. vec_size : pushed'[i] = pushed[i]
  BY <1>1, <1>2, <1>7 DEF Data
<1>9. ASSUME NEW i \in 1 .. vec_size' PROVE mem'[data' + INT * (i - 1)] = pushed'[i]
  <2>1. CASE i = vec_size'
    <3>1. i - 1 = vec_size
      BY <2>1, <1>1, <1>2
    <3>2. data' + INT * (i - 1) = a
      BY <3>1, <1>2
    <3> HIDE DEF a
    <3> QED BY <3>2, <2>1, <1>6, <1>8
  <2>2. CASE i # vec_size'
    <3>1. i \in 1 .. vec_size
      BY <2>2, <1>1, <1>2
    <3> HIDE DEF a
    <3> QED BY <3>1, <1>2, <1>6, <1>7, <1>8
  <2> QED BY <2>1, <2>2
<1>10. Vector!Contents' = pushed'
  <2>1. vec_size' \in Nat
    BY <1>1, <1>2
  <2> HIDE DEF a, s
  <2> QED BY <2>1, <1>8, <1>9, ContentsAfter
<1>11. OwnBlock' /\ OtherBlocks'
  BY <1>1, <1>2, <1>3 DEF OwnBlock, OtherBlocks
<1> QED BY <1>1, <1>2, <1>6, <1>10, <1>11 DEF VectorInv, Bytes, Data

\* A block for one more int than there are, at least.
LEMMA GrowthSuffices ==
  ASSUME VectorInv, vec_size >= capacity
  PROVE  LET cap == IF capacity = 0 THEN FIRST_CAPACITY ELSE 2 * capacity
         IN  cap \in Nat /\ vec_size + 1 <= cap
BY VectorConstants DEF VectorInv, OwnBlock

LEMMA GrowsAndPushes ==
  ASSUME VectorInv, NEW v \in Values, Vector!GrowAndPush(v)
  PROVE  VectorInv'
<1> DEFINE cap == IF capacity = 0 THEN FIRST_CAPACITY ELSE 2 * capacity
           new == Vector!aligned(INT)
           s == Append(Vector!Contents, v)
<1>1. /\ INT \in Nat \ {0} /\ ARENA_CAPACITY \in Nat /\ vec_size \in Nat /\ capacity \in Nat
      /\ offset \in 0 .. ARENA_CAPACITY /\ mem \in [Bytes -> Data] /\ taken \subseteq Nat \X Nat
      /\ OwnBlock /\ OtherBlocks /\ Vector!Contents = pushed
  BY VectorConstants DEF VectorInv, Bytes, Data
<1>2. /\ vec_size >= capacity
      /\ new + INT * cap <= ARENA_CAPACITY /\ offset' = new + INT * cap
      /\ mem' = Vector!Ints(mem, new, s)
      /\ data' = new /\ capacity' = cap /\ vec_size' = vec_size + 1
      /\ pushed' = Append(pushed, v)
      /\ UNCHANGED taken
  BY DEF Vector!GrowAndPush, Vector!Bumped
<1>3. cap \in Nat /\ vec_size + 1 <= cap
  BY <1>2, GrowthSuffices
<1>4. new \in Nat /\ new >= offset /\ new % INT = 0
  BY <1>1, Aligned
<1>5. pushed \in Seq(Data) /\ Len(pushed) = vec_size
  BY IntsOwned
<1>6. /\ s = pushed' /\ pushed' \in Seq(Data) /\ Len(pushed') = vec_size'
      /\ vec_size' \in Nat /\ vec_size' <= cap
  BY <1>1, <1>2, <1>3, <1>5 DEF Data
<1> HIDE DEF cap, new, s
<1>7. INT * cap \in Nat /\ INT * vec_size' \in Nat /\ INT * vec_size' <= INT * cap
  <2>1. vec_size' = cap \/ vec_size' < cap
    BY <1>3, <1>6
  <2>2. CASE vec_size' < cap
    <3> DEFINE n == vec_size'
    <3>1. n \in Nat /\ n < cap
      BY <2>2, <1>6
    <3> HIDE DEF n
    <3>2. INT * n \in Nat /\ INT * cap \in Nat /\ INT * n + INT <= INT * cap
      BY <3>1, <1>1, <1>3, IntPlaces
    <3>3. INT * n <= INT * cap
      BY <3>2, <1>1
    <3> QED BY <3>2, <3>3 DEF n
  <2>3. CASE vec_size' = cap
    BY <2>3, <1>1, <1>3
  <2> QED BY <2>1, <2>2, <2>3
<1>8. new + INT * Len(s) <= ARENA_CAPACITY
  BY <1>1, <1>2, <1>4, <1>6, <1>7
<1>9. /\ mem' \in [Bytes -> Data]
      /\ \A i \in 1 .. Len(s) : mem'[new + INT * (i - 1)] = s[i]
  <2>1. s \in Seq(Data)
    BY <1>6
  <2>2. /\ Vector!Ints(mem, new, s) \in [Bytes -> Data]
        /\ \A i \in 1 .. Len(s) : Vector!Ints(mem, new, s)[new + INT * (i - 1)] = s[i]
    BY <2>1, <1>1, <1>4, <1>8, IntsWritten
  <2> QED BY <2>2, <1>2
<1>10. Vector!Contents' = pushed'
  BY <1>2, <1>6, <1>9, ContentsAfter
<1>11. OwnBlock'
  BY <1>2, <1>3, <1>4, <1>6, <1>7 DEF OwnBlock
<1>12. OtherBlocks'
  <2>1. \A b \in taken : b[1] \in Nat /\ b[2] \in Nat /\ b[1] + b[2] <= offset
    BY <1>1 DEF OtherBlocks
  <2>2. offset <= offset' /\ offset' \in Nat /\ offset \in Nat
    BY <1>1, <1>2, <1>4, <1>7
  <2>3. \A b \in taken : b[1] + b[2] <= offset' /\ b[1] + b[2] <= data'
    BY <2>1, <2>2, <1>2, <1>4
  <2> QED BY <2>3, <1>1, <1>2 DEF OtherBlocks
<1>13. offset' \in 0 .. ARENA_CAPACITY
  BY <1>1, <1>2, <1>4, <1>7
<1> QED BY <1>1, <1>2, <1>3, <1>6, <1>9, <1>10, <1>11, <1>12, <1>13 DEF VectorInv, Bytes, Data

\* arena_free keeps the bytes, and the offset.
LEMMA VectorDestroyed == ASSUME VectorInv, Vector!Destroy PROVE VectorInv'
<1>1. Vector!Contents' = pushed'
  BY DEF Vector!Destroy, Vector!Contents
<1>2. OwnBlock' /\ OtherBlocks'
  BY DEF VectorInv, Vector!Destroy, Vector!NULL, OwnBlock, OtherBlocks
<1> QED BY <1>1, <1>2 DEF VectorInv, Vector!Destroy

\* Zeros are written past the offset, so past the vector's ints.
LEMMA BlockTaken ==
  ASSUME VectorInv, NEW n \in Nat, NEW m \in Nat \ {0}, Vector!Take(n, m)
  PROVE  VectorInv'
<1> DEFINE a == Vector!aligned(m)
<1>1. /\ INT \in Nat \ {0} /\ ARENA_CAPACITY \in Nat /\ vec_size \in Nat /\ capacity \in Nat
      /\ offset \in 0 .. ARENA_CAPACITY /\ mem \in [Bytes -> Data] /\ taken \subseteq Nat \X Nat
      /\ OwnBlock /\ OtherBlocks /\ Vector!Contents = pushed
  BY VectorConstants DEF VectorInv, Bytes, Data
<1>2. /\ a + n <= ARENA_CAPACITY /\ offset' = a + n
      /\ mem' = [x \in Bytes |-> IF a <= x /\ x < a + n THEN 0 ELSE mem[x]]
      /\ taken' = taken \cup {<<a, n>>}
      /\ UNCHANGED <<data, vec_size, capacity, pushed>>
  BY <1>1 DEF Vector!Take, Vector!Bumped
<1>3. a \in Nat /\ a >= offset
  BY <1>1, Aligned
<1> HIDE DEF a
<1>4. /\ mem' \in [Bytes -> Data] /\ \A x \in Bytes : x < a => mem'[x] = mem[x]
      /\ offset' \in 0 .. ARENA_CAPACITY /\ offset <= offset'
  BY <1>1, <1>2, <1>3 DEF Data, Bytes
<1>5. Vector!Contents' = pushed'
  <2>1. /\ pushed \in Seq(Data) /\ Len(pushed) = vec_size
        /\ \A i \in 1 .. vec_size : /\ pushed[i] = mem[data + INT * (i - 1)]
                                    /\ data + INT * (i - 1) \in Bytes
    BY IntsOwned
  <2>2. ASSUME NEW i \in 1 .. vec_size PROVE data + INT * (i - 1) < a
    <3> DEFINE x == data + INT * (i - 1)
               y == data + INT * vec_size
               z == data + INT * capacity
    <3>1. x \in Bytes /\ x < y /\ y <= z /\ z <= offset /\ y \in Int /\ z \in Int
      <4>1. data \in Nat /\ x \in Bytes /\ x < y /\ y <= z /\ z <= offset
        BY IntsOwned
      <4> QED BY <4>1, <1>1
    <3> HIDE DEF x, y, z
    <3>2. x < a
      BY <3>1, <1>1, <1>3 DEF Bytes
    <3> QED BY <3>2 DEF x
  <2>3. \A i \in 1 .. vec_size : mem'[data + INT * (i - 1)] = pushed[i]
    BY <2>1, <2>2, <1>4
  <2> QED BY <2>1, <2>3, <1>1, <1>2, ContentsAfter
<1>6. OwnBlock'
  BY <1>1, <1>2, <1>4 DEF OwnBlock
<1>7. OtherBlocks'
  <2>1. \A b \in taken : b[1] \in Nat /\ b[2] \in Nat /\ b[1] + b[2] <= offset
    BY <1>1 DEF OtherBlocks
  <2>2. \A b \in taken : b[1] + b[2] <= offset' /\ b[1] + b[2] <= a
    BY <2>1, <1>1, <1>3, <1>4
  <2>3. <<a, n>>[1] = a /\ <<a, n>>[2] = n
    OBVIOUS
  <2>4. data # -1 => data + INT * capacity <= a
    <3>1. data # -1 => data + INT * capacity <= offset /\ data + INT * capacity \in Int
      BY <1>1 DEF OwnBlock
    <3> QED BY <3>1, <1>1, <1>3
  <2>5. \A b \in taken' : b[1] + b[2] <= offset'
    BY <2>2, <2>3, <1>2, <1>3
  <2>6. \A b, d \in taken' : b # d => b[1] + b[2] <= d[1] \/ d[1] + d[2] <= b[1]
    BY <2>2, <2>3, <1>1, <1>2 DEF OtherBlocks
  <2>7. data' # -1 => \A b \in taken' :
          b[1] + b[2] <= data' \/ data' + INT * capacity' <= b[1]
    BY <2>3, <2>4, <1>1, <1>2 DEF OtherBlocks
  <2> QED BY <2>5, <2>6, <2>7 DEF OtherBlocks
<1>8. taken' \subseteq Nat \X Nat
  BY <1>1, <1>2, <1>3
<1> QED BY <1>1, <1>2, <1>4, <1>5, <1>6, <1>7, <1>8 DEF VectorInv, Bytes, Data

LEMMA VectorInductive == VectorInv /\ [MCNext]_allvars => VectorInv'
<1> SUFFICES ASSUME VectorInv, [MCNext]_allvars PROVE VectorInv'
  OBVIOUS
<1>1. Vector!Next \/ UNCHANGED vector_vars
  BY DEF MCNext, Runs, allvars
<1>2. CASE Vector!Next
  <2>1. \A r \in {<<1, 1>>, <<2, 4>>, <<3, 2>>} : r[1] \in Nat /\ r[2] \in Nat \ {0}
    BY VectorConstants
  <2> QED BY <2>1, <1>2, PushInPlace, GrowsAndPushes, VectorDestroyed, BlockTaken
          DEF Vector!Next
<1>3. CASE UNCHANGED vector_vars
  <2>1. Vector!Contents' = pushed'
    BY <1>3 DEF vector_vars, VectorInv, Vector!Contents
  <2> QED BY <2>1, <1>3 DEF vector_vars, VectorInv, OwnBlock, OtherBlocks
<1> QED BY <1>1, <1>2, <1>3

THEOREM VectorInvariance == MCSpec => []VectorInv
<1>1. MCInit => VectorInv
  BY VectorInitially DEF MCInit
<1> QED BY <1>1, VectorInductive, PTL DEF MCSpec

\* Day 27: through growth, growth the arena refuses, and blocks of any size and alignment
\* taken in between, the vector holds what was pushed, in aligned ints of a block that no
\* other one overlaps and that lies within the arena.
THEOREM VectorKept == MCSpec => []VectorIntact
<1>1. ASSUME VectorInv PROVE Vector!VectorIntact
  <2> DEFINE mine == IF data = Vector!NULL THEN {} ELSE {<<data, INT * capacity>>}
  <2>1. /\ INT \in Nat \ {0} /\ vec_size \in Nat /\ capacity \in Nat
        /\ offset \in 0 .. ARENA_CAPACITY /\ ARENA_CAPACITY \in Nat
        /\ taken \subseteq Nat \X Nat
        /\ OwnBlock /\ OtherBlocks /\ Vector!Contents = pushed
    BY <1>1, VectorConstants DEF VectorInv
  <2>2. vec_size <= capacity
    BY <2>1 DEF OwnBlock
  <2>3. ASSUME NEW b \in mine
        PROVE  /\ data # -1 /\ data \in Nat /\ data % INT = 0
               /\ b[1] = data /\ b[2] = INT * capacity /\ data + INT * capacity <= offset
    BY <2>1 DEF OwnBlock, Vector!NULL
  <2>4. ASSUME NEW b \in taken \cup mine
        PROVE  b[1] >= 0 /\ b[1] + b[2] <= offset /\ offset <= ARENA_CAPACITY
    BY <2>1, <2>3 DEF OtherBlocks
  <2>5. ASSUME NEW b \in taken \cup mine, NEW d \in taken \cup mine, b # d
        PROVE  b[1] + b[2] <= d[1] \/ d[1] + d[2] <= b[1]
    <3>1. CASE b \in taken /\ d \in taken
      BY <3>1, <2>1, <2>5 DEF OtherBlocks
    <3>2. CASE b \in mine /\ d \in taken
      BY <3>2, <2>1, <2>3 DEF OtherBlocks
    <3>3. CASE b \in taken /\ d \in mine
      BY <3>3, <2>1, <2>3 DEF OtherBlocks
    <3>4. ~(b \in mine /\ d \in mine)
      BY <2>5
    <3> QED BY <3>1, <3>2, <3>3, <3>4
  <2>6. \A b \in mine : b[1] % INT = 0
    BY <2>3
  <2> QED BY <2>1, <2>2, <2>4, <2>5, <2>6 DEF Vector!VectorIntact
<1>2. VectorInv => VectorIntact
  BY <1>1 DEF VectorIntact
<1> QED BY <1>2, VectorInvariance, PTL

-----------------------------------------------------------------------------
(* Days 12 and 16: the owning handles *)

HandlesOn(o) == {h \in Handles : ptr[h] = o}
CountOn(o)   == Cardinality(HandlesOn(o))

OwnerTypeOK ==
  /\ type \in {"RefBox", "MySharedPtr", "MyUniquePtr", "CowString"}
  /\ ptr \in [Handles -> Objects \cup {Nil}]
  /\ allocated \subseteq Objects
  /\ refcount \in [Objects -> Int]
  /\ DOMAIN contents = Objects /\ contents = [o \in Objects |-> contents[o]]
  /\ expected = [h \in Handles |-> expected[h]]

\* The counts are right while the object is allocated; a unique pointer shares nothing.
Counted ==
  /\ \A o \in Objects : o \in allocated <=> CountOn(o) > 0
  /\ \A o \in allocated : refcount[o] = CountOn(o)
  /\ type = "MyUniquePtr" =>
       \A h, g \in Handles : ptr[h] = ptr[g] /\ ptr[h] # Nil => h = g

OwnerInv == OwnerTypeOK /\ Counted /\ Owners!ValuesKept

LEMMA HandleConstants == IsFiniteSet(Handles) /\ Nil \notin Objects
BY HandlesFinite DEF Owners!OwnershipAssumption, Owners!IsFiniteSet, IsFiniteSet

LEMMA SameCount == \A S : Owners!Cardinality(S) = Cardinality(S)
BY DEF Owners!Cardinality, Cardinality

\* A count is a number, and no handle is on an object whose count is zero.
LEMMA CountIs ==
  ASSUME NEW o
  PROVE  /\ IsFiniteSet(HandlesOn(o)) /\ CountOn(o) \in Nat
         /\ CountOn(o) > 0 <=> \E h \in Handles : ptr[h] = o
<1>1. HandlesOn(o) \subseteq Handles
  BY DEF HandlesOn
<1>2. IsFiniteSet(HandlesOn(o)) /\ CountOn(o) \in Nat
  BY <1>1, HandleConstants, FS_Subset, FS_CardinalityType DEF CountOn
<1>3. CountOn(o) = 0 <=> HandlesOn(o) = {}
  BY <1>2, FS_EmptySet DEF CountOn
<1> QED BY <1>2, <1>3 DEF HandlesOn

\* The last handle is the only one.
LEMMA LastHandle ==
  ASSUME NEW o, NEW h \in Handles, ptr[h] = o, CountOn(o) = 1
  PROVE  \A g \in Handles : ptr[g] = o => g = h
<1>1. IsFiniteSet(HandlesOn(o))
  BY CountIs
<1>2. PICK x : HandlesOn(o) = {x}
  BY <1>1, FS_Singleton DEF CountOn
<1> QED BY <1>2 DEF HandlesOn

\* Handle g lets go of y, which it was on, and comes to be on x.
LEMMA HandleMoves ==
  ASSUME NEW g \in Handles, NEW x, NEW y, ptr = [h \in Handles |-> ptr[h]],
         ptr' = [ptr EXCEPT ![g] = x], ptr[g] = y, x # y
  PROVE  /\ CountOn(x)' = CountOn(x) + 1
         /\ CountOn(y)' = CountOn(y) - 1
         /\ \A o : o # x /\ o # y => CountOn(o)' = CountOn(o)
<1>1. ptr'[g] = x /\ \A h \in Handles \ {g} : ptr'[h] = ptr[h]
  OBVIOUS
<1>2. HandlesOn(x)' = HandlesOn(x) \cup {g} /\ g \notin HandlesOn(x)
  BY <1>1 DEF HandlesOn
<1>3. HandlesOn(y)' = HandlesOn(y) \ {g} /\ g \in HandlesOn(y)
  BY <1>1 DEF HandlesOn
<1>4. \A o : o # x /\ o # y => HandlesOn(o)' = HandlesOn(o)
  BY <1>1 DEF HandlesOn
<1>5. IsFiniteSet(HandlesOn(x)) /\ IsFiniteSet(HandlesOn(y))
  BY CountIs
<1>6. Cardinality(HandlesOn(x) \cup {g}) = Cardinality(HandlesOn(x)) + 1
  BY <1>2, <1>5, FS_AddElement
<1>7. Cardinality(HandlesOn(y) \ {g}) = Cardinality(HandlesOn(y)) - 1
  BY <1>3, <1>5, FS_RemoveElement
<1> QED BY <1>2, <1>3, <1>4, <1>6, <1>7 DEF CountOn

LEMMA OwnersInitially == Owners!Init => OwnerInv
<1> SUFFICES ASSUME Owners!Init PROVE OwnerInv
  OBVIOUS
<1>1. OwnerTypeOK
  BY DEF Owners!Init, OwnerTypeOK
<1>2. ASSUME NEW o \in Objects PROVE CountOn(o) = 0
  <2>1. ~\E h \in Handles : ptr[h] = o
    BY HandleConstants DEF Owners!Init
  <2> QED BY <2>1, CountIs
<1>3. Counted
  BY <1>2 DEF Owners!Init, Counted
<1>4. Owners!ValuesKept
  BY DEF Owners!Init, Owners!ValuesKept, Owners!Lives
<1> QED BY <1>1, <1>3, <1>4 DEF OwnerInv

LEMMA Constructed ==
  ASSUME OwnerInv, NEW h \in Handles, NEW o \in Objects, NEW v \in Values,
         Owners!Construct(h, o, v)
  PROVE  OwnerInv'
<1>1. OwnerTypeOK /\ Counted /\ Owners!ValuesKept
  BY DEF OwnerInv
<1>2. /\ ptr[h] = Nil /\ o \notin allocated /\ o # Nil
      /\ ptr' = [ptr EXCEPT ![h] = o] /\ allocated' = allocated \cup {o}
      /\ refcount' = [refcount EXCEPT ![o] = 1]
      /\ contents' = [contents EXCEPT ![o] = v]
      /\ expected' = [expected EXCEPT ![h] = v]
      /\ type' = type
  BY HandleConstants DEF Owners!Construct, Owners!Lives
<1>3. OwnerTypeOK'
  BY <1>1, <1>2 DEF OwnerTypeOK
<1>4. ~\E g \in Handles : ptr[g] = o
  BY <1>1, <1>2, CountIs DEF Counted
<1>5. /\ CountOn(o)' = CountOn(o) + 1
      /\ \A x : x # o /\ x # Nil => CountOn(x)' = CountOn(x)
  <2>1. ptr = [g \in Handles |-> ptr[g]]
    BY <1>1 DEF OwnerTypeOK
  <2> QED BY <2>1, <1>2, HandleMoves
<1>6. CountOn(o) = 0
  BY <1>4, CountIs
<1>7. /\ refcount'[o] = 1 /\ ptr'[h] = o
      /\ \A x \in Objects \ {o} : refcount'[x] = refcount[x] /\ contents'[x] = contents[x]
      /\ \A g \in Handles \ {h} : ptr'[g] = ptr[g] /\ expected'[g] = expected[g]
      /\ contents'[o] = v /\ expected'[h] = v
  BY <1>1, <1>2 DEF OwnerTypeOK
<1>8. Counted'
  <2>1. \A x \in Objects : x \in allocated' <=> CountOn(x)' > 0
    BY <1>1, <1>2, <1>5, <1>6, HandleConstants DEF Counted
  <2>2. \A x \in allocated' : refcount'[x] = CountOn(x)'
    BY <1>1, <1>2, <1>5, <1>6, <1>7, HandleConstants DEF Counted, OwnerTypeOK
  <2>3. type' = "MyUniquePtr" =>
          \A a, b \in Handles : ptr'[a] = ptr'[b] /\ ptr'[a] # Nil => a = b
    BY <1>1, <1>2, <1>4, <1>7 DEF Counted
  <2> QED BY <2>1, <2>2, <2>3 DEF Counted
<1>9. Owners!ValuesKept'
  BY <1>1, <1>2, <1>4, <1>7 DEF Owners!ValuesKept, Owners!Lives, OwnerTypeOK
<1> QED BY <1>3, <1>8, <1>9 DEF OwnerInv

\* No type but the unique pointer forbids two handles on one object.
LEMMA Shared ==
  ASSUME OwnerInv, NEW h \in Handles, NEW g \in Handles, Owners!Share(h, g),
         type # "MyUniquePtr"
  PROVE  OwnerInv'
<1> DEFINE o == ptr[h]
<1>1. OwnerTypeOK /\ Counted /\ Owners!ValuesKept
  BY DEF OwnerInv
<1>2. PICK x \in Objects : x = ptr[h]
  BY <1>1 DEF Owners!Share, Owners!Lives, OwnerTypeOK
<1>3. /\ ptr[g] = Nil /\ x # Nil /\ ptr[h] = x /\ g # h
      /\ ptr' = [ptr EXCEPT ![g] = x]
      /\ refcount' = [refcount EXCEPT ![x] = refcount[x] + 1]
      /\ expected' = [expected EXCEPT ![g] = expected[h]]
      /\ UNCHANGED <<type, allocated, contents>>
  BY <1>2, HandleConstants DEF Owners!Share, Owners!Lives
<1>4. OwnerTypeOK'
  BY <1>1, <1>3 DEF OwnerTypeOK
<1>5. /\ CountOn(x)' = CountOn(x) + 1
      /\ \A y : y # x /\ y # Nil => CountOn(y)' = CountOn(y)
  <2>1. ptr = [a \in Handles |-> ptr[a]]
    BY <1>1 DEF OwnerTypeOK
  <2> QED BY <2>1, <1>3, HandleMoves
<1>6. x \in allocated /\ CountOn(x) \in Nat /\ CountOn(x) > 0
  BY <1>1, <1>3, CountIs DEF Counted
<1>7. /\ refcount'[x] = refcount[x] + 1 /\ ptr'[g] = x /\ expected'[g] = expected[h]
      /\ \A y \in Objects \ {x} : refcount'[y] = refcount[y]
      /\ \A a \in Handles \ {g} : ptr'[a] = ptr[a] /\ expected'[a] = expected[a]
  BY <1>1, <1>3 DEF OwnerTypeOK
<1>8. Counted'
  <2>1. \A y \in Objects : y \in allocated' <=> CountOn(y)' > 0
    BY <1>1, <1>3, <1>5, <1>6, HandleConstants DEF Counted
  <2>2. \A y \in allocated' : refcount'[y] = CountOn(y)'
    BY <1>1, <1>3, <1>5, <1>6, <1>7, HandleConstants DEF Counted, OwnerTypeOK
  <2> QED BY <2>1, <2>2, <1>3 DEF Counted
<1>9. Owners!ValuesKept'
  BY <1>1, <1>3, <1>7 DEF Owners!ValuesKept, Owners!Lives, OwnerTypeOK
<1> QED BY <1>4, <1>8, <1>9 DEF OwnerInv

LEMMA HandleReleased ==
  ASSUME OwnerInv, NEW h \in Handles, Owners!Release(h)
  PROVE  OwnerInv'
<1>1. OwnerTypeOK /\ Counted /\ Owners!ValuesKept
  BY DEF OwnerInv
<1>2. PICK x \in Objects : x = ptr[h]
  BY <1>1 DEF Owners!Release, Owners!Lives, OwnerTypeOK
<1>3. /\ x # Nil /\ ptr[h] = x
      /\ ptr' = [ptr EXCEPT ![h] = Nil]
      /\ refcount' = [refcount EXCEPT ![x] = refcount[x] - 1]
      /\ allocated' = IF refcount[x] = 1 THEN allocated \ {x} ELSE allocated
      /\ expected' = [expected EXCEPT ![h] = Nil]
      /\ UNCHANGED <<type, contents>>
  BY <1>2, HandleConstants DEF Owners!Release, Owners!Lives, Owners!Without
<1>4. OwnerTypeOK'
  BY <1>1, <1>3 DEF OwnerTypeOK
<1>5. /\ CountOn(x)' = CountOn(x) - 1
      /\ \A y : y # x /\ y # Nil => CountOn(y)' = CountOn(y)
  <2>1. ptr = [a \in Handles |-> ptr[a]]
    BY <1>1 DEF OwnerTypeOK
  <2> QED BY <2>1, <1>3, HandleMoves
<1>6. x \in allocated /\ CountOn(x) \in Nat /\ CountOn(x) > 0 /\ refcount[x] = CountOn(x)
  BY <1>1, <1>3, CountIs DEF Counted
<1>7. /\ refcount'[x] = refcount[x] - 1 /\ ptr'[h] = Nil
      /\ \A y \in Objects \ {x} : refcount'[y] = refcount[y]
      /\ \A a \in Handles \ {h} : ptr'[a] = ptr[a] /\ expected'[a] = expected[a]
  BY <1>1, <1>3 DEF OwnerTypeOK
<1>8. Counted'
  <2>1. ASSUME NEW y \in Objects PROVE y \in allocated' <=> CountOn(y)' > 0
    BY <1>1, <1>3, <1>5, <1>6, HandleConstants DEF Counted
  <2>2. \A y \in allocated' : refcount'[y] = CountOn(y)'
    BY <1>1, <1>3, <1>5, <1>6, <1>7, HandleConstants DEF Counted, OwnerTypeOK
  <2>3. type' = "MyUniquePtr" =>
          \A a, b \in Handles : ptr'[a] = ptr'[b] /\ ptr'[a] # Nil => a = b
    BY <1>1, <1>3, <1>7 DEF Counted
  <2> QED BY <2>1, <2>2, <2>3 DEF Counted
<1>9. Owners!ValuesKept'
  BY <1>1, <1>3, <1>7 DEF Owners!ValuesKept, Owners!Lives
<1> QED BY <1>4, <1>8, <1>9 DEF OwnerInv

\* g = h: g's own object is let go of first, unless it is h's too.
LEMMA Assigned ==
  ASSUME OwnerInv, NEW g \in Handles, NEW h \in Handles, Owners!Assign(g, h),
         type # "MyUniquePtr"
  PROVE  OwnerInv'
<1>1. OwnerTypeOK /\ Counted /\ Owners!ValuesKept
  BY DEF OwnerInv
<1>2. PICK x \in Objects, y \in Objects : x = ptr[h] /\ y = ptr[g]
  BY <1>1 DEF Owners!Assign, Owners!Lives, OwnerTypeOK
<1>3. /\ ptr[h] = x /\ ptr[g] = y /\ g # h /\ x # Nil /\ y # Nil
      /\ ptr' = [ptr EXCEPT ![g] = x]
      /\ refcount' = [refcount EXCEPT ![y] = @ - 1, ![x] = @ + 1]
      /\ allocated' = IF refcount[y] = 1 THEN allocated \ {y} ELSE allocated
      /\ expected' = [expected EXCEPT ![g] = expected[h]]
      /\ UNCHANGED <<type, contents>>
  BY <1>2, HandleConstants DEF Owners!Assign, Owners!Lives, Owners!Without
<1>4. /\ x \in allocated /\ CountOn(x) \in Nat /\ CountOn(x) > 0 /\ refcount[x] = CountOn(x)
      /\ y \in allocated /\ CountOn(y) \in Nat /\ CountOn(y) > 0 /\ refcount[y] = CountOn(y)
  BY <1>1, <1>3, CountIs DEF Counted
<1>5. /\ ptr'[g] = x /\ expected'[g] = expected[h]
      /\ \A a \in Handles \ {g} : ptr'[a] = ptr[a] /\ expected'[a] = expected[a]
      /\ OwnerTypeOK'
  BY <1>1, <1>3 DEF OwnerTypeOK
<1>6. Owners!ValuesKept'
  BY <1>1, <1>3, <1>5 DEF Owners!ValuesKept, Owners!Lives
<1>7. CASE x = y
  <2>1. refcount[y] # 1
    BY <1>3, <1>4, <1>7, LastHandle
  <2>2. ptr' = ptr /\ refcount' = refcount /\ allocated' = allocated
    BY <2>1, <1>1, <1>3, <1>7 DEF OwnerTypeOK
  <2>3. \A o : CountOn(o)' = CountOn(o)
    BY <2>2 DEF CountOn, HandlesOn
  <2>4. Counted'
    BY <2>2, <2>3, <1>1, <1>3 DEF Counted
  <2> QED BY <2>4, <1>5, <1>6 DEF OwnerInv
<1>8. CASE x # y
  <2>1. /\ CountOn(x)' = CountOn(x) + 1 /\ CountOn(y)' = CountOn(y) - 1
        /\ \A o : o # x /\ o # y => CountOn(o)' = CountOn(o)
    <3>1. ptr = [a \in Handles |-> ptr[a]]
      BY <1>1 DEF OwnerTypeOK
    <3> QED BY <3>1, <1>3, <1>8, HandleMoves
  <2>2. /\ refcount'[x] = refcount[x] + 1 /\ refcount'[y] = refcount[y] - 1
        /\ \A o \in Objects : o # x /\ o # y => refcount'[o] = refcount[o]
    BY <1>1, <1>3, <1>8 DEF OwnerTypeOK
  <2>3. \A o \in Objects : o \in allocated' <=> CountOn(o)' > 0
    BY <2>1, <1>1, <1>3, <1>4, <1>8 DEF Counted
  <2>4. \A o \in allocated' : refcount'[o] = CountOn(o)'
    BY <2>1, <2>2, <1>1, <1>3, <1>4, <1>8 DEF Counted, OwnerTypeOK
  <2>5. Counted'
    BY <2>3, <2>4, <1>3 DEF Counted
  <2> QED BY <2>5, <1>5, <1>6 DEF OwnerInv
<1> QED BY <1>7, <1>8

\* A unique pointer is the one handle on its object.
LEMMA SoleHandle ==
  ASSUME OwnerInv, type = "MyUniquePtr", NEW h \in Handles, NEW x \in Objects, ptr[h] = x
  PROVE  /\ CountOn(x) = 1 /\ refcount[x] = 1 /\ x \in allocated /\ x # Nil
         /\ \A g \in Handles : ptr[g] = x => g = h
<1>1. x # Nil /\ \A g \in Handles : ptr[g] = x => g = h
  BY HandleConstants DEF OwnerInv, Counted
<1>2. HandlesOn(x) = {h}
  BY <1>1 DEF HandlesOn
<1>3. CountOn(x) = 1
  BY <1>2, FS_Singleton DEF CountOn
<1> QED BY <1>1, <1>3 DEF OwnerInv, Counted

\* A handle that is alone on its object counts one.
LEMMA AloneCounts ==
  ASSUME NEW x, NEW g \in Handles, ptr'[g] = x, \A a \in Handles : ptr'[a] = x => a = g
  PROVE  CountOn(x)' = 1
<1>1. HandlesOn(x)' = {g}
  BY DEF HandlesOn
<1> QED BY <1>1, FS_Singleton DEF CountOn

LEMMA UniqueMoved ==
  ASSUME OwnerInv, NEW h \in Handles, NEW g \in Handles,
         Owners!unique_ptr_move(h, g)
  PROVE  OwnerInv'
<1>1. OwnerTypeOK /\ Counted /\ Owners!ValuesKept /\ type = "MyUniquePtr"
  BY DEF OwnerInv, Owners!unique_ptr_move
<1>2. PICK x \in Objects : x = ptr[h]
  BY <1>1 DEF Owners!unique_ptr_move, Owners!Lives, OwnerTypeOK
<1>3. /\ ptr[h] = x /\ ptr[g] = Nil /\ x # Nil /\ g # h
      /\ ptr' = [ptr EXCEPT ![g] = x, ![h] = Nil]
      /\ expected' = [expected EXCEPT ![g] = expected[h], ![h] = Nil]
      /\ UNCHANGED <<type, allocated, refcount, contents>>
  BY <1>2, HandleConstants DEF Owners!unique_ptr_move, Owners!Lives
<1>4. /\ ptr'[g] = x /\ ptr'[h] = Nil /\ expected'[g] = expected[h]
      /\ \A a \in Handles : a # g /\ a # h => ptr'[a] = ptr[a] /\ expected'[a] = expected[a]
      /\ OwnerTypeOK'
  BY <1>1, <1>3 DEF OwnerTypeOK
<1>5. CountOn(x) = 1 /\ \A a \in Handles : ptr[a] = x => a = h
  BY <1>1, <1>3, SoleHandle
<1>6. CountOn(x)' = 1
  <2>1. \A a \in Handles : ptr'[a] = x => a = g
    BY <1>3, <1>4, <1>5
  <2>2. ptr'[g] = x
    BY <1>4, <1>5
  <2> QED BY <2>1, <2>2, AloneCounts
<1>7. ASSUME NEW o, o # x, o # Nil PROVE CountOn(o)' = CountOn(o)
  <2>1. HandlesOn(o)' = HandlesOn(o)
    BY <1>3, <1>4, <1>7 DEF HandlesOn
  <2> QED BY <2>1 DEF CountOn
<1>8. \A o \in Objects : CountOn(o)' = CountOn(o)
  BY <1>5, <1>6, <1>7, HandleConstants
<1>9. \A a, b \in Handles : ptr'[a] = ptr'[b] /\ ptr'[a] # Nil => a = b
  BY <1>1, <1>3, <1>4, <1>5 DEF Counted
<1>10. Counted'
  <2>1. allocated \subseteq Objects
    BY <1>1 DEF OwnerTypeOK
  <2> QED BY <2>1, <1>1, <1>3, <1>8, <1>9 DEF Counted
<1>11. Owners!ValuesKept'
  <2>1. ASSUME NEW a \in Handles, ptr'[a] # Nil PROVE contents'[ptr'[a]] = expected'[a]
    <3>1. CASE a = g
      BY <3>1, <1>1, <1>3, <1>4 DEF Owners!ValuesKept, Owners!Lives
    <3>2. CASE a # g
      BY <3>2, <2>1, <1>1, <1>3, <1>4 DEF Owners!ValuesKept, Owners!Lives
    <3> QED BY <3>1, <3>2
  <2> QED BY <2>1 DEF Owners!ValuesKept, Owners!Lives
<1> QED BY <1>4, <1>10, <1>11 DEF OwnerInv

LEMMA UniqueMoveAssigned ==
  ASSUME OwnerInv, NEW g \in Handles, NEW h \in Handles,
         Owners!unique_ptr_move_assign(g, h)
  PROVE  OwnerInv'
<1>1. OwnerTypeOK /\ Counted /\ Owners!ValuesKept /\ type = "MyUniquePtr"
  BY DEF OwnerInv, Owners!unique_ptr_move_assign
<1>2. PICK x \in Objects, y \in Objects : x = ptr[h] /\ y = ptr[g]
  BY <1>1 DEF Owners!unique_ptr_move_assign, Owners!Lives, OwnerTypeOK
<1>3. /\ CountOn(x) = 1 /\ x \in allocated /\ \A a \in Handles : ptr[a] = x => a = h
      /\ CountOn(y) = 1 /\ refcount[y] = 1 /\ \A a \in Handles : ptr[a] = y => a = g
  BY <1>1, <1>2, SoleHandle
<1>4. /\ ptr[h] = x /\ ptr[g] = y /\ g # h /\ x # y /\ x # Nil /\ y # Nil
      /\ ptr' = [ptr EXCEPT ![g] = x, ![h] = Nil]
      /\ allocated' = allocated \ {y}
      /\ expected' = [expected EXCEPT ![g] = expected[h], ![h] = Nil]
      /\ UNCHANGED <<type, refcount, contents>>
  BY <1>2, <1>3, HandleConstants DEF Owners!unique_ptr_move_assign, Owners!Without
<1>5. /\ ptr'[g] = x /\ ptr'[h] = Nil /\ expected'[g] = expected[h]
      /\ \A a \in Handles : a # g /\ a # h => ptr'[a] = ptr[a] /\ expected'[a] = expected[a]
      /\ OwnerTypeOK'
  BY <1>1, <1>4 DEF OwnerTypeOK
<1>6. CountOn(x)' = 1
  <2>1. \A a \in Handles : ptr'[a] = x => a = g
    BY <1>3, <1>4, <1>5
  <2>2. ptr'[g] = x
    BY <1>4, <1>5
  <2> QED BY <2>1, <2>2, AloneCounts
<1>7. CountOn(y)' = 0
  <2>1. HandlesOn(y)' = {}
    BY <1>3, <1>4, <1>5 DEF HandlesOn
  <2> QED BY <2>1, FS_EmptySet DEF CountOn
<1>8. ASSUME NEW o, o # x, o # y, o # Nil PROVE CountOn(o)' = CountOn(o)
  <2>1. HandlesOn(o)' = HandlesOn(o)
    BY <1>4, <1>5, <1>8 DEF HandlesOn
  <2> QED BY <2>1 DEF CountOn
<1>9. \A a, b \in Handles : ptr'[a] = ptr'[b] /\ ptr'[a] # Nil => a = b
  BY <1>1, <1>3, <1>4, <1>5 DEF Counted
<1>10. \A o \in Objects : o # y => CountOn(o)' = CountOn(o)
  BY <1>3, <1>6, <1>8, HandleConstants
<1>11. Counted'
  <2>1. allocated \subseteq Objects
    BY <1>1 DEF OwnerTypeOK
  <2>2. \A o \in Objects : o \in allocated' <=> CountOn(o)' > 0
    BY <1>1, <1>4, <1>7, <1>10 DEF Counted
  <2>3. \A o \in allocated' : refcount'[o] = CountOn(o)'
    BY <2>1, <1>1, <1>4, <1>10 DEF Counted
  <2> QED BY <2>2, <2>3, <1>9 DEF Counted
<1>12. Owners!ValuesKept'
  <2>1. ASSUME NEW a \in Handles, ptr'[a] # Nil PROVE contents'[ptr'[a]] = expected'[a]
    <3>1. CASE a = g
      BY <3>1, <1>1, <1>4, <1>5 DEF Owners!ValuesKept, Owners!Lives
    <3>2. CASE a # g
      BY <3>2, <2>1, <1>1, <1>4, <1>5 DEF Owners!ValuesKept, Owners!Lives
    <3> QED BY <3>1, <3>2
  <2> QED BY <2>1 DEF Owners!ValuesKept, Owners!Lives
<1> QED BY <1>5, <1>11, <1>12 DEF OwnerInv

\* Copy on write: a shared buffer is left to the others.
LEMMA Written ==
  ASSUME OwnerInv, NEW h \in Handles, NEW o \in Objects, NEW v \in Values,
         Owners!CowString_write(h, o, v)
  PROVE  OwnerInv'
<1>1. OwnerTypeOK /\ Counted /\ Owners!ValuesKept /\ type = "CowString" /\ type' = type
  BY DEF OwnerInv, Owners!CowString_write
<1>2. PICK x \in Objects : x = ptr[h]
  BY <1>1 DEF Owners!CowString_write, Owners!Lives, OwnerTypeOK
<1>3. /\ x \in allocated /\ CountOn(x) \in Nat /\ CountOn(x) > 0 /\ refcount[x] = CountOn(x)
      /\ x # Nil /\ o # Nil
  BY <1>1, <1>2, CountIs, HandleConstants DEF Counted
<1>4. /\ expected' = [expected EXCEPT ![h] = v]
      /\ expected'[h] = v /\ \A a \in Handles \ {h} : expected'[a] = expected[a]
  BY <1>1 DEF Owners!CowString_write, OwnerTypeOK
<1>5. CASE refcount[x] > 1
  <2>1. /\ o \notin allocated
        /\ ptr' = [ptr EXCEPT ![h] = o] /\ allocated' = allocated \cup {o}
        /\ refcount' = [refcount EXCEPT ![x] = @ - 1, ![o] = 1]
        /\ contents' = [contents EXCEPT ![o] = v]
    BY <1>2, <1>5 DEF Owners!CowString_write, Owners!detach_if_shared
  <2>2. x # o
    BY <2>1, <1>3
  <2>3. /\ ptr'[h] = o /\ \A a \in Handles \ {h} : ptr'[a] = ptr[a]
        /\ refcount'[x] = refcount[x] - 1 /\ refcount'[o] = 1
        /\ \A y \in Objects : y # x /\ y # o => refcount'[y] = refcount[y]
        /\ contents'[o] = v /\ \A y \in Objects \ {o} : contents'[y] = contents[y]
        /\ OwnerTypeOK'
    BY <2>1, <2>2, <1>1, <1>4 DEF OwnerTypeOK
  <2>4. CountOn(o) = 0 /\ ~\E a \in Handles : ptr[a] = o
    BY <2>1, <1>1, CountIs DEF Counted
  <2>5. /\ CountOn(o)' = CountOn(o) + 1 /\ CountOn(x)' = CountOn(x) - 1
        /\ \A y : y # o /\ y # x => CountOn(y)' = CountOn(y)
    <3>1. ptr = [a \in Handles |-> ptr[a]]
      BY <1>1 DEF OwnerTypeOK
    <3> QED BY <3>1, <2>1, <2>2, <1>2, HandleMoves
  <2>6. \A y \in Objects : y \in allocated' <=> CountOn(y)' > 0
    BY <2>1, <2>4, <2>5, <1>1, <1>3, <1>5 DEF Counted
  <2>7. \A y \in allocated' : refcount'[y] = CountOn(y)'
    BY <2>1, <2>3, <2>4, <2>5, <1>1, <1>3, <1>5 DEF Counted, OwnerTypeOK
  <2>8. Counted'
    BY <2>6, <2>7, <1>1 DEF Counted
  <2>9. Owners!ValuesKept'
    <3>1. ASSUME NEW a \in Handles \ {h}, ptr'[a] # Nil
          PROVE  contents'[ptr'[a]] = expected'[a]
      <4>1. ptr'[a] = ptr[a] /\ ptr[a] \in Objects \ {o} /\ contents[ptr[a]] = expected[a]
        BY <3>1, <2>3, <2>4, <1>1 DEF Owners!ValuesKept, Owners!Lives, OwnerTypeOK
      <4> QED BY <4>1, <2>3, <1>4
    <3>2. contents'[ptr'[h]] = expected'[h]
      BY <2>3, <1>4
    <3> QED BY <3>1, <3>2 DEF Owners!ValuesKept, Owners!Lives
  <2> QED BY <2>3, <2>8, <2>9 DEF OwnerInv
<1>6. CASE ~(refcount[x] > 1)
  <2>1. /\ contents' = [contents EXCEPT ![x] = v]
        /\ UNCHANGED <<ptr, allocated, refcount>>
    BY <1>2, <1>6 DEF Owners!CowString_write, Owners!detach_if_shared
  <2>2. \A a \in Handles : ptr[a] = x => a = h
    <3>1. CountOn(x) = 1
      BY <1>3, <1>6
    <3> QED BY <3>1, <1>2, LastHandle
  <2>3. contents'[x] = v /\ \A y \in Objects \ {x} : contents'[y] = contents[y]
    BY <2>1, <1>1 DEF OwnerTypeOK
  <2>4. OwnerTypeOK'
    BY <2>1, <1>1, <1>4 DEF OwnerTypeOK
  <2>5. \A y : CountOn(y)' = CountOn(y)
    BY <2>1 DEF CountOn, HandlesOn
  <2>6. Counted'
    BY <2>1, <2>5, <1>1 DEF Counted
  <2>7. Owners!ValuesKept'
    BY <2>1, <2>2, <2>3, <1>1, <1>2, <1>4 DEF Owners!ValuesKept, Owners!Lives, OwnerTypeOK
  <2> QED BY <2>4, <2>6, <2>7 DEF OwnerInv
<1> QED BY <1>5, <1>6

LEMMA OwnersInductive == OwnerInv /\ [MCNext]_allvars => OwnerInv'
<1> SUFFICES ASSUME OwnerInv, [MCNext]_allvars PROVE OwnerInv'
  OBVIOUS
<1>1. Owners!Next \/ UNCHANGED owner_vars
  BY DEF MCNext, Runs, allvars
<1>2. CASE Owners!Next
  <2>1. ASSUME NEW h \in Handles, NEW o \in Objects, NEW v \in Values,
               \/ Owners!refbox_create(h, o, v) \/ Owners!shared_ptr_new(h, o, v)
               \/ Owners!unique_ptr_new(h, o, v) \/ Owners!CowString_new(h, o, v)
               \/ Owners!CowString_write(h, o, v)
        PROVE  OwnerInv'
    BY <2>1, Constructed, Written DEF Owners!refbox_create, Owners!shared_ptr_new,
       Owners!unique_ptr_new, Owners!CowString_new
  <2>2. ASSUME NEW h \in Handles, NEW g \in Handles,
               \/ Owners!refbox_retain(h, g) \/ Owners!shared_ptr_copy(h, g)
               \/ Owners!CowString_copy(h, g)
        PROVE  OwnerInv'
    BY <2>2, Shared DEF Owners!refbox_retain, Owners!shared_ptr_copy, Owners!CowString_copy
  <2>3. ASSUME NEW h \in Handles, NEW g \in Handles,
               Owners!shared_ptr_assign(g, h) \/ Owners!CowString_assign(g, h)
        PROVE  OwnerInv'
    BY <2>3, Assigned DEF Owners!shared_ptr_assign, Owners!CowString_assign
  <2>4. ASSUME NEW h \in Handles,
               \/ Owners!refbox_release(h) \/ Owners!shared_ptr_release(h)
               \/ Owners!unique_ptr_delete(h) \/ Owners!CowString_destroy(h)
        PROVE  OwnerInv'
    BY <2>4, HandleReleased DEF Owners!refbox_release, Owners!shared_ptr_release,
       Owners!unique_ptr_delete, Owners!CowString_destroy
  <2> QED BY <2>1, <2>2, <2>3, <2>4, <1>2, UniqueMoved, UniqueMoveAssigned DEF Owners!Next
<1>3. CASE UNCHANGED owner_vars
  <2>1. \A o : CountOn(o)' = CountOn(o)
    BY <1>3 DEF owner_vars, CountOn, HandlesOn
  <2> QED BY <2>1, <1>3 DEF owner_vars, OwnerInv, OwnerTypeOK, Counted, Owners!ValuesKept,
                            Owners!Lives
<1> QED BY <1>1, <1>2, <1>3

THEOREM OwnersInvariance == MCSpec => []OwnerInv
<1>1. MCInit => OwnerInv
  BY OwnersInitially DEF MCInit
<1> QED BY <1>1, OwnersInductive, PTL DEF MCSpec

\* What the count invariant says of the memory: it is the objects handles are on, and the
\* count of each is the number of its handles.
LEMMA CountsFollow == OwnerInv => Owners!CountsAreHandles
<1> SUFFICES ASSUME OwnerInv PROVE Owners!CountsAreHandles
  OBVIOUS
<1>1. OwnerTypeOK /\ Counted
  BY DEF OwnerInv
<1>2. allocated = {ptr[h] : h \in Handles} \ {Nil}
  <2>1. ASSUME NEW o \in allocated PROVE o \in {ptr[h] : h \in Handles} \ {Nil}
    BY <1>1, CountIs, HandleConstants DEF OwnerTypeOK, Counted
  <2>2. ASSUME NEW h \in Handles, ptr[h] # Nil PROVE ptr[h] \in allocated
    BY <2>2, <1>1, CountIs DEF OwnerTypeOK, Counted
  <2> QED BY <2>1, <2>2
<1>3. \A o \in allocated : refcount[o] = Owners!Cardinality({h \in Handles : ptr[h] = o})
  BY <1>1, SameCount DEF Counted, CountOn, HandlesOn
<1> QED BY <1>2, <1>3 DEF Owners!CountsAreHandles

-----------------------------------------------------------------------------
(* Day 21: the short strings *)

SomeText == Seq(Text!Chars)

\* String object x holds block b.
Holds(x, b) == b \in Buffers /\ x # Dead /\ x.ptr = b

\* Object x, which should read m, with the blocks h: no object in C++, an inline text, a
\* C string that got no block, or a block with the whole text.
Reads(x, m, h) ==
  \/ x = Dead /\ m = Dead /\ lang = "Cpp"
  \/ /\ x \in Text!StringObjects
     /\ m \in SomeText \/ (m = Failed /\ lang = "C")
     /\ ~x.long => x.text = m /\ x.ptr = None
     /\ x.long /\ x.ptr = None => lang = "C" /\ m = Failed
     /\ x.ptr # None =>
          /\ h[x.ptr] \in SomeText /\ Len(h[x.ptr]) = x.size /\ x.size <= x.cap
          /\ m # Failed => h[x.ptr] = m

BlocksTyped(h) == h \in [Buffers -> SomeText \cup {NoText}]

TextInv ==
  /\ lang \in {"C", "Cpp"}
  /\ str = [s \in Strings |-> str[s]] /\ meant = [s \in Strings |-> meant[s]]
  /\ BlocksTyped(block)
  /\ \A s \in Strings : Reads(str[s], meant[s], block)
  /\ \A b \in Buffers : block[b] # NoText => \E s \in Strings : Holds(str[s], b)
  /\ \A s, o \in Strings : \A b \in Buffers : Holds(str[s], b) /\ Holds(str[o], b) => s = o
  /\ crashed => lang = "C" /\ \E s \in Strings : meant[s] = Failed

LEMMA TextConstants ==
  /\ Texts \subseteq SomeText /\ NoText \notin SomeText /\ Failed \notin SomeText
  /\ None \notin Buffers /\ Dead \notin Text!StringObjects
BY TextsApart DEF Text!SmallStringAssumption, SomeText

LEMMA ShortIs ==
  ASSUME NEW t \in SomeText
  PROVE  LET x == Text!Short(t)
         IN  /\ x \in Text!StringObjects /\ x # Dead
             /\ ~x.long /\ x.text = t /\ x.ptr = None /\ x.size = 0 /\ x.cap = 0
<1>1. Text!Short(t) \in Text!StringObjects
  BY DEF Text!Short, Text!StringObjects, SomeText
<1> QED BY <1>1, TextConstants DEF Text!Short

LEMMA LongIs ==
  ASSUME NEW p \in Buffers \cup {None}, NEW n \in Nat, NEW k \in Nat
  PROVE  LET x == Text!Long(p, n, k)
         IN  /\ x \in Text!StringObjects /\ x # Dead
             /\ x.long /\ x.ptr = p /\ x.size = n /\ x.cap = k
<1>1. <<>> \in Seq(Text!Chars)
  OBVIOUS
<1>2. Text!Long(p, n, k) \in Text!StringObjects
  BY <1>1 DEF Text!Long, Text!StringObjects
<1> QED BY <1>2, TextConstants DEF Text!Long

LEMMA ObjectFields ==
  ASSUME NEW x \in Text!StringObjects
  PROVE  /\ x # Dead /\ x.long \in BOOLEAN /\ x.text \in SomeText
         /\ x.ptr \in Buffers \cup {None} /\ x.size \in Nat /\ x.cap \in Nat
BY TextConstants DEF Text!StringObjects, SomeText

\* The blocks without x's own.
Freed(x) == [b \in Buffers |-> IF Holds(x, b) THEN NoText ELSE block[b]]

LEMMA ReleasedIs ==
  ASSUME BlocksTyped(block), NEW x, NEW m, Reads(x, m, block), x # Dead
  PROVE  Text!Released(x, block) = Freed(x)
<1>1. /\ x.long \in BOOLEAN /\ x.ptr \in Buffers \cup {None}
      /\ ~x.long => x.ptr = None
  BY ObjectFields DEF Reads
<1>2. block = [b \in Buffers |-> block[b]]
  BY DEF BlocksTyped
<1>3. CASE x.long /\ x.ptr # None
  BY <1>1, <1>2, <1>3 DEF Text!Released, Freed, Holds
<1>4. CASE x.ptr = None
  <2>1. \A b \in Buffers : ~Holds(x, b)
    BY <1>4, TextConstants DEF Holds
  <2> QED BY <2>1, <1>2, <1>4 DEF Text!Released, Freed
<1> QED BY <1>1, <1>3, <1>4

LEMMA NothingFreed ==
  ASSUME BlocksTyped(block), NEW x, x = Dead \/ x.ptr = None
  PROVE  Freed(x) = block /\ \A b : ~Holds(x, b)
<1>1. \A b : ~Holds(x, b)
  BY TextConstants DEF Holds
<1> QED BY <1>1 DEF Freed, BlocksTyped

\* A string's block is typed and not free.
LEMMA HeldIsUsed ==
  ASSUME BlocksTyped(block), NEW x, NEW m, Reads(x, m, block), NEW b, Holds(x, b)
  PROVE  /\ block[b] # NoText /\ block[b] \in SomeText /\ b \in Buffers
         /\ x \in Text!StringObjects /\ x.long /\ x.ptr = b
         /\ Len(block[b]) = x.size /\ x.size <= x.cap
         /\ m # Failed => block[b] = m
BY TextConstants, ObjectFields DEF Reads, Holds

\* One string changes: the block it takes was free or its own, and it frees what it leaves.
LEMMA StringReplaced ==
  ASSUME TextInv, ~crashed, NEW s \in Strings, NEW x, NEW h, NEW m,
         Text!Becomes(s, x, h, m), BlocksTyped(h), Reads(x, m, h),
         \A b \in Buffers :
           /\ Holds(x, b) => block[b] = NoText \/ Holds(str[s], b)
           /\ ~Holds(x, b) /\ Holds(str[s], b) => h[b] = NoText
           /\ ~Holds(x, b) /\ ~Holds(str[s], b) => h[b] = block[b]
  PROVE  TextInv'
<1>1. /\ str' = [str EXCEPT ![s] = x] /\ block' = h /\ meant' = [meant EXCEPT ![s] = m]
      /\ lang' = lang /\ crashed' = crashed
  BY DEF Text!Becomes
<1>2. /\ str' = [o \in Strings |-> str'[o]] /\ meant' = [o \in Strings |-> meant'[o]]
      /\ str'[s] = x /\ meant'[s] = m
      /\ \A o \in Strings \ {s} : str'[o] = str[o] /\ meant'[o] = meant[o]
  BY <1>1 DEF TextInv
<1>3. ASSUME NEW o \in Strings \ {s}, NEW b, Holds(str[o], b)
      PROVE  h[b] = block[b] /\ ~Holds(x, b) /\ b \in Buffers
  <2>1. block[b] # NoText /\ b \in Buffers
    BY <1>3, HeldIsUsed DEF TextInv
  <2>2. ~Holds(str[s], b)
    BY <1>3, <2>1 DEF TextInv
  <2> QED BY <2>1, <2>2
<1>4. ASSUME NEW o \in Strings PROVE Reads(str[o], meant[o], block)'
  <2>1. CASE o = s
    <3>1. str'[o] = x /\ meant'[o] = m /\ block' = h /\ lang' = lang
      BY <2>1, <1>1, <1>2
    <3> QED BY <3>1 DEF Reads
  <2>2. CASE o # s
    <3>1. Reads(str[o], meant[o], block)
      BY DEF TextInv
    <3>2. str[o] # Dead /\ str[o].ptr # None => h[str[o].ptr] = block[str[o].ptr]
      <4>1. str[o] # Dead /\ str[o].ptr # None => Holds(str[o], str[o].ptr)
        BY <3>1, ObjectFields DEF Reads, Holds
      <4> QED BY <4>1, <2>2, <1>3
    <3>3. str[o] \in Text!StringObjects => str[o] # Dead
      BY ObjectFields
    <3>4. str'[o] = str[o] /\ meant'[o] = meant[o] /\ block' = h /\ lang' = lang
      BY <2>2, <1>1, <1>2
    <3> DEFINE y == str[o]
               w == meant[o]
    <3>5. Reads(y, w, h)
      BY <3>1, <3>2, <3>3 DEF Reads
    <3> QED BY <3>4, <3>5 DEF Reads
  <2> QED BY <2>1, <2>2
<1>5. ASSUME NEW b \in Buffers, h[b] # NoText
      PROVE  \E o \in Strings : Holds(str'[o], b)
  <2>1. CASE Holds(x, b)
    BY <2>1, <1>2
  <2>2. CASE ~Holds(x, b)
    <3>1. ~Holds(str[s], b) /\ block[b] # NoText
      BY <2>2, <1>5
    <3>2. PICK o \in Strings : Holds(str[o], b)
      BY <3>1 DEF TextInv
    <3> QED BY <3>1, <3>2, <1>2
  <2> QED BY <2>1, <2>2
<1>6. ASSUME NEW o \in Strings, NEW q \in Strings, NEW b \in Buffers,
             Holds(str'[o], b), Holds(str'[q], b)
      PROVE  o = q
  BY <1>2, <1>3, <1>6 DEF TextInv
<1>7. BlocksTyped(block)'
  BY <1>1 DEF BlocksTyped
<1>9. \A b \in Buffers : block'[b] # NoText => \E o \in Strings : Holds(str[o], b)'
  BY <1>1, <1>5 DEF Holds
<1>10. \A o, q \in Strings : \A b \in Buffers : Holds(str[o], b)' /\ Holds(str[q], b)' => o = q
  BY <1>6 DEF Holds
<1> QED BY <1>1, <1>2, <1>4, <1>7, <1>9, <1>10 DEF TextInv

LEMMA FreedTyped ==
  ASSUME BlocksTyped(block), NEW x
  PROVE  BlocksTyped(Freed(x))
BY DEF BlocksTyped, Freed

\* String s becomes one without a block, or no object.
LEMMA BlockLeft ==
  ASSUME TextInv, ~crashed, NEW s \in Strings, NEW x, NEW m,
         Text!Becomes(s, x, Freed(str[s]), m), x = Dead \/ x.ptr = None,
         Reads(x, m, Freed(str[s]))
  PROVE  TextInv'
<1>1. BlocksTyped(block) /\ BlocksTyped(Freed(str[s]))
  BY FreedTyped DEF TextInv
<1>2. \A b : ~Holds(x, b)
  BY TextConstants DEF Holds
<1>3. \A b \in Buffers : Freed(str[s])[b] = IF Holds(str[s], b) THEN NoText ELSE block[b]
  BY DEF Freed
<1> QED BY <1>1, <1>2, <1>3, StringReplaced

\* String s becomes one with a text in a block that is free once s has left its own.
LEMMA BlockFilled ==
  ASSUME TextInv, ~crashed, NEW s \in Strings, NEW x \in Text!StringObjects,
         NEW b \in Buffers, NEW t \in SomeText, NEW m,
         Text!Becomes(s, x, [Freed(str[s]) EXCEPT ![b] = t], m),
         Freed(str[s])[b] = NoText,
         x.long, x.ptr = b, x.size = Len(t), Len(t) <= x.cap,
         m = t \/ (m = Failed /\ lang = "C")
  PROVE  TextInv'
<1> DEFINE h == [Freed(str[s]) EXCEPT ![b] = t]
<1>1. BlocksTyped(block) /\ BlocksTyped(Freed(str[s]))
  BY FreedTyped DEF TextInv
<1>2. BlocksTyped(h) /\ h[b] = t
  BY <1>1 DEF BlocksTyped
<1>3. \A y : Holds(x, y) <=> y = b
  BY ObjectFields DEF Holds
<1>4. \A y \in Buffers :
        Freed(str[s])[y] = IF Holds(str[s], y) THEN NoText ELSE block[y]
  BY DEF Freed
<1>5. \A y \in Buffers \ {b} : h[y] = Freed(str[s])[y]
  BY <1>1 DEF BlocksTyped
<1> HIDE DEF h
<1>6. Reads(x, m, h)
  BY <1>2, TextConstants DEF Reads
<1>7. \A y \in Buffers :
        /\ Holds(x, y) => block[y] = NoText \/ Holds(str[s], y)
        /\ ~Holds(x, y) /\ Holds(str[s], y) => h[y] = NoText
        /\ ~Holds(x, y) /\ ~Holds(str[s], y) => h[y] = block[y]
  BY <1>3, <1>4, <1>5
<1> QED BY <1>1, <1>2, <1>6, <1>7, StringReplaced DEF h

LEMMA AllocatedKeeps ==
  ASSUME TextInv, ~crashed, NEW s \in Strings, NEW t \in SomeText, NEW k \in Nat, NEW m,
         Len(t) <= k, m = t \/ (m = Failed /\ lang = "C"),
         Text!Allocated(s, t, k, Freed(str[s]), m)
  PROVE  TextInv'
<1>1. PICK b \in Buffers :
        /\ Freed(str[s])[b] = NoText
        /\ Text!Becomes(s, Text!Long(b, Len(t), k), [Freed(str[s]) EXCEPT ![b] = t], m)
  BY DEF Text!Allocated, Text!FreeIn
<1> DEFINE x == Text!Long(b, Len(t), k)
<1>2. /\ x \in Text!StringObjects /\ x.long /\ x.ptr = b /\ x.size = Len(t) /\ x.cap = k
  <2>1. Len(t) \in Nat
    BY DEF SomeText
  <2> DEFINE n == Len(t)
  <2> HIDE DEF n
  <2>2. b \in Buffers \cup {None} /\ n \in Nat
    BY <2>1 DEF n
  <2>3. LET y == Text!Long(b, n, k)
        IN  y \in Text!StringObjects /\ y.long /\ y.ptr = b /\ y.size = n /\ y.cap = k
    BY <2>2, LongIs
  <2> QED BY <2>3 DEF n
<1> HIDE DEF x
<1> QED BY <1>1, <1>2, BlockFilled DEF x

\* The operation failed, and changed nothing.
LEMMA NothingChanged == ASSUME TextInv, UNCHANGED text_vars PROVE TextInv'
BY DEF TextInv, text_vars, Reads, BlocksTyped, Holds

\* What is read through a string: all of its text, which is what it should be.
LEMMA TextRead ==
  ASSUME NEW x, NEW m, NEW h, Reads(x, m, h), x # Dead
  PROVE  /\ Text!TextOf(x, h) \in SomeText
         /\ Len(Text!TextOf(x, h)) = Text!LenOf(x)
         /\ m # Failed => Text!TextOf(x, h) = m
<1>1. x \in Text!StringObjects /\ x.long \in BOOLEAN /\ x.text \in SomeText /\ x.size \in Nat
  BY ObjectFields DEF Reads
<1>2. CASE ~x.long
  BY <1>1, <1>2 DEF Reads, Text!TextOf, Text!LenOf
<1>3. CASE x.long /\ x.ptr = None
  <2>1. Text!TextOf(x, h) = [i \in 1 .. x.size |-> Junk] /\ Text!LenOf(x) = x.size
    BY <1>3 DEF Text!TextOf, Text!LenOf
  <2>2. [i \in 1 .. x.size |-> Junk] \in SomeText /\ Len([i \in 1 .. x.size |-> Junk]) = x.size
    BY <1>1 DEF SomeText, Text!Chars
  <2> QED BY <2>1, <2>2, <1>3 DEF Reads
<1>4. CASE x.long /\ x.ptr # None
  <2> DEFINE t == h[x.ptr]
  <2>1. m # Failed => t = m
    BY <1>4 DEF Reads
  <2>2. SubSeq(t, 1, Len(t)) = t
    <3>1. t \in SomeText
      BY <1>4 DEF Reads
    <3> HIDE DEF t
    <3> QED BY <3>1 DEF SomeText
  <2>3. t \in SomeText /\ Len(t) = x.size
    BY <1>4 DEF Reads
  <2>4. Text!TextOf(x, h) = t /\ Text!LenOf(x) = x.size
    BY <2>2, <2>3, <1>4 DEF Text!TextOf, Text!LenOf
  <2> QED BY <2>1, <2>3, <2>4
<1> QED BY <1>1, <1>2, <1>3, <1>4

\* Freeing one string's block leaves every other string readable.
LEMMA OthersRead ==
  ASSUME TextInv, NEW d \in Strings, NEW s \in Strings, d # s
  PROVE  Reads(str[s], meant[s], Freed(str[d]))
<1>1. Reads(str[s], meant[s], block) /\ BlocksTyped(block)
  BY DEF TextInv
<1>2. str[s] # Dead /\ str[s].ptr # None => Freed(str[d])[str[s].ptr] = block[str[s].ptr]
  <2>1. str[s] # Dead /\ str[s].ptr # None => Holds(str[s], str[s].ptr)
    BY <1>1, ObjectFields DEF Reads, Holds
  <2>2. \A b \in Buffers : Holds(str[s], b) => ~Holds(str[d], b)
    BY DEF TextInv
  <2> QED BY <2>1, <2>2 DEF Freed, Holds
<1>3. str[s] \in Text!StringObjects => str[s] # Dead
  BY ObjectFields
<1> QED BY <1>1, <1>2, <1>3 DEF Reads

\* A block filled before the old one is freed might as well be filled after.
LEMMA FilledFirst ==
  ASSUME TextInv, NEW s \in Strings, str[s] # Dead, NEW b \in Buffers, block[b] = NoText, NEW t
  PROVE  /\ Text!Released(str[s], [block EXCEPT ![b] = t]) = [Freed(str[s]) EXCEPT ![b] = t]
         /\ Freed(str[s])[b] = NoText
<1>1. BlocksTyped(block) /\ Reads(str[s], meant[s], block)
  BY DEF TextInv
<1> DEFINE x == str[s]
<1>2. ~Holds(x, b)
  BY <1>1, HeldIsUsed
<1>3. /\ x.long \in BOOLEAN /\ x.ptr \in Buffers \cup {None} /\ (~x.long => x.ptr = None)
      /\ x # Dead
  BY <1>1, ObjectFields DEF Reads
<1> HIDE DEF x
<1>4. block = [y \in Buffers |-> block[y]]
  BY <1>1 DEF BlocksTyped
<1>5. CASE x.ptr = None
  <2>1. Freed(x) = block
    BY <1>1, <1>5, NothingFreed
  <2> QED BY <2>1, <1>5 DEF Text!Released, x
<1>6. CASE x.ptr # None
  <2>1. x.long /\ x.ptr \in Buffers /\ x.ptr # b
    BY <1>2, <1>3, <1>6 DEF Holds
  <2>2. Text!Released(x, [block EXCEPT ![b] = t])
          = [y \in Buffers |-> IF y = x.ptr THEN NoText ELSE IF y = b THEN t ELSE block[y]]
    BY <2>1, <1>4, <1>6 DEF Text!Released
  <2>3. [Freed(x) EXCEPT ![b] = t]
          = [y \in Buffers |-> IF y = x.ptr THEN NoText ELSE IF y = b THEN t ELSE block[y]]
    BY <2>1, <1>3 DEF Freed, Holds
  <2> QED BY <2>2, <2>3, <1>2 DEF Freed, x
<1> QED BY <1>3, <1>5, <1>6

\* A string without a block reads its inline text; a refused C string reads nothing.
LEMMA ShortReads ==
  ASSUME NEW t \in SomeText, NEW h
  PROVE  /\ Reads(Text!Short(t), t, h)
         /\ Text!Short(t) # Dead /\ Text!Short(t).ptr = None
BY ShortIs DEF Reads

LEMMA RefusedReads ==
  ASSUME lang = "C", NEW n \in Nat, NEW h
  PROVE  Reads(Text!Long(None, n, 0), Failed, h) /\ Text!Long(None, n, 0).ptr = None
<1>1. LET x == Text!Long(None, n, 0)
      IN  x \in Text!StringObjects /\ x # Dead /\ x.long /\ x.ptr = None
  <2>1. None \in Buffers \cup {None} /\ 0 \in Nat
    OBVIOUS
  <2> QED BY <2>1, LongIs
<1> QED BY <1>1 DEF Reads

LEMMA Concatenated ==
  ASSUME NEW t \in SomeText, NEW u \in SomeText
  PROVE  t \o u \in SomeText /\ Len(t \o u) = Len(t) + Len(u) /\ Len(t) \in Nat /\ Len(u) \in Nat
BY DEF SomeText

\* What a string is, when there is one.
LEMMA StringIs ==
  ASSUME TextInv, NEW s \in Strings, str[s] # Dead
  PROVE  /\ Reads(str[s], meant[s], block) /\ BlocksTyped(block)
         /\ str[s] \in Text!StringObjects
         /\ meant[s] \in SomeText \/ (meant[s] = Failed /\ lang = "C")
         /\ Text!Released(str[s], block) = Freed(str[s])
         /\ Text!TextOf(str[s], block) \in SomeText
         /\ Len(Text!TextOf(str[s], block)) = Text!LenOf(str[s])
         /\ meant[s] # Failed => Text!TextOf(str[s], block) = meant[s]
<1>1. Reads(str[s], meant[s], block) /\ BlocksTyped(block)
  BY DEF TextInv
<1>2. /\ str[s] \in Text!StringObjects
      /\ meant[s] \in SomeText \/ (meant[s] = Failed /\ lang = "C")
  BY <1>1 DEF Reads
<1> QED BY <1>1, <1>2, ReleasedIs, TextRead

LEMMA StringsInC ==
  ASSUME TextInv, lang = "C", NEW s \in Strings
  PROVE  str[s] # Dead
<1>1. Reads(str[s], meant[s], block)
  BY DEF TextInv
<1> QED BY <1>1, ObjectFields DEF Reads

\* Only a C string whose block was refused has a length and no block.
LEMMA OnlyRefused ==
  ASSUME TextInv, NEW s \in Strings, str[s] # Dead, str[s].long, str[s].ptr = None
  PROVE  lang = "C" /\ meant[s] = Failed
BY DEF TextInv, Reads

LEMMA CrashKeeps ==
  ASSUME TextInv, NEW s \in Strings, str[s] # Dead, str[s].long, str[s].ptr = None,
         Text!Crash
  PROVE  TextInv'
<1>1. lang = "C" /\ meant[s] = Failed
  BY OnlyRefused
<1>2. crashed' = TRUE /\ UNCHANGED <<lang, str, block, meant>>
  BY DEF Text!Crash
<1> QED BY <1>1, <1>2 DEF TextInv, Reads, BlocksTyped, Holds

LEMMA Init_c ==
  ASSUME TextInv, ~crashed, lang = "C", NEW s \in Strings, NEW t \in Texts,
         Text!sso_init(s, t)
  PROVE  TextInv'
<1>1. str[s] # Dead /\ t \in SomeText /\ Len(t) \in Nat
  BY StringsInC, TextConstants DEF SomeText
<1>2. Text!Released(str[s], block) = Freed(str[s])
  BY <1>1, StringIs
<1>3. \/ Text!Becomes(s, Text!Short(t), Freed(str[s]), t)
      \/ Text!Allocated(s, t, Len(t), Freed(str[s]), t)
      \/ Text!Becomes(s, Text!Long(None, 0, 0), Freed(str[s]), Failed)
  BY <1>2 DEF Text!sso_init
<1>4. CASE Text!Becomes(s, Text!Short(t), Freed(str[s]), t)
  BY <1>1, <1>4, ShortReads, BlockLeft
<1>5. CASE Text!Allocated(s, t, Len(t), Freed(str[s]), t)
  BY <1>1, <1>5, AllocatedKeeps
<1>6. CASE Text!Becomes(s, Text!Long(None, 0, 0), Freed(str[s]), Failed)
  BY <1>6, RefusedReads, BlockLeft
<1> QED BY <1>3, <1>4, <1>5, <1>6

LEMMA Free_c ==
  ASSUME TextInv, ~crashed, lang = "C", NEW s \in Strings, Text!sso_free(s)
  PROVE  TextInv'
<1>1. Text!Released(str[s], block) = Freed(str[s])
  BY StringsInC, StringIs
<1>2. Text!Becomes(s, Text!Short(<<>>), Freed(str[s]), <<>>)
  BY <1>1 DEF Text!sso_free
<1>3. <<>> \in SomeText
  BY DEF SomeText
<1> QED BY <1>2, <1>3, ShortReads, BlockLeft

\* What a string should read once t is appended, which is what it then holds.
LEMMA AppendedIs ==
  ASSUME TextInv, NEW s \in Strings, str[s] # Dead, NEW t \in SomeText
  PROVE  LET new == Text!TextOf(str[s], block) \o t
             m   == Text!Appended(s, t)
         IN  /\ new \in SomeText /\ Len(new) = Text!LenOf(str[s]) + Len(t)
             /\ Len(t) \in Nat /\ Len(new) \in Nat
             /\ m = new \/ (m = Failed /\ lang = "C")
             /\ ~str[s].long => m = new
             /\ meant[s] # Failed => m = meant[s] \o t
<1> DEFINE old == Text!TextOf(str[s], block)
<1>1. /\ old \in SomeText /\ Len(old) = Text!LenOf(str[s])
      /\ meant[s] # Failed => old = meant[s]
      /\ meant[s] \in SomeText \/ (meant[s] = Failed /\ lang = "C")
      /\ Reads(str[s], meant[s], block)
  BY StringIs
<1>2. ~str[s].long => meant[s] \in SomeText /\ meant[s] # Failed
  <2>1. ~str[s].long => str[s].text = meant[s] /\ str[s].text \in SomeText
    BY <1>1, ObjectFields DEF Reads
  <2> QED BY <2>1, TextConstants
<1>3. /\ old \o t \in SomeText /\ Len(old \o t) = Len(old) + Len(t)
      /\ Len(old) \in Nat /\ Len(t) \in Nat
  BY <1>1, Concatenated
<1>4. CASE meant[s] = Failed
  <2>1. Text!Appended(s, t) = Failed /\ lang = "C" /\ str[s].long
    <3>1. str[s].long \in BOOLEAN
      BY StringIs, ObjectFields
    <3> QED BY <3>1, <1>1, <1>2, <1>4, TextConstants DEF Text!Appended
  <2> QED BY <2>1, <1>1, <1>3, <1>4
<1>5. CASE meant[s] # Failed
  <2>1. Text!Appended(s, t) = old \o t /\ Text!Appended(s, t) = meant[s] \o t
    BY <1>1, <1>5 DEF Text!Appended
  <2> HIDE DEF old
  <2>2. Len(old \o t) \in Nat
    BY <1>3
  <2> QED BY <2>1, <2>2, <1>1, <1>3 DEF old
<1> QED BY <1>4, <1>5

\* The text grows where it is: in its own block, which has room.
LEMMA ExtendedInPlace ==
  ASSUME TextInv, ~crashed, NEW s \in Strings, str[s] # Dead, str[s].ptr # None,
         NEW t \in SomeText, NEW m, Len(t) <= str[s].cap,
         m = t \/ (m = Failed /\ lang = "C"),
         Text!Becomes(s, [str[s] EXCEPT !.size = Len(t)], [block EXCEPT ![str[s].ptr] = t], m)
  PROVE  TextInv'
<1> DEFINE x == [str[s] EXCEPT !.size = Len(t)]
           b == str[s].ptr
<1>1. /\ str[s] \in Text!StringObjects /\ Len(t) \in Nat /\ BlocksTyped(block)
      /\ Reads(str[s], meant[s], block)
  BY StringIs DEF SomeText
<1>2. b \in Buffers /\ str[s].long /\ Holds(str[s], b)
  BY <1>1, ObjectFields DEF Reads, Holds
<1>3. x \in Text!StringObjects /\ x.long /\ x.ptr = b /\ x.size = Len(t) /\ Len(t) <= x.cap
  BY <1>1, <1>2 DEF Text!StringObjects
<1>4. \A y \in Buffers : Holds(str[s], y) <=> y = b
  BY <1>2 DEF Holds
<1>5. Freed(str[s]) = [block EXCEPT ![b] = NoText] /\ Freed(str[s])[b] = NoText
  BY <1>1, <1>2, <1>4 DEF Freed, BlocksTyped
<1>6. [block EXCEPT ![b] = t] = [Freed(str[s]) EXCEPT ![b] = t]
  BY <1>1, <1>5 DEF BlocksTyped
<1>7. Text!Becomes(s, x, [Freed(str[s]) EXCEPT ![b] = t], m)
  BY <1>6
<1> HIDE DEF x, b
<1> QED BY <1>2, <1>3, <1>5, <1>7, BlockFilled

\* The capacity a string grows to has room for the text.
LEMMA GrownSuffices ==
  ASSUME NEW x \in Text!StringObjects, NEW n \in Nat
  PROVE  Text!Grown(x, n) \in Nat /\ n <= Text!Grown(x, n)
<1>1. x.cap \in Nat
  BY ObjectFields
<1> QED BY <1>1 DEF Text!Grown

LEMMA Append_c ==
  ASSUME TextInv, ~crashed, lang = "C", NEW s \in Strings, NEW t \in Texts,
         Text!sso_append(s, t)
  PROVE  TextInv'
<1> DEFINE x == str[s]
           n == Text!LenOf(x) + Len(t)
           new == Text!TextOf(x, block) \o t
           m == Text!Appended(s, t)
<1>1. /\ x # Dead /\ t \in SomeText /\ x \in Text!StringObjects /\ BlocksTyped(block)
      /\ Text!Released(x, block) = Freed(x)
  BY StringsInC, StringIs, TextConstants
<1>2. /\ new \in SomeText /\ Len(new) = n /\ n \in Nat
      /\ m = new \/ (m = Failed /\ lang = "C")
      /\ ~x.long => m = new
  BY <1>1, AppendedIs
<1>3. x.long \in BOOLEAN /\ x.cap \in Nat /\ (~x.long => x.ptr = None)
  BY <1>1, ObjectFields, StringIs DEF Reads
<1>4. \/ ~x.long /\ Text!Becomes(s, Text!Short(new), block, m)
      \/ ~x.long /\ Text!Allocated(s, new, 2 * n, block, m)
      \/ Text!Nothing(s)
      \/ Text!Allocated(s, new, Text!Grown(x, n), Text!Released(x, block), m)
      \/ x.long /\ x.ptr = None /\ Text!Crash
      \/ /\ x.long /\ x.ptr # None /\ n <= x.cap
         /\ Text!Becomes(s, [x EXCEPT !.size = n], [block EXCEPT ![x.ptr] = new], m)
  <2> HIDE DEF n, new, m
  <2>1. \/ ~x.long /\ Text!Becomes(s, Text!Short(new), block, m)
        \/ ~x.long /\ (Text!Allocated(s, new, 2 * n, block, m) \/ Text!Nothing(s))
        \/ Text!Allocated(s, new, Text!Grown(x, n), Text!Released(x, block), m)
        \/ Text!Nothing(s)
        \/ x.long /\ ~(n > x.cap) /\ x.ptr = None /\ Text!Crash
        \/ /\ x.long /\ ~(n > x.cap) /\ x.ptr # None
           /\ Text!Becomes(s, [x EXCEPT !.size = n], [block EXCEPT ![x.ptr] = new], m)
    BY DEF Text!sso_append, n, new, m
  <2> QED BY <2>1, <1>2, <1>3
<1> HIDE DEF n, new, m
<1>5. ~x.long => Freed(x) = block
  BY <1>1, <1>3, NothingFreed
<1>6. CASE ~x.long /\ Text!Becomes(s, Text!Short(new), block, m)
  <2>1. Text!Becomes(s, Text!Short(new), Freed(x), new)
    BY <1>2, <1>5, <1>6
  <2> QED BY <2>1, <1>2, ShortReads, BlockLeft
<1>7. CASE ~x.long /\ Text!Allocated(s, new, 2 * n, block, m)
  <2>1. Text!Allocated(s, new, 2 * n, Freed(x), m)
    BY <1>5, <1>7
  <2>2. 2 * n \in Nat /\ Len(new) <= 2 * n
    BY <1>2
  <2> QED BY <2>1, <2>2, <1>2, AllocatedKeeps
<1>8. CASE Text!Nothing(s)
  BY <1>8, NothingChanged DEF Text!Nothing, Text!vars, text_vars
<1>9. CASE Text!Allocated(s, new, Text!Grown(x, n), Text!Released(x, block), m)
  <2>1. Text!Grown(x, n) \in Nat /\ Len(new) <= Text!Grown(x, n)
    BY <1>1, <1>2, GrownSuffices
  <2>2. Text!Allocated(s, new, Text!Grown(x, n), Freed(x), m)
    BY <1>1, <1>9
  <2> QED BY <2>1, <2>2, <1>2, AllocatedKeeps
<1>10. CASE x.long /\ x.ptr = None /\ Text!Crash
  BY <1>1, <1>10, CrashKeeps
<1>11. CASE /\ x.long /\ x.ptr # None /\ n <= x.cap
            /\ Text!Becomes(s, [x EXCEPT !.size = n], [block EXCEPT ![x.ptr] = new], m)
  <2>1. Text!Becomes(s, [x EXCEPT !.size = Len(new)], [block EXCEPT ![x.ptr] = new], m)
    BY <1>2, <1>11
  <2> QED BY <2>1, <1>1, <1>2, <1>11, ExtendedInPlace
<1> QED BY <1>4, <1>6, <1>7, <1>8, <1>9, <1>10, <1>11

LEMMA Copy_c ==
  ASSUME TextInv, ~crashed, lang = "C", NEW s \in Strings, NEW d \in Strings, d # s,
         Text!sso_copy(d, s)
  PROVE  TextInv'
<1> DEFINE x == str[s]
           h == Freed(str[d])
<1>1. /\ x # Dead /\ str[d] # Dead /\ x \in Text!StringObjects
      /\ Reads(x, meant[s], block) /\ Text!Released(str[d], block) = h
  BY StringsInC, StringIs
<1>2. Reads(x, meant[s], h)
  BY OthersRead
<1>3. /\ Text!TextOf(x, h) \in SomeText /\ Len(Text!TextOf(x, h)) = Text!LenOf(x)
      /\ meant[s] # Failed => Text!TextOf(x, h) = meant[s]
  BY <1>1, <1>2, TextRead
<1>4. x.long \in BOOLEAN /\ x.size \in Nat /\ (~x.long => x.ptr = None)
  BY <1>1, ObjectFields DEF Reads
<1>5. \/ ~x.long /\ Text!Becomes(d, x, h, meant[s])
      \/ x.long /\ x.ptr = None /\ Text!Crash
      \/ x.long /\ Text!Allocated(d, Text!TextOf(x, h), x.size, h, meant[s])
      \/ \E n \in Text!LeftOver(str[d]) : Text!Becomes(d, Text!Long(None, n, 0), h, Failed)
  <2> HIDE DEF h
  <2> QED BY <1>1 DEF Text!sso_copy
<1>6. CASE ~x.long /\ Text!Becomes(d, x, h, meant[s])
  BY <1>2, <1>4, <1>6, BlockLeft
<1>7. CASE x.long /\ x.ptr = None /\ Text!Crash
  BY <1>1, <1>7, CrashKeeps
<1>8. CASE x.long /\ Text!Allocated(d, Text!TextOf(x, h), x.size, h, meant[s])
  <2> DEFINE t == Text!TextOf(x, h)
  <2>1. t \in SomeText /\ Len(t) <= x.size
    BY <1>3, <1>4, <1>8 DEF Text!LenOf
  <2>2. meant[s] = t \/ (meant[s] = Failed /\ lang = "C")
    BY <1>3
  <2>3. Text!Allocated(d, t, x.size, Freed(str[d]), meant[s])
    BY <1>8
  <2> HIDE DEF t
  <2> QED BY <2>1, <2>2, <2>3, <1>4, AllocatedKeeps
<1>9. CASE \E n \in Text!LeftOver(str[d]) : Text!Becomes(d, Text!Long(None, n, 0), h, Failed)
  <2> PICK n \in Text!LeftOver(str[d]) : Text!Becomes(d, Text!Long(None, n, 0), h, Failed)
    BY <1>9
  <2>1. n \in Nat
    BY DEF Text!LeftOver
  <2> QED BY <2>1, RefusedReads, BlockLeft
<1> QED BY <1>5, <1>6, <1>7, <1>8, <1>9

-----------------------------------------------------------------------------
(* Day 21: the C++ objects *)

LEMMA Construct_cpp ==
  ASSUME TextInv, ~crashed, lang = "Cpp", NEW s \in Strings, NEW t \in Texts,
         Text!construct(s, t)
  PROVE  TextInv'
<1>1. str[s] = Dead /\ t \in SomeText /\ Len(t) \in Nat /\ BlocksTyped(block)
  BY TextConstants DEF Text!construct, Text!Alive, SomeText, TextInv
<1>2. Freed(str[s]) = block
  BY <1>1, NothingFreed
<1>3. \/ Text!Becomes(s, Text!Short(t), Freed(str[s]), t)
      \/ Text!Allocated(s, t, Len(t), Freed(str[s]), t)
      \/ Text!Nothing(s)
  BY <1>2 DEF Text!construct
<1>4. CASE Text!Becomes(s, Text!Short(t), Freed(str[s]), t)
  BY <1>1, <1>4, ShortReads, BlockLeft
<1>5. CASE Text!Allocated(s, t, Len(t), Freed(str[s]), t)
  BY <1>1, <1>5, AllocatedKeeps
<1>6. CASE Text!Nothing(s)
  BY <1>6, NothingChanged DEF Text!Nothing, Text!vars, text_vars
<1> QED BY <1>3, <1>4, <1>5, <1>6

LEMMA Destroy_cpp ==
  ASSUME TextInv, ~crashed, lang = "Cpp", NEW s \in Strings, Text!destroy(s)
  PROVE  TextInv'
<1>1. Text!Becomes(s, Dead, Freed(str[s]), Dead)
  BY StringIs DEF Text!destroy, Text!Alive
<1>2. Reads(Dead, Dead, Freed(str[s]))
  BY DEF Reads
<1> QED BY <1>1, <1>2, BlockLeft

LEMMA CopyConstruct_cpp ==
  ASSUME TextInv, ~crashed, lang = "Cpp", NEW d \in Strings, NEW s \in Strings, d # s,
         Text!copy_construct(d, s)
  PROVE  TextInv'
<1> DEFINE x == str[s]
           t == Text!TextOf(x, block)
<1>1. /\ str[d] = Dead /\ x # Dead
      /\ \/ ~x.long /\ Text!Becomes(d, x, block, meant[s])
         \/ x.long /\ Text!Allocated(d, t, x.cap, block, meant[s])
         \/ Text!Nothing(d)
  BY DEF Text!copy_construct, Text!Alive
<1>2. /\ x \in Text!StringObjects /\ Reads(x, meant[s], block) /\ BlocksTyped(block)
      /\ t \in SomeText /\ Len(t) = Text!LenOf(x) /\ meant[s] # Failed /\ t = meant[s]
  BY <1>1, StringIs, TextConstants
<1>3. /\ x.long \in BOOLEAN /\ x.size \in Nat /\ x.cap \in Nat
      /\ x.ptr # None <=> x.long
      /\ x.ptr # None => x.size <= x.cap
  BY <1>2, ObjectFields DEF Reads
<1>4. Freed(str[d]) = block
  BY <1>1, <1>2, NothingFreed
<1> HIDE DEF t
<1>5. CASE ~x.long /\ Text!Becomes(d, x, block, meant[s])
  BY <1>2, <1>3, <1>4, <1>5, BlockLeft
<1>6. CASE x.long /\ Text!Allocated(d, t, x.cap, block, meant[s])
  <2>1. Len(t) <= x.cap
    BY <1>2, <1>3, <1>6 DEF Text!LenOf
  <2>2. Text!Allocated(d, t, x.cap, Freed(str[d]), meant[s])
    BY <1>4, <1>6
  <2> QED BY <2>1, <2>2, <1>2, <1>3, AllocatedKeeps
<1>7. CASE Text!Nothing(d)
  BY <1>7, NothingChanged DEF Text!Nothing, Text!vars, text_vars
<1> QED BY <1>1, <1>5, <1>6, <1>7

LEMMA CopyAssign_cpp ==
  ASSUME TextInv, ~crashed, lang = "Cpp", NEW d \in Strings, NEW s \in Strings, d # s,
         Text!copy_assign(d, s)
  PROVE  TextInv'
<1> DEFINE x == str[s]
           t == Text!TextOf(x, block)
<1>1. /\ str[d] # Dead /\ x # Dead
      /\ \/ ~x.long /\ Text!Becomes(d, x, Text!Released(str[d], block), meant[s])
         \/ /\ x.long
            /\ \E b \in Text!FreeIn(block) :
                 Text!Becomes(d, [x EXCEPT !.ptr = b],
                   Text!Released(str[d], [block EXCEPT ![b] = t]), meant[s])
         \/ Text!Nothing(d)
  BY DEF Text!copy_assign, Text!Alive
<1>2. /\ x \in Text!StringObjects /\ Reads(x, meant[s], block) /\ BlocksTyped(block)
      /\ t \in SomeText /\ Len(t) = Text!LenOf(x) /\ meant[s] # Failed /\ t = meant[s]
      /\ Text!Released(str[d], block) = Freed(str[d])
  BY <1>1, StringIs, TextConstants
<1>3. /\ x.long \in BOOLEAN /\ x.size \in Nat /\ x.cap \in Nat
      /\ x.ptr # None <=> x.long
      /\ x.ptr # None => x.size <= x.cap
  BY <1>2, ObjectFields DEF Reads
<1> HIDE DEF t
<1>4. CASE ~x.long /\ Text!Becomes(d, x, Text!Released(str[d], block), meant[s])
  <2>1. Text!Becomes(d, x, Freed(str[d]), meant[s])
    BY <1>2, <1>4
  <2>2. Reads(x, meant[s], Freed(str[d])) /\ x.ptr = None
    BY <1>3, <1>4, OthersRead
  <2> QED BY <2>1, <2>2, BlockLeft
<1>5. CASE /\ x.long
           /\ \E b \in Text!FreeIn(block) :
                Text!Becomes(d, [x EXCEPT !.ptr = b],
                  Text!Released(str[d], [block EXCEPT ![b] = t]), meant[s])
  <2>1. PICK b \in Buffers :
          /\ block[b] = NoText
          /\ Text!Becomes(d, [x EXCEPT !.ptr = b],
               Text!Released(str[d], [block EXCEPT ![b] = t]), meant[s])
    BY <1>5 DEF Text!FreeIn
  <2> DEFINE y == [x EXCEPT !.ptr = b]
  <2>2. /\ y \in Text!StringObjects /\ y.long /\ y.ptr = b
        /\ y.size = x.size /\ y.cap = x.cap
    BY <1>2, <1>5 DEF Text!StringObjects
  <2>3. x.size = Len(t) /\ Len(t) <= x.cap
    BY <1>2, <1>3, <1>5 DEF Text!LenOf
  <2>4. /\ Text!Released(str[d], [block EXCEPT ![b] = t]) = [Freed(str[d]) EXCEPT ![b] = t]
        /\ Freed(str[d])[b] = NoText
    BY <1>1, <2>1, FilledFirst
  <2>5. Text!Becomes(d, y, [Freed(str[d]) EXCEPT ![b] = t], meant[s])
    BY <2>1, <2>4
  <2> HIDE DEF y
  <2> QED BY <2>2, <2>3, <2>4, <2>5, <1>2, BlockFilled
<1>6. CASE Text!Nothing(d)
  BY <1>6, NothingChanged DEF Text!Nothing, Text!vars, text_vars
<1> QED BY <1>1, <1>4, <1>5, <1>6

LEMMA Append_cpp ==
  ASSUME TextInv, ~crashed, lang = "Cpp", NEW s \in Strings, NEW t \in Texts,
         Text!append(s, t)
  PROVE  TextInv'
<1> DEFINE x == str[s]
           n == Text!LenOf(x) + Len(t)
           new == Text!TextOf(x, block) \o t
           m == meant[s] \o t
<1>1. /\ x # Dead /\ t \in SomeText /\ x \in Text!StringObjects /\ BlocksTyped(block)
      /\ Text!Released(x, block) = Freed(x) /\ meant[s] # Failed
      /\ Reads(x, meant[s], block)
  BY StringIs, TextConstants DEF Text!append, Text!Alive
<1>2. /\ new \in SomeText /\ Len(new) = n /\ n \in Nat /\ Len(t) \in Nat /\ m = new
  BY <1>1, AppendedIs
<1>3. /\ x.long \in BOOLEAN /\ x.cap \in Nat
      /\ x.ptr # None <=> x.long
  BY <1>1, ObjectFields DEF Reads
<1>4. \/ ~x.long /\ Text!Becomes(s, Text!Short(new), block, m)
      \/ ~x.long /\ Text!Allocated(s, new, 2 * n, block, m)
      \/ Text!Nothing(s)
      \/ \E b \in Text!FreeIn(block) :
           Text!Becomes(s, Text!Long(b, n, Text!Grown(x, n)),
             Text!Released(x, [block EXCEPT ![b] = new]), m)
      \/ /\ x.long /\ ~(n > x.cap)
         /\ Text!Becomes(s, [x EXCEPT !.size = n], [block EXCEPT ![x.ptr] = new], m)
  <2> HIDE DEF n, new, m
  <2> QED BY DEF Text!append, n, new, m
<1> HIDE DEF n, new, m
<1>5. ~x.long => Freed(x) = block
  BY <1>1, <1>3, NothingFreed
<1>6. CASE ~x.long /\ Text!Becomes(s, Text!Short(new), block, m)
  <2>1. Text!Becomes(s, Text!Short(new), Freed(x), new)
    BY <1>2, <1>5, <1>6
  <2> QED BY <2>1, <1>2, ShortReads, BlockLeft
<1>7. CASE ~x.long /\ Text!Allocated(s, new, 2 * n, block, m)
  <2>1. Text!Allocated(s, new, 2 * n, Freed(x), m)
    BY <1>5, <1>7
  <2>2. 2 * n \in Nat /\ Len(new) <= 2 * n
    BY <1>2
  <2> QED BY <2>1, <2>2, <1>2, AllocatedKeeps
<1>8. CASE Text!Nothing(s)
  BY <1>8, NothingChanged DEF Text!Nothing, Text!vars, text_vars
<1>9. CASE \E b \in Text!FreeIn(block) :
             Text!Becomes(s, Text!Long(b, n, Text!Grown(x, n)),
               Text!Released(x, [block EXCEPT ![b] = new]), m)
  <2>1. PICK b \in Buffers :
          /\ block[b] = NoText
          /\ Text!Becomes(s, Text!Long(b, n, Text!Grown(x, n)),
               Text!Released(x, [block EXCEPT ![b] = new]), m)
    BY <1>9 DEF Text!FreeIn
  <2> DEFINE k == Text!Grown(x, n)
             y == Text!Long(b, n, k)
  <2>2. k \in Nat /\ n <= k
    BY <1>1, <1>2, GrownSuffices
  <2>3. y \in Text!StringObjects /\ y.long /\ y.ptr = b /\ y.size = n /\ y.cap = k
    <3> HIDE DEF k
    <3>1. b \in Buffers \cup {None}
      OBVIOUS
    <3> QED BY <3>1, <2>2, <1>2, LongIs
  <2>4. /\ Text!Released(x, [block EXCEPT ![b] = new]) = [Freed(x) EXCEPT ![b] = new]
        /\ Freed(x)[b] = NoText
    BY <1>1, <2>1, FilledFirst
  <2>5. Text!Becomes(s, y, [Freed(x) EXCEPT ![b] = new], m)
    BY <2>1, <2>4
  <2> HIDE DEF y, k
  <2> QED BY <2>2, <2>3, <2>4, <2>5, <1>2, BlockFilled
<1>10. CASE /\ x.long /\ ~(n > x.cap)
            /\ Text!Becomes(s, [x EXCEPT !.size = n], [block EXCEPT ![x.ptr] = new], m)
  <2>1. Text!Becomes(s, [x EXCEPT !.size = Len(new)], [block EXCEPT ![x.ptr] = new], m)
    BY <1>2, <1>10
  <2>2. Len(new) <= x.cap
    BY <1>2, <1>3, <1>10
  <2> QED BY <2>1, <2>2, <1>1, <1>2, <1>3, <1>10, ExtendedInPlace
<1> QED BY <1>4, <1>6, <1>7, <1>8, <1>9, <1>10

\* A moved block changes hands; the string it leaves is empty and short.
LEMMA Moved_cpp ==
  ASSUME TextInv, ~crashed, lang = "Cpp", NEW d \in Strings, NEW s \in Strings, d # s,
         str[s] # Dead, Text!Move(d, s, Freed(str[d]))
  PROVE  TextInv'
<1> DEFINE x == str[s]
           h == Freed(str[d])
           y == IF x.long THEN Text!Short(<<>>) ELSE x
           w == IF x.long THEN <<>> ELSE meant[s]
<1>1. /\ BlocksTyped(block) /\ BlocksTyped(h) /\ Reads(x, meant[s], h)
      /\ x \in Text!StringObjects /\ <<>> \in SomeText
  BY StringIs, FreedTyped, OthersRead DEF TextInv, SomeText
<1>2. /\ str' = [str EXCEPT ![d] = x, ![s] = y] /\ block' = h
      /\ meant' = [meant EXCEPT ![d] = meant[s], ![s] = w]
      /\ lang' = lang /\ crashed' = crashed
  BY DEF Text!Move, TextInv
<1>3. /\ str' = [o \in Strings |-> str'[o]] /\ meant' = [o \in Strings |-> meant'[o]]
      /\ str'[d] = x /\ meant'[d] = meant[s] /\ str'[s] = y /\ meant'[s] = w
      /\ \A o \in Strings : o # d /\ o # s => str'[o] = str[o] /\ meant'[o] = meant[o]
  <2> HIDE DEF y, w, x
  <2> QED BY <1>2 DEF TextInv
<1>4. Reads(y, w, h) /\ \A b : ~Holds(y, b)
  <2>1. CASE x.long
    <3>1. y = Text!Short(<<>>) /\ w = <<>>
      BY <2>1
    <3> HIDE DEF y, w
    <3>2. Reads(y, w, h) /\ y.ptr = None
      BY <3>1, <1>1, ShortReads
    <3> QED BY <3>2, <1>1, NothingFreed
  <2>2. CASE ~x.long
    <3>1. y = x /\ w = meant[s]
      BY <2>2
    <3> HIDE DEF y, w
    <3>2. Reads(y, w, h) /\ y.ptr = None
      BY <3>1, <2>2, <1>1, ObjectFields DEF Reads
    <3> QED BY <3>2, <1>1, NothingFreed
  <2> QED BY <2>1, <2>2
<1> HIDE DEF y, w
<1>5. ASSUME NEW o \in Strings PROVE Reads(str[o], meant[o], block)'
  <2>1. \E u, v : str'[o] = u /\ meant'[o] = v /\ Reads(u, v, h)
    <3>1. CASE o = d
      BY <3>1, <1>1, <1>3
    <3>2. CASE o = s
      BY <3>2, <1>3, <1>4
    <3>3. CASE o # d /\ o # s
      BY <3>3, <1>3, OthersRead
    <3> QED BY <3>1, <3>2, <3>3
  <2>2. PICK u, v : str'[o] = u /\ meant'[o] = v /\ Reads(u, v, h)
    BY <2>1
  <2> QED BY <2>2, <1>2 DEF Reads
<1>6. ASSUME NEW b \in Buffers, h[b] # NoText
      PROVE  \E o \in Strings : Holds(str'[o], b)
  <2>1. ~Holds(str[d], b) /\ block[b] # NoText
    BY <1>6 DEF Freed
  <2>2. PICK o \in Strings : Holds(str[o], b)
    BY <2>1 DEF TextInv
  <2>3. o # d
    BY <2>1, <2>2
  <2> QED BY <2>2, <2>3, <1>3
<1>7. ASSUME NEW b \in Buffers, NEW o \in Strings, Holds(str'[o], b)
      PROVE  o # s /\ Holds(str[IF o = d THEN s ELSE o], b)
  BY <1>3, <1>4, <1>7
<1>8. \A o, q \in Strings : \A b \in Buffers : Holds(str'[o], b) /\ Holds(str'[q], b) => o = q
  <2>1. ASSUME NEW o \in Strings, NEW q \in Strings, NEW b \in Buffers,
               Holds(str'[o], b), Holds(str'[q], b)
        PROVE  o = q
    <3>1. /\ o # s /\ Holds(str[IF o = d THEN s ELSE o], b)
          /\ q # s /\ Holds(str[IF q = d THEN s ELSE q], b)
      BY <2>1, <1>7
    <3> QED BY <3>1 DEF TextInv
  <2> QED BY <2>1
<1>9. BlocksTyped(block)'
  BY <1>1, <1>2 DEF BlocksTyped
<1>10. \A b \in Buffers : block'[b] # NoText => \E o \in Strings : Holds(str[o], b)'
  BY <1>2, <1>6 DEF Holds
<1>11. \A o, q \in Strings : \A b \in Buffers : Holds(str[o], b)' /\ Holds(str[q], b)' => o = q
  BY <1>8 DEF Holds
<1> QED BY <1>2, <1>3, <1>5, <1>9, <1>10, <1>11 DEF TextInv

LEMMA Moves_cpp ==
  ASSUME TextInv, ~crashed, lang = "Cpp", NEW d \in Strings, NEW s \in Strings, d # s,
         Text!move_construct(d, s) \/ Text!move_assign(d, s)
  PROVE  TextInv'
<1>1. CASE Text!move_construct(d, s)
  <2>1. str[d] = Dead /\ str[s] # Dead /\ Text!Move(d, s, block) /\ BlocksTyped(block)
    BY <1>1 DEF Text!move_construct, Text!Alive, TextInv
  <2>2. Freed(str[d]) = block
    BY <2>1, NothingFreed
  <2> QED BY <2>1, <2>2, Moved_cpp
<1>2. CASE Text!move_assign(d, s)
  <2>1. /\ str[d] # Dead /\ str[s] # Dead
        /\ Text!Move(d, s, Text!Released(str[d], block))
    BY <1>2 DEF Text!move_assign, Text!Alive
  <2>2. Text!Released(str[d], block) = Freed(str[d])
    BY <2>1, StringIs
  <2> QED BY <2>1, <2>2, Moved_cpp
<1> QED BY <1>1, <1>2

LEMMA TextInitially == Text!Init => TextInv
<1> SUFFICES ASSUME Text!Init PROVE TextInv
  OBVIOUS
<1>1. /\ lang \in {"C", "Cpp"} /\ crashed = FALSE
      /\ str = [s \in Strings |-> IF lang = "C" THEN Text!Short(<<>>) ELSE Dead]
      /\ meant = [s \in Strings |-> IF lang = "C" THEN <<>> ELSE Dead]
      /\ block = [b \in Buffers |-> NoText]
  BY DEF Text!Init
<1>2. <<>> \in SomeText
  BY DEF SomeText
<1>3. ASSUME NEW s \in Strings
      PROVE  Reads(str[s], meant[s], block) /\ \A b : ~Holds(str[s], b)
  <2>1. CASE lang = "C"
    <3>1. str[s] = Text!Short(<<>>) /\ meant[s] = <<>>
      BY <2>1, <1>1
    <3>2. Reads(str[s], meant[s], block) /\ str[s].ptr = None
      BY <3>1, <1>2, ShortReads
    <3> QED BY <3>2, TextConstants DEF Holds
  <2>2. CASE lang = "Cpp"
    BY <2>2, <1>1 DEF Reads, Holds
  <2> QED BY <2>1, <2>2, <1>1
<1>4. BlocksTyped(block)
  BY <1>1 DEF BlocksTyped
<1> QED BY <1>1, <1>3, <1>4 DEF TextInv

LEMMA TextInductive == TextInv /\ [MCNext]_allvars => TextInv'
<1> SUFFICES ASSUME TextInv, [MCNext]_allvars PROVE TextInv'
  OBVIOUS
<1>1. Text!Next \/ UNCHANGED text_vars
  BY DEF MCNext, Runs, allvars
<1>2. CASE Text!Next
  <2>1. /\ ~crashed
        /\ \/ lang = "C" /\ Text!CStep
           \/ lang = "Cpp" /\ Text!CppStep
    BY <1>2 DEF Text!Next, TextInv
  <2>2. CASE lang = "C" /\ Text!CStep
    BY <2>1, <2>2, Free_c, Init_c, Append_c, Copy_c DEF Text!CStep
  <2>3. CASE lang = "Cpp" /\ Text!CppStep
    <3>1. PICK s \in Strings :
            \/ Text!destroy(s)
            \/ \E t \in Texts : Text!construct(s, t) \/ Text!append(s, t)
            \/ \E d \in Strings \ {s} :
                 \/ Text!copy_construct(d, s) \/ Text!move_construct(d, s)
                 \/ Text!copy_assign(d, s) \/ Text!move_assign(d, s)
      BY <2>3 DEF Text!CppStep
    <3> QED BY <3>1, <2>1, <2>3, Destroy_cpp, Construct_cpp, Append_cpp, CopyConstruct_cpp,
               CopyAssign_cpp, Moves_cpp
  <2> QED BY <2>1, <2>2, <2>3
<1> QED BY <1>1, <1>2, NothingChanged

THEOREM TextInvariance == MCSpec => []TextInv
<1>1. MCInit => TextInv
  BY TextInitially DEF MCInit
<1> QED BY <1>1, TextInductive, PTL DEF MCSpec

LEMMA TextsFollow == TextInv => Text!TextsKept /\ Text!BlocksOwned
<1> SUFFICES ASSUME TextInv PROVE Text!TextsKept /\ Text!BlocksOwned
  OBVIOUS
<1>1. Text!TextsKept
  BY StringIs DEF Text!TextsKept
<1> DEFINE holders == {s \in Strings : str[s] # Dead /\ str[s].long /\ str[s].ptr # None}
<1>2. ASSUME NEW s \in Strings PROVE s \in holders <=> \E b \in Buffers : Holds(str[s], b)
  <2>1. Reads(str[s], meant[s], block)
    BY DEF TextInv
  <2> QED BY <2>1, ObjectFields, TextConstants DEF Reads, Holds
<1>3. ASSUME NEW s \in holders
      PROVE  /\ s \in Strings /\ str[s].ptr \in Buffers /\ Holds(str[s], str[s].ptr)
             /\ block[str[s].ptr] # NoText
             /\ Len(block[str[s].ptr]) <= str[s].cap
  <2>1. PICK b \in Buffers : Holds(str[s], b)
    BY <1>2
  <2>2. Reads(str[s], meant[s], block) /\ BlocksTyped(block)
    BY DEF TextInv
  <2>3. /\ block[b] # NoText /\ str[s].ptr = b /\ b \in Buffers
        /\ Len(block[b]) = str[s].size /\ str[s].size <= str[s].cap
    BY <2>1, <2>2, HeldIsUsed
  <2> QED BY <2>1, <2>3
<1>4. ASSUME NEW b \in Buffers, block[b] # NoText PROVE \E s \in holders : str[s].ptr = b
  BY <1>2, <1>4 DEF TextInv, Holds
<1>5. ASSUME NEW s \in holders, NEW o \in holders \ {s} PROVE str[o].ptr # str[s].ptr
  BY <1>3 DEF TextInv
<1>6. Text!BlocksOwned
  <2> HIDE DEF holders
  <2>1. crashed => lang = "C" /\ \E s \in Strings : meant[s] = Failed
    BY DEF TextInv
  <2> QED BY <2>1, <1>3, <1>4, <1>5 DEF Text!BlocksOwned, holders
<1> QED BY <1>1, <1>6

\* Days 12, 16 and 21: an object or a block is freed with its last owner and not before,
\* through every copy, move, append and refused allocation, and what is read through a
\* handle or string is what was put in through it or through what it was copied from.
THEOREM FreedOnce == MCSpec => []OwnersFreeOnce
<1>1. OwnerInv /\ TextInv => OwnersFreeOnce
  BY CountsFollow, TextsFollow DEF OwnersFreeOnce, OwnerInv
<1> QED BY <1>1, OwnersInvariance, TextInvariance, PTL

-----------------------------------------------------------------------------
(* Day 25: the pager *)

\* The pager's invariant, whatever is opened, evicted, flushed, closed or left to die.
THEOREM PagerInvariance == MCSpec => []PagerInv
<1>1. MCInit => PagerInv
  BY PagerInitially DEF MCInit
<1>2. PagerInv /\ [MCNext]_allvars => PagerInv'
  <2>1. [MCNext]_allvars => Pages!Next \/ UNCHANGED page_vars
    BY DEF MCNext, Runs, allvars
  <2> QED BY <2>1, PagerInductive
<1> QED BY <1>1, <1>2, PTL DEF MCSpec

\* The cache of the pager holds every page the caller has pinned, once, within its
\* capacity (pager_fetch, pager_unpin, evict_lru_page).
THEOREM PinnedStayCached == MCSpec => []CacheSound
<1>1. PagerInv => CacheSound
  BY CacheFollows DEF CacheSound
<1> QED BY <1>1, PagerInvariance, PTL

\* No page loses what its owner wrote through eviction, reload, close or reopening, short
\* of a failed write of that very page (pager_fetch, pager_flush, pager_alloc_page,
\* pager_free_page, pager_close).
THEOREM PagesKeepWrites == MCSpec => []NoLostUpdate
<1>1. PagerInv => NoLostUpdate
  BY UpdatesFollow DEF NoLostUpdate
<1> QED BY <1>1, PagerInvariance, PTL

\* The free list on disk, followed from the header through the first word of every free
\* page, runs through the pages that were allocated once and are not owned, each once, and
\* ends (pager_alloc_page, pager_free_page, evict_lru_page, pager_close).
THEOREM FreeListWhole == MCSpec => []FreeListSound
<1>1. PagerInv => FreeListSound
  BY FreeListFollows DEF FreeListSound
<1> QED BY <1>1, PagerInvariance, PTL

-----------------------------------------------------------------------------
(* Day 25: the buffer pool manager *)

\* The invariant of the pool, whatever is fetched, written, moved, freed, closed or left
\* without a flush.
THEOREM BufferInvariance == MCSpec => []BufferInv
<1>1. MCInit => BufferInv
  BY BufferInitially DEF MCInit
<1>2. BufferInv /\ [MCNext]_allvars => BufferInv'
  <2>1. [MCNext]_allvars => Manager!Next \/ UNCHANGED buffer_vars
    BY DEF MCNext, Runs, allvars
  <2> QED BY <2>1, BufferInductive
<1> QED BY <1>1, <1>2, PTL DEF MCSpec

\* A frame is pinned once for every guard on its page, wherever guards are moved to, and
\* never taken while it is; pages keep what was written through eviction and reopening,
\* and the free list runs through the pages that were freed (BufferPoolManager::FetchPage,
\* UnpinPage, EvictPage, AllocatePage, FreePage; PageGuard's moves and destructor).
THEOREM GuardsPinPages == MCSpec => []BuffersSound
<1>1. BufferInv => BuffersSound
  BY PinsFollow, PagesFollow, PageListFollows DEF BuffersSound
<1> QED BY <1>1, BufferInvariance, PTL

-----------------------------------------------------------------------------
(* Day 23: the first-fit allocator and the object pool *)

\* The invariant of the first-fit allocator, whatever is allocated, split, freed and
\* merged.
THEOREM FitInvariance == MCSpec => []FitInv
<1>1. MCInit => FitInv
  BY FitInitially DEF MCInit, Lists!Init
<1>2. FitInv /\ [MCNext]_allvars => FitInv'
  <2>1. [MCNext]_allvars => Lists!FitNext \/ UNCHANGED fit_vars
    BY DEF MCNext, Runs, allvars
  <2> QED BY <2>1, FitInductive
<1> QED BY <1>1, <1>2, PTL DEF MCSpec

\* The invariant of the object pool, however often slots are freed and the pool is reset.
THEOREM EntityInvariance == MCSpec => []EntityInv
<1>1. MCInit => EntityInv
  BY EntityInitially DEF MCInit, Lists!Init
<1>2. EntityInv /\ [MCNext]_allvars => EntityInv'
  <2>1. [MCNext]_allvars => Lists!PoolNext \/ UNCHANGED entity_vars
    BY DEF MCNext, Runs, allvars
  <2> QED BY <2>1, EntityInductive
<1> QED BY <1>1, <1>2, PTL DEF MCSpec

\* The used and free blocks of the first-fit allocator cover its pool without a gap or an
\* overlap, through every split and merge (free_list_alloc, free_list_free, coalesce), and
\* the free list of the object pool visits the slots that nobody holds, each once, and
\* ends (Entity_Pool_Alloc, Entity_Free, Pool_Reset).
THEOREM FreeListsCover == MCSpec => []FreeListsWhole
<1>1. FitInv /\ EntityInv => FreeListsWhole
  BY TiledFollows, RestFollows DEF FreeListsWhole
<1> QED BY <1>1, FitInvariance, EntityInvariance, PTL

=============================================================================
