---------------------------- MODULE SymbolProbe -----------------------------
(***************************************************************************)
(* SymbolTable<K, V> of Day 24 (LookUpTable.cpp), loop by loop: one slot   *)
(* is looked at in each step.  SymbolTable models the C table by where a   *)
(* probe lands; here the loops themselves are run, with their index, their *)
(* first tombstone and their test for having come round, and are shown to  *)
(* keep the promise of SymbolMap.  A symbol stands for a key and its hash. *)
(***************************************************************************)
EXTENDS Integers, Sequences, SequencesExt, FiniteSets

CONSTANTS Symbols, Prices, None, Empty, Deleted,
          INITIAL_CAPACITY,
          MaxCapacity             \* bound: no call that grows the table beyond this

VARIABLES slots_, count_, tombstones_,
          call,        \* the call under way: [op, key, value], or op = "none"
          step,        \* how many slots its loop has passed
          firstTombstone,
          result       \* what the call before returned, until the next one

vars == <<slots_, count_, tombstones_, call, step, firstTombstone, result>>

NoCall == [op |-> "none", key |-> None, value |-> None]

Init ==
  /\ slots_ = [i \in 0 .. INITIAL_CAPACITY - 1 |-> Empty]
  /\ count_ = 0 /\ tombstones_ = 0
  /\ call = NoCall /\ step = 0 /\ firstTombstone = -1
  /\ result = None

Occupied(x)     == x # Empty /\ x # Deleted
Capacity(t)     == Cardinality(DOMAIN t)
Index(t, s, j)  == (s + j) % Capacity(t)

\* The first slot of the probe of s that is not occupied.
insertRaw(t, s, v) ==
  LET free == {j \in DOMAIN t : ~Occupied(t[Index(t, s, j)])}
  IN  IF free = {} THEN t
      ELSE [t EXCEPT ![Index(t, s, CHOOSE j \in free : \A i \in free : j <= i)] = <<s, v>>]

\* The occupied slots, in their order, put into an empty table of n slots.
resize(n) ==
  LET old == [i \in 1 .. Capacity(slots_) |-> slots_[i - 1]]
  IN  FoldLeft(LAMBDA t, x : insertRaw(t, x[1], x[2]),
               [i \in 0 .. n - 1 |-> Empty], SelectSeq(old, Occupied))

-----------------------------------------------------------------------------
(* The start of a call, up to its loop *)

Begin(op, s, v) ==
  /\ call.op = "none"
  /\ call' = [op |-> op, key |-> s, value |-> v]
  /\ step' = 0 /\ firstTombstone' = -1 /\ result' = None

insert(s, v) ==
  /\ Begin("insert", s, v)
  /\ IF 10 * (count_ + tombstones_ + 1) > 7 * Capacity(slots_)
     THEN /\ 2 * Capacity(slots_) <= MaxCapacity
          /\ slots_' = resize(2 * Capacity(slots_))
          /\ tombstones_' = 0
     ELSE UNCHANGED <<slots_, tombstones_>>
  /\ UNCHANGED count_

lookup(s) == Begin("lookup", s, None) /\ UNCHANGED <<slots_, count_, tombstones_>>
remove(s) == Begin("remove", s, None) /\ UNCHANGED <<slots_, count_, tombstones_>>

-----------------------------------------------------------------------------
(* One turn of a loop *)

Here   == Index(slots_, call.key, step)
Slot   == slots_[Here]
Hit    == Occupied(Slot) /\ Slot[1] = call.key
Looping(op) == call.op = op

Return(x) ==
  /\ call' = NoCall /\ step' = 0 /\ firstTombstone' = -1
  /\ result' = x

\* index = (index + 1) & mask; once round, the call gives up with answer x.
NextSlot(x) ==
  IF step + 1 = Capacity(slots_) THEN Return(x)
  ELSE step' = step + 1 /\ UNCHANGED <<call, result>>

InsertEmpty ==
  /\ Looping("insert") /\ Slot = Empty
  /\ LET dest == IF firstTombstone # -1 THEN firstTombstone ELSE Here IN
     /\ slots_' = [slots_ EXCEPT ![dest] = <<call.key, call.value>>]
     /\ tombstones_' = IF slots_[dest] = Deleted THEN tombstones_ - 1 ELSE tombstones_
  /\ count_' = count_ + 1
  /\ Return(TRUE)

InsertUpdate ==
  /\ Looping("insert") /\ Hit
  /\ slots_' = [slots_ EXCEPT ![Here] = <<call.key, call.value>>]
  /\ Return(TRUE)
  /\ UNCHANGED <<count_, tombstones_>>

InsertNext ==
  /\ Looping("insert") /\ Slot # Empty /\ ~Hit
  /\ IF step + 1 = Capacity(slots_) THEN Return(FALSE)
     ELSE /\ step' = step + 1
          /\ firstTombstone' = IF Slot = Deleted /\ firstTombstone = -1 THEN Here
                               ELSE firstTombstone
          /\ UNCHANGED <<call, result>>
  /\ UNCHANGED <<slots_, count_, tombstones_>>

lookupLoop ==
  /\ Looping("lookup")
  /\ IF Slot = Empty THEN Return(None)
     ELSE IF Hit THEN Return(Slot[2])
     ELSE NextSlot(None) /\ UNCHANGED firstTombstone
  /\ UNCHANGED <<slots_, count_, tombstones_>>

removeLoop ==
  /\ Looping("remove")
  /\ IF Hit
     THEN /\ slots_' = [slots_ EXCEPT ![Here] = Deleted]
          /\ count_' = count_ - 1 /\ tombstones_' = tombstones_ + 1
          /\ Return(TRUE)
     ELSE /\ IF Slot = Empty THEN Return(FALSE)
             ELSE NextSlot(FALSE) /\ UNCHANGED firstTombstone
          /\ UNCHANGED <<slots_, count_, tombstones_>>

Next ==
  \/ \E s \in Symbols : lookup(s) \/ remove(s) \/ \E v \in Prices : insert(s, v)
  \/ InsertEmpty \/ InsertUpdate \/ InsertNext \/ lookupLoop \/ removeLoop

Spec == Init /\ [][Next]_vars
-----------------------------------------------------------------------------
\* What is in the table, wherever it is.
Stored ==
  [s \in Symbols |->
     LET at == {i \in DOMAIN slots_ : Occupied(slots_[i]) /\ slots_[i][1] = s}
     IN  IF at = {} THEN None ELSE slots_[CHOOSE i \in at : TRUE][2]]

Promise == INSTANCE SymbolMap WITH price <- Stored, size <- count_, starved <- FALSE

\* A call that returns has done what it says: a lookup finds what is in the table, a
\* remove what was, and an insert always has a slot, so that the loops never come round.
ReturnsRight ==
  [][call.op # "none" /\ call'.op = "none" =>
       result' = (CASE call.op = "insert" -> TRUE
                    [] call.op = "lookup" -> Stored[call.key]
                    [] call.op = "remove" -> Stored[call.key] # None)]_vars
=============================================================================
