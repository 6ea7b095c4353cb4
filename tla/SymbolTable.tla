---------------------------- MODULE SymbolTable -----------------------------
(***************************************************************************)
(* The symbol table of Day 24 (LookUpTable.c; LookUpTable.cpp is the same  *)
(* class over any key): open addressing with linear probing, tombstones    *)
(* left by deletion and reused by insertion, and a capacity that doubles   *)
(* when occupied and deleted slots together pass the load limit.           *)
(*                                                                         *)
(* A symbol stands for a string and is its hash; what matters of it are    *)
(* the bits under the mask, so that two symbols may collide at every       *)
(* capacity reached.  A slot is Empty, Deleted, or <<symbol, price>>.      *)
(***************************************************************************)
EXTENDS Integers, Sequences, SequencesExt

CONSTANTS Symbols, Prices, None, Empty, Deleted,
          INITIAL_CAPACITY,
          MaxCapacity,            \* bound: no growth beyond this
          CallocMayFail

VARIABLES slots,                  \* the table; slots[i + 1] is slot i
          count, tombstones,
          starved                 \* the last call has failed for want of memory

vars == <<slots, count, tombstones, starved>>

EmptySlots(n) == [i \in 1 .. n |-> Empty]

Init ==
  /\ slots = EmptySlots(INITIAL_CAPACITY)
  /\ count = 0 /\ tombstones = 0 /\ starved = FALSE

Occupied(x) == x # Empty /\ x # Deleted

-----------------------------------------------------------------------------
(* The probe of symbol s in table t: from its home slot once around, up to *)
(* the first empty slot.                                                   *)

At(t, s, j)     == ((s + j) % Len(t)) + 1
Empties(t, s)   == {j \in 0 .. Len(t) - 1 : t[At(t, s, j)] = Empty}
Least(S)        == CHOOSE i \in S : \A j \in S : i <= j
Reach(t, s)     == IF Empties(t, s) = {} THEN Len(t) ELSE Least(Empties(t, s))
Before(t, s)    == 0 .. Reach(t, s) - 1
Hits(t, s)      == {j \in Before(t, s) :
                      Occupied(t[At(t, s, j)]) /\ t[At(t, s, j)][1] = s}
Tombs(t, s)     == {j \in Before(t, s) : t[At(t, s, j)] = Deleted}

\* Slips: faulty forms of the definitions that follow them; not part of Next.
LandsAtTomb(t, s) ==                    \* a tombstone ends the search for s itself
  LET free == Tombs(t, s) \cup Empties(t, s)
      hits == {j \in Hits(t, s) : \A i \in free : j < i}
  IN  At(t, s, Least(IF hits # {} THEN hits ELSE free))

\* Where an insert of s lands: on s, else on the first tombstone met, else on the
\* empty slot that ends the probe.
Lands(t, s) ==
  At(t, s, Least(IF Hits(t, s) # {} THEN Hits(t, s)
                 ELSE IF Tombs(t, s) # {} THEN Tombs(t, s) ELSE Empties(t, s)))

\* insert and table_insert_raw give up on a full table.
Fits(t, s)      == Hits(t, s) # {} \/ Empties(t, s) # {}
Store(t, s, p)  == IF Fits(t, s) THEN [t EXCEPT ![Lands(t, s)] = <<s, p>>] ELSE t

-----------------------------------------------------------------------------
MaxLoadPassed == 10 * (count + tombstones + 1) > 7 * Len(slots)

\* Every occupied slot, in the order of the old table.
table_resize(t, n) ==
  FoldLeft(LAMBDA new, x : Store(new, x[1], x[2]), EmptySlots(n), SelectSeq(t, Occupied))

insert(s, p) ==
  LET t     == IF MaxLoadPassed THEN table_resize(slots, 2 * Len(slots)) ELSE slots
      tombs == IF MaxLoadPassed THEN 0 ELSE tombstones
  IN  /\ Len(t) <= MaxCapacity
      /\ slots' = Store(t, s, p)
      /\ count' = IF Hits(t, s) = {} /\ Fits(t, s) THEN count + 1 ELSE count
      /\ tombstones' = IF Fits(t, s) /\ t[Lands(t, s)] = Deleted THEN tombs - 1 ELSE tombs
      /\ starved' = FALSE

insertFails ==
  /\ CallocMayFail
  /\ MaxLoadPassed
  /\ starved' = TRUE
  /\ UNCHANGED <<slots, count, tombstones>>

delete(s) ==
  /\ IF Hits(slots, s) = {} THEN UNCHANGED <<slots, count, tombstones>>
     ELSE /\ slots' = [slots EXCEPT ![At(slots, s, Least(Hits(slots, s)))] = Deleted]
          /\ count' = count - 1
          /\ tombstones' = tombstones + 1
  /\ starved' = FALSE

lookup(s) ==
  IF Hits(slots, s) = {} THEN None ELSE slots[At(slots, s, Least(Hits(slots, s)))][2]

Next ==
  \/ insertFails
  \/ \E s \in Symbols : delete(s) \/ \E p \in Prices : insert(s, p)

Spec == Init /\ [][Next]_vars
-----------------------------------------------------------------------------
Stored  == [s \in Symbols |-> lookup(s)]
Promise == INSTANCE SymbolMap WITH price <- Stored, size <- count
=============================================================================
