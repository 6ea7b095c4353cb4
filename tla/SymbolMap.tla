----------------------------- MODULE SymbolMap ------------------------------
(***************************************************************************)
(* What a symbol table promises: a price for each symbol inserted and not  *)
(* deleted since; insert fails only for want of memory.                    *)
(***************************************************************************)
EXTENDS Integers, FiniteSets

CONSTANTS Symbols, Prices, None
VARIABLES price,       \* the price of every symbol, or None
          size,        \* how many symbols it says it holds
          starved      \* calloc has failed in the last call

Init == price = [s \in Symbols |-> None] /\ size = 0 /\ starved = FALSE

Held == {s \in Symbols : price[s] # None}

Insert(s, p) ==
  /\ price' = [price EXCEPT ![s] = p]
  /\ size' = Cardinality(Held \cup {s})
  /\ starved' = FALSE

InsertFails == starved' = TRUE /\ UNCHANGED <<price, size>>

Delete(s) ==
  /\ price' = [price EXCEPT ![s] = None]
  /\ size' = Cardinality(Held \ {s})
  /\ starved' = FALSE

Next == InsertFails \/ \E s \in Symbols : Delete(s) \/ \E p \in Prices : Insert(s, p)
Spec == Init /\ [][Next]_<<price, size, starved>>
=============================================================================
