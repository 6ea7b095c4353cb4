----------------------------- MODULE OrderBook ------------------------------
(***************************************************************************)
(* The order book of Day 39: threads that update four fields of one struct *)
(* under a lock.  SpinLocks.c and SpinLock.cpp spin on an atomic_flag,     *)
(* MutexLock.c and MutexLock.cpp block on a mutex.  Inside the lock each   *)
(* field is read and written on its own, as the machine does it: += is a   *)
(* load and a store.                                                       *)
(***************************************************************************)
EXTENDS Naturals, FiniteSets

CONSTANTS Traders, UPDATES   \* the threads, and the rounds of each one's loop

OrderAssumption ==
  /\ IsFiniteSet(Traders) /\ 0 \notin Traders
  /\ UPDATES \in Nat \ {0}

VARIABLES lock_kind,   \* "spin" or "mutex"
          flag,        \* atomic_flag, or the mutex: who holds it, 0 for nobody
          book, reg,   \* the struct, and the value each thread has loaded
          at, round,   \* where each thread is in which round of its loop
          spins        \* whether a thread's last test_and_set found the flag set

vars == <<lock_kind, flag, book, reg, at, round, spins>>

Init ==
  /\ lock_kind \in {"spin", "mutex"}
  /\ flag = 0
  /\ book = [bid_price |-> 0, price |-> 0, volume |-> 0, quantity |-> 0]
  /\ reg = [t \in Traders |-> 0]
  /\ at = [t \in Traders |-> "acquire"]
  /\ round = [t \in Traders |-> 1]
  /\ spins = [t \in Traders |-> FALSE]

Go(t, label) == at' = [at EXCEPT ![t] = label]

-----------------------------------------------------------------------------
\* test_and_set that finds the flag clear, or a lock of the mutex that succeeds
acquire(t) ==
  /\ at[t] = "acquire" /\ flag = 0
  /\ flag' = t
  /\ spins' = [spins EXCEPT ![t] = FALSE]
  /\ Go(t, "prices")
  /\ UNCHANGED <<lock_kind, book, reg, round>>

\* test_and_set that finds it set: the thread goes round.  On a mutex it sleeps.
lock_spin(t) ==
  /\ lock_kind = "spin"
  /\ at[t] = "acquire" /\ flag # 0
  /\ spins' = [spins EXCEPT ![t] = TRUE]
  /\ UNCHANGED <<lock_kind, flag, book, reg, at, round>>

\* bid_price and price (ask_price): the same in every update
SetPrices(t) ==
  /\ at[t] = "prices"
  /\ book' = [book EXCEPT !.bid_price = 100, !.price = 105]
  /\ Go(t, "load_volume")
  /\ UNCHANGED <<lock_kind, flag, reg, round, spins>>

Load(t, field, here, next) ==
  /\ at[t] = here
  /\ reg' = [reg EXCEPT ![t] = book[field]]
  /\ Go(t, next)
  /\ UNCHANGED <<lock_kind, flag, book, round, spins>>

Store(t, field, amount, here, next) ==
  /\ at[t] = here
  /\ book' = [book EXCEPT ![field] = reg[t] + amount]
  /\ Go(t, next)
  /\ UNCHANGED <<lock_kind, flag, reg, round, spins>>

release(t) ==
  /\ at[t] = "release"
  /\ flag' = 0
  /\ round' = [round EXCEPT ![t] = @ + 1]
  /\ Go(t, IF round[t] = UPDATES THEN "done" ELSE "acquire")
  /\ UNCHANGED <<lock_kind, book, reg, spins>>

updateOrder(t) ==
  \/ acquire(t) \/ lock_spin(t) \/ SetPrices(t)
  \/ Load(t, "volume", "load_volume", "store_volume")
  \/ Store(t, "volume", 1, "store_volume", "load_quantity")
  \/ Load(t, "quantity", "load_quantity", "store_quantity")
  \/ Store(t, "quantity", 5, "store_quantity", "release")
  \/ release(t)

Next == \E t \in Traders : updateOrder(t)

-----------------------------------------------------------------------------
Ended == \A t \in Traders : at[t] = "done"

Stored == {"load_quantity", "store_quantity", "release"}

\* The updates whose volume is stored: trader u[1] in its round u[2]
VolumeStored ==
  {u \in Traders \X (1 .. UPDATES) :
     u[2] < round[u[1]] \/ (u[2] = round[u[1]] /\ at[u[1]] \in Stored)}

\* Whoever looks at the book between two critical sections finds whole updates:
\* five units of quantity to one of volume, and no update is lost, so that the
\* totals main prints are those it expects.
UpdatesCounted ==
  /\ flag = 0 => book.quantity = 5 * book.volume
  /\ book.volume = Cardinality(VolumeStored)
  /\ Ended => book.volume = Cardinality(Traders) * UPDATES
=============================================================================
