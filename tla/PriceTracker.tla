---------------------------- MODULE PriceTracker ----------------------------
(***************************************************************************)
(* The price ticker of Day 32 (AtomicPriceTracker.c and .cpp).  The writer *)
(* stores price and volume with relaxed order and then seq with release;   *)
(* the reader polls seq with acquire and then loads the two, relaxed.      *)
(* Each variable sees its own stores in order.  The release store comes    *)
(* after the payload before it, but the payload behind it may overtake it; *)
(* the acquire load comes before the payload loads behind it.              *)
(* Update i writes price i and volume i.  When both are joined,            *)
(* update_if_higher raises best_price by compare-and-swap; main calls it   *)
(* from one thread, here its callers run concurrently.                     *)
(***************************************************************************)
EXTENDS Naturals, FiniteSetsExt

CONSTANTS NUM_UPDATES, Candidates

PriceAssumption == NUM_UPDATES \in Nat /\ Candidates \subseteq Nat

\* Two callers offer each candidate: the code's list has one twice.
Callers == Candidates \X {1, 2}

VARIABLES ticker, stop_flag,    \* price, volume, seq
          reader, seen,         \* the reader and what it has loaded
          last_seq,
          best_price, current, result   \* update_if_higher

rd   == <<reader, seen, last_seq>>
cas  == <<best_price, current, result>>
vars == <<ticker, stop_flag, rd, cas>>

Payload == {"price", "volume"}

Init ==
  /\ ticker = [price |-> 0, volume |-> 0, seq |-> 0]
  /\ stop_flag = FALSE
  /\ reader = "poll" /\ seen = [price |-> 0, volume |-> 0, seq |-> 0]
  /\ last_seq = 0
  /\ best_price = 0
  /\ current = [c \in Callers |-> 0]
  /\ result = [c \in Callers |-> "load"]

-----------------------------------------------------------------------------
(* writer_thread *)

\* The next of the stores to one of the two fields
StorePayload ==
  /\ \E field \in Payload :
       ticker[field] < NUM_UPDATES /\ ticker' = [ticker EXCEPT ![field] = @ + 1]
  /\ UNCHANGED <<stop_flag, rd, cas>>

StoreSeq ==
  /\ ticker.seq < NUM_UPDATES
  /\ \A field \in Payload : ticker[field] > ticker.seq
  /\ ticker' = [ticker EXCEPT !.seq = @ + 1]
  /\ UNCHANGED <<stop_flag, rd, cas>>

SetStop ==
  /\ ticker.seq = NUM_UPDATES /\ ~stop_flag
  /\ stop_flag' = TRUE
  /\ UNCHANGED <<ticker, rd, cas>>

writer_thread == StorePayload \/ StoreSeq \/ SetStop

-----------------------------------------------------------------------------
(* reader_thread; reader names what it has still to load *)

TestStop ==
  /\ reader = "poll"
  /\ reader' = IF stop_flag THEN "done" ELSE "seq"
  /\ UNCHANGED <<ticker, stop_flag, seen, last_seq, cas>>

LoadSeq ==
  /\ reader = "seq"
  /\ seen' = [seen EXCEPT !.seq = ticker.seq]
  /\ reader' = IF ticker.seq # last_seq THEN "payload" ELSE "poll"
  /\ UNCHANGED <<ticker, stop_flag, last_seq, cas>>

LoadPayload ==
  /\ \/ reader = "payload" /\ \E field \in Payload :
          /\ seen' = [seen EXCEPT ![field] = ticker[field]]
          /\ reader' = CHOOSE other \in Payload : other # field
     \/ /\ reader \in Payload
        /\ seen' = [seen EXCEPT ![reader] = ticker[reader]]
        /\ reader' = "count"
  /\ UNCHANGED <<ticker, stop_flag, last_seq, cas>>

CountRead ==
  /\ reader = "count"
  /\ last_seq' = seen.seq
  /\ reader' = "poll"
  /\ UNCHANGED <<ticker, stop_flag, seen, cas>>

reader_thread == TestStop \/ LoadSeq \/ LoadPayload \/ CountRead

-----------------------------------------------------------------------------
(* update_if_higher, called by c with the candidate c[1] *)

Joined == stop_flag /\ reader = "done"          \* main's joins of writer and reader

LoadCurrent(c) ==
  /\ Joined /\ result[c] = "load"
  /\ current' = [current EXCEPT ![c] = best_price]
  /\ result' = [result EXCEPT ![c] = "loop"]
  /\ UNCHANGED <<ticker, stop_flag, rd, best_price>>

NotHigher(c) ==
  /\ result[c] = "loop" /\ c[1] <= current[c]
  /\ result' = [result EXCEPT ![c] = "no"]
  /\ UNCHANGED <<ticker, stop_flag, rd, best_price, current>>

\* Slip: a faulty form of CasSucceeds; not part of Next.
StoresUnchecked(c) ==                   \* a plain store behind the test
  /\ result[c] = "loop" /\ c[1] > current[c]
  /\ best_price' = c[1]
  /\ result' = [result EXCEPT ![c] = "yes"]
  /\ UNCHANGED <<ticker, stop_flag, rd, current>>

CasSucceeds(c) ==
  /\ result[c] = "loop" /\ c[1] > current[c]
  /\ best_price = current[c]
  /\ best_price' = c[1]
  /\ result' = [result EXCEPT ![c] = "yes"]
  /\ UNCHANGED <<ticker, stop_flag, rd, current>>

CasFails(c) ==                          \* current is refreshed
  /\ result[c] = "loop" /\ c[1] > current[c]
  /\ best_price # current[c]
  /\ current' = [current EXCEPT ![c] = best_price]
  /\ UNCHANGED <<ticker, stop_flag, rd, best_price, result>>

update_if_higher(c) == LoadCurrent(c) \/ NotHigher(c) \/ CasSucceeds(c) \/ CasFails(c)

Next == writer_thread \/ reader_thread \/ \E c \in Callers : update_if_higher(c)

\* The two threads without the demonstration that follows.
TickerOnly == Init /\ [][writer_thread \/ reader_thread]_vars

-----------------------------------------------------------------------------
Ended == reader = "done" /\ \A c \in Callers : result[c] \in {"yes", "no"}

\* The acquire load pays: what the reader has loaded behind seq is of that update or a
\* later one, and seq itself never goes back.
NeverStale ==
  /\ reader = "count" => seen.price >= seen.seq /\ seen.volume >= seen.seq
  /\ reader \in {"payload", "price", "volume", "count"} => seen.seq > last_seq

\* best_price is the highest candidate of those who were told yes, and whoever was told
\* no is not above it: no raise is overwritten by a lower one that raced with it.
BestIsHighest ==
  LET told(r) == {c[1] : c \in {x \in Callers : result[x] = r}}
  IN  /\ best_price = Max({0} \cup told("yes"))
      /\ \A p \in told("no") : p <= best_price

\* Readme: the reader "never catches one field mid-update relative to the other".
PairConsistent == reader = "count" => seen.price = seen.volume
=============================================================================
