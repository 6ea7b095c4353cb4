------------------------ MODULE MCDeadlockDetection -------------------------
(***************************************************************************)
(* One model of the programs whose threads share state under locks or      *)
(* atomics.  Day 40: the lock wrapper driven by workers that nest three    *)
(* mutexes in crossing orders (DeadlockDetection), the C++ program with    *)
(* its ring of three workers (LockGraph), and the search for cycles on     *)
(* every small graph (CycleSearch).  Day 39: the order book (OrderBook).   *)
(* Day 32: the price ticker (PriceTracker).  A behaviour runs one of them; *)
(* the variables of the others stay put.                                   *)
(***************************************************************************)
EXTENDS DeadlockDetection

CONSTANTS t1, t2, t3, m1, m2, m3, Size, Traders, UPDATES, NUM_UPDATES, Candidates

VARIABLES program,
          native_mutex, adj_, line, stage, m1_acquired, printed,      \* LockGraph
          adj, root, visited, stack, calls, answer,                   \* CycleSearch
          lock_kind, flag, book, reg, at, round, spins,               \* OrderBook
          ticker, stop_flag, reader, seen, last_seq,
          best_price, current, result                                 \* PriceTracker

ThreadsOfMain == {t1, t2, t3}
MutexesOfMain == {m1, m2, m3}

\* Users of the wrapper: three mutexes deep, and two crossing orders.
DeepOrder ==
  [t \in ThreadsOfMain |->
     CASE t = t1 -> <<m1, m2, m3>> [] t = t2 -> <<m3, m2, m1>> [] t = t3 -> <<m2, m1>>]

Ring    == INSTANCE LockGraph WITH adj <- adj_, Nobody <- None
Search  == INSTANCE CycleSearch
Orders  == INSTANCE OrderBook
Prices  == INSTANCE PriceTracker

ASSUME SearchUsable == Search!SearchAssumption
ASSUME OrdersUsable == Orders!OrderAssumption
ASSUME PricesUsable == Prices!PriceAssumption

rvars   == <<native_mutex, adj_, line, stage, m1_acquired, printed>>
svars   == <<adj, root, visited, stack, calls, answer>>
ovars   == <<lock_kind, flag, book, reg, at, round, spins>>
pvars   == <<ticker, stop_flag, reader, seen, last_seq,
             best_price, current, result>>
allvars == <<program, vars, rvars, svars, ovars, pvars>>

Runs(p, A) == program = p /\ A /\ UNCHANGED program
Deep(A)      == Runs("deep", A) /\ UNCHANGED <<rvars, svars, ovars, pvars>>
OnRing(A)    == Runs("ring", A) /\ UNCHANGED <<vars, svars, ovars, pvars>>
Looking(A)   == Runs("search", A) /\ UNCHANGED <<vars, rvars, ovars, pvars>>
Trading(A)   == Runs("book", A) /\ UNCHANGED <<vars, rvars, svars, pvars>>
Ticking(A)   == Runs("ticker", A) /\ UNCHANGED <<vars, rvars, svars, ovars>>

MCInit ==
  /\ program \in {"deep", "ring", "search", "book", "ticker"}
  /\ Init /\ Ring!Init /\ Search!Init /\ Orders!Init /\ Prices!Init
  /\ program # "search" => adj = {}
  /\ program # "book" => lock_kind = "spin"

MCNext ==
  \/ Deep(Next) \/ OnRing(Ring!Next) \/ Looking(Search!detect_cycle)
  \/ Trading(Orders!Next) \/ Ticking(Prices!Next)

\* Every thread runs when it can.  A mutex that is released is given to a waiter; who
\* spins on the flag gets it at the latest when the others have made their updates.
MCFairness ==
  /\ \A t \in Threads : WF_allvars(Deep(Work(t)))
  /\ \A w \in Ring!Workers : WF_allvars(OnRing(Ring!worker(w)))
  /\ WF_allvars(Looking(Search!detect_cycle))
  /\ \A t \in Traders : WF_allvars(Trading(Orders!updateOrder(t) /\ ~Orders!lock_spin(t)))
  /\ WF_allvars(Ticking(Prices!writer_thread)) /\ WF_allvars(Ticking(Prices!reader_thread))
  /\ \A c \in Prices!Callers : WF_allvars(Ticking(Prices!update_if_higher(c)))

MCSpec == MCInit /\ [][MCNext]_allvars /\ MCFairness

-----------------------------------------------------------------------------
\* Day 40, C++: every step of the program is one of the wrapper's, so that each catch
\* block unlocks what its worker holds; and of the three workers at most one is refused,
\* at its second mutex.
RingImplementsDetection ==
  /\ Ring!ImplementsDetection
  /\ [][\A w \in Ring!Workers : Ring!Throw(w) => printed = {} /\ line[w] = "lock_inner"]_rvars

\* Days 39 and 32: no update of the book is lost or seen by half; what the reader loads
\* behind a sequence number is at least as new, and the best price only rises.
SharedStateWhole ==
  Orders!UpdatesCounted /\ Prices!NeverStale /\ Prices!BestIsHighest

\* Every program ends: workers return, whoever is refused; traders make their updates;
\* the reader stops; every candidate gets its answer, since a compare-and-swap that
\* fails has met a higher price.
AllReturn ==
  <>(CASE program = "deep"   -> AllReturned
       [] program = "ring"   -> Ring!Ended
       [] program = "book"   -> Orders!Ended
       [] program = "ticker" -> Prices!Ended
       [] program = "search" -> answer # "none")

\* The search answers "cycle" exactly for the graphs that have one.
SearchFindsExactlyCycles == Search!FindsExactlyCycles
=============================================================================
