----------------------------- MODULE MarketPool -----------------------------
(***************************************************************************)
(* The market worker pool of Day 31: all ticks are there before the first  *)
(* worker starts, and each worker takes the next one under a mutex until   *)
(* there is none.  Starting a thread may fail.  MarketPool.c then joins    *)
(* those it has and returns 1; the constructor of MarketPool.cpp joins     *)
(* them and throws, and main returns 1.                                    *)
(***************************************************************************)
EXTENDS Naturals, FiniteSets

CONSTANTS NUM_WORKERS, TOTAL_TICKS

MarketAssumption == NUM_WORKERS \in Nat \ {0} /\ TOTAL_TICKS \in Nat

Workers == 1 .. NUM_WORKERS
Ticks   == 1 .. TOTAL_TICKS

VARIABLES current_tick,   \* ticks taken so far
          t,              \* the tick each worker has copied, 0 for none
          at,             \* where each worker is
          spawned, main, ret,
          processed       \* history: who printed each tick

vars == <<current_tick, t, at, spawned, main, ret, processed>>

Init ==
  /\ current_tick = 0
  /\ t = [w \in Workers |-> 0]
  /\ at = [w \in Workers |-> "none"]
  /\ spawned = 0 /\ main = "spawn" /\ ret = 0
  /\ processed = [k \in Ticks |-> {}]

-----------------------------------------------------------------------------
(* worker_func *)

TakeTick(w) ==
  /\ at[w] = "lock" /\ current_tick < TOTAL_TICKS
  /\ current_tick' = current_tick + 1
  /\ t' = [t EXCEPT ![w] = current_tick + 1]
  /\ at' = [at EXCEPT ![w] = "print"]
  /\ UNCHANGED <<spawned, main, ret, processed>>

NoWork(w) ==
  /\ at[w] = "lock" /\ current_tick >= TOTAL_TICKS
  /\ at' = [at EXCEPT ![w] = "done"]
  /\ UNCHANGED <<current_tick, t, spawned, main, ret, processed>>

PrintTick(w) ==
  /\ at[w] = "print"
  /\ processed' = [processed EXCEPT ![t[w]] = @ \cup {w}]
  /\ t' = [t EXCEPT ![w] = 0]
  /\ at' = [at EXCEPT ![w] = "lock"]
  /\ UNCHANGED <<current_tick, spawned, main, ret>>

worker_loop(w) == TakeTick(w) \/ NoWork(w) \/ PrintTick(w)

-----------------------------------------------------------------------------
(* main *)

Spawn ==
  /\ main = "spawn" /\ spawned < NUM_WORKERS
  /\ spawned' = spawned + 1
  /\ at' = [at EXCEPT ![spawned + 1] = "lock"]
  /\ UNCHANGED <<current_tick, t, main, ret, processed>>

SpawnFails ==
  /\ main = "spawn" /\ spawned < NUM_WORKERS
  /\ ret' = 1 /\ main' = "join"
  /\ UNCHANGED <<current_tick, t, at, spawned, processed>>

AllSpawned ==
  /\ main = "spawn" /\ spawned = NUM_WORKERS
  /\ main' = "join"
  /\ UNCHANGED <<current_tick, t, at, spawned, ret, processed>>

join_all ==
  /\ main = "join"
  /\ \A w \in 1 .. spawned : at[w] = "done"
  /\ main' = "returned"
  /\ UNCHANGED <<current_tick, t, at, spawned, ret, processed>>

MainStep == Spawn \/ SpawnFails \/ AllSpawned \/ join_all

Next == MainStep \/ \E w \in Workers : worker_loop(w)

-----------------------------------------------------------------------------
\* No tick is printed by two workers, none that was taken is dropped, and main does
\* not return before every tick is printed, however few workers could be started:
\* only a pool with no worker at all leaves them.
TicksOnce ==
  /\ \A k \in Ticks : Cardinality(processed[k]) + Cardinality({w \in Workers : t[w] = k})
                        = IF k <= current_tick THEN 1 ELSE 0
  /\ main = "returned" => \/ \A k \in Ticks : processed[k] # {}
                          \/ spawned = 0 /\ ret = 1
=============================================================================
