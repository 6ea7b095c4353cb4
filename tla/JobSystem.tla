----------------------------- MODULE JobSystem ------------------------------
(***************************************************************************)
(* The job system of Day 34 in C++ (JobSystem.cpp): an unbounded queue of  *)
(* packaged tasks, workers that sleep until there is one or the pool       *)
(* stops, and a future per task.  The notify of enqueue and of the         *)
(* destructor comes after the lock is released and is a step of its own.   *)
(* A thread that cannot be started throws out of the constructor, whose    *)
(* unwinding destroys the joinable threads it has: std::terminate.  main   *)
(* enqueues NUM_TASKS tasks and gets their results; it may also leave the  *)
(* scope of the pool without waiting for them (SkipGets).                  *)
(***************************************************************************)
EXTENDS Naturals, Sequences, FiniteSets

CONSTANTS THREADS, NUM_TASKS, SkipGets

JobAssumption == THREADS \in Nat /\ NUM_TASKS \in Nat

Workers == 1 .. THREADS
Tasks   == 1 .. NUM_TASKS

VARIABLES tasks, stop,      \* members of the pool
          worker,           \* where each worker is
          task,             \* the task it has moved out of the queue, 0 for none
          main, enqueued, got,
          ready             \* how often the promise behind each future was set

pool == <<tasks, stop>>
vars == <<pool, worker, task, main, enqueued, got, ready>>

Init ==
  /\ tasks = <<>> /\ stop = FALSE
  /\ worker = [w \in Workers |-> "none"]
  /\ task = [w \in Workers |-> 0]
  /\ main = "construct" /\ enqueued = 0 /\ got = 0
  /\ ready = [k \in Tasks |-> 0]

SetWorker(w, label) == worker' = [worker EXCEPT ![w] = label]
Waiting == {w \in Workers : worker[w] = "wait"}

-----------------------------------------------------------------------------
(* The lambda of the constructor *)

Wait(w) ==
  /\ worker[w] = "check" /\ ~stop /\ tasks = <<>>
  /\ SetWorker(w, "wait")
  /\ UNCHANGED <<pool, task, main, enqueued, got, ready>>

Return(w) ==
  /\ worker[w] = "check" /\ stop /\ tasks = <<>>
  /\ SetWorker(w, "returned")
  /\ UNCHANGED <<pool, task, main, enqueued, got, ready>>

Take(w) ==
  /\ worker[w] = "check" /\ tasks # <<>>
  /\ task' = [task EXCEPT ![w] = Head(tasks)]
  /\ tasks' = Tail(tasks)
  /\ SetWorker(w, "run")
  /\ UNCHANGED <<stop, main, enqueued, got, ready>>

Run(w) ==
  /\ worker[w] = "run"
  /\ ready' = [ready EXCEPT ![task[w]] = @ + 1]
  /\ task' = [task EXCEPT ![w] = 0]
  /\ SetWorker(w, "check")
  /\ UNCHANGED <<pool, main, enqueued, got>>

Spurious(w) ==
  worker[w] = "wait" /\ SetWorker(w, "check") /\ UNCHANGED <<pool, task, main, enqueued, got, ready>>

Loop(w) == Wait(w) \/ Return(w) \/ Take(w) \/ Run(w)

-----------------------------------------------------------------------------
(* main, with the constructor, enqueue and the destructor *)

\* Workers start in order; those not started yet are "none".
Construct ==
  /\ main = "construct"
  /\ \E w \in Workers :
       /\ worker[w] = "none" /\ \A v \in 1 .. w - 1 : worker[v] # "none"
       /\ SetWorker(w, "check")
       /\ main' = IF w = THREADS THEN "enqueue" ELSE "construct"
  /\ UNCHANGED <<pool, task, enqueued, got, ready>>

ConstructThrows ==
  /\ main = "construct"
  /\ main' = "terminated"
  /\ UNCHANGED <<pool, worker, task, enqueued, got, ready>>

enqueue ==
  /\ main = "enqueue" /\ enqueued < NUM_TASKS
  /\ main' = IF stop THEN "terminated" ELSE "notify"     \* enqueue on stopped ThreadPool
  /\ tasks' = IF stop THEN tasks ELSE Append(tasks, enqueued + 1)
  /\ enqueued' = enqueued + 1
  /\ UNCHANGED <<stop, worker, task, got, ready>>

notify_one ==
  /\ main = "notify"
  /\ \/ Waiting = {} /\ UNCHANGED worker
     \/ \E w \in Waiting : SetWorker(w, "check")
  /\ main' = "enqueue"
  /\ UNCHANGED <<pool, task, enqueued, got, ready>>

get ==
  /\ main = "enqueue" /\ enqueued = NUM_TASKS /\ got < NUM_TASKS
  /\ ready[got + 1] > 0
  /\ got' = got + 1
  /\ UNCHANGED <<pool, worker, task, main, enqueued, ready>>

Stop ==
  /\ main = "enqueue" /\ enqueued = NUM_TASKS /\ (got = NUM_TASKS \/ SkipGets)
  /\ stop' = TRUE
  /\ main' = "notify_all"
  /\ UNCHANGED <<tasks, worker, task, enqueued, got, ready>>

notify_all ==
  /\ main = "notify_all"
  /\ worker' = [w \in Workers |-> IF w \in Waiting THEN "check" ELSE worker[w]]
  /\ main' = "join"
  /\ UNCHANGED <<pool, task, enqueued, got, ready>>

Join ==
  /\ main = "join" /\ \A w \in Workers : worker[w] = "returned"
  /\ main' = "returned"
  /\ UNCHANGED <<pool, worker, task, enqueued, got, ready>>

MainStep ==
  Construct \/ ConstructThrows \/ enqueue \/ notify_one \/ get \/ Stop \/ notify_all \/ Join

Next ==
  /\ main # "terminated"
  /\ MainStep \/ \E w \in Workers : Loop(w) \/ Spurious(w)

-----------------------------------------------------------------------------
Ended == main \in {"returned", "terminated"}

\* A task is in the queue, with one worker, or done with its promise set once, and
\* the destructor returns only when all are done: no future is left without a value.
FuturesKept ==
  /\ \A k \in 1 .. (IF main = "terminated" THEN 0 ELSE enqueued) :
       ready[k] + Cardinality({j \in DOMAIN tasks : tasks[j] = k})
         + Cardinality({w \in Workers : task[w] = k}) = 1
  /\ main = "returned" => \A k \in Tasks : ready[k] = 1
  /\ stop => main \in {"notify_all", "join", "returned"}
=============================================================================
