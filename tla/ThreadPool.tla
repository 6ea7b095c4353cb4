----------------------------- MODULE ThreadPool -----------------------------
(***************************************************************************)
(* The thread pool of Day 34 (JobSystem.c): a ring of tasks under one      *)
(* mutex, workers that sleep on a condition variable while it is empty,    *)
(* and the life of a pool as main drives it: create the workers (any       *)
(* pthread_create may fail, and then the pool is destroyed at once), add   *)
(* NUM_TASKS tasks, destroy.  A section under pool->lock is one step; a    *)
(* task runs outside the lock and is a step of its own.                    *)
(***************************************************************************)
EXTENDS Naturals, Sequences, FiniteSets

CONSTANTS THREADS,        \* thread_count asked for
          CAPACITY,       \* slots in the ring
          NUM_TASKS,      \* the tasks main adds, one after the other
          None            \* an empty slot, or no task

ASSUME PoolAssumption ==
  /\ THREADS \in Nat \ {0} /\ CAPACITY \in Nat \ {0} /\ NUM_TASKS \in Nat
  /\ None \notin Nat

Workers == 1 .. THREADS
Tasks   == 1 .. NUM_TASKS
Slots   == 0 .. CAPACITY - 1

VARIABLES tasks, head, tail, count, shutdown,    \* the fields of the pool
          thread_count,
          worker,      \* where each worker thread is
          job,         \* the task a worker has copied to its stack
          main,        \* where main is
          added,       \* the tasks main has tried to add
          accepted,    \* history: the tasks threadpool_add took, in order
          taken,       \* history: how many of them workers have taken
          ran          \* history: how often each task has run

pool == <<tasks, head, tail, count, shutdown, thread_count>>
vars == <<pool, worker, job, main, added, accepted, taken, ran>>

Init ==
  /\ tasks = [s \in Slots |-> None]
  /\ head = 0 /\ tail = 0 /\ count = 0
  /\ shutdown = FALSE
  /\ thread_count = 0
  /\ worker = [w \in Workers |-> "none"]
  /\ job = [w \in Workers |-> None]
  /\ main = "create"
  /\ added = 0
  /\ accepted = <<>>
  /\ taken = 0
  /\ ran = [t \in Tasks |-> 0]

SetWorker(w, label) == worker' = [worker EXCEPT ![w] = label]
Waiting == {w \in Workers : worker[w] = "wait"}
-----------------------------------------------------------------------------
(* Slips: faulty forms of steps defined below; none is part of Next.        *)

TakeKeepsCount(w) ==                    \* count is not decremented
  /\ worker[w] = "check"
  /\ count > 0
  /\ job' = [job EXCEPT ![w] = tasks[head]]
  /\ head' = (head + 1) % CAPACITY
  /\ taken' = taken + 1
  /\ SetWorker(w, "run")
  /\ UNCHANGED <<tasks, tail, count, shutdown, thread_count, main, added, accepted, ran>>

ExitOnShutdown(w) ==                    \* leaves with tasks in the ring
  /\ worker[w] = "check"
  /\ shutdown
  /\ SetWorker(w, "exit")
  /\ UNCHANGED <<pool, job, main, added, accepted, taken, ran>>

SignalNobody ==                         \* threadpool_add does not signal
  UNCHANGED worker

-----------------------------------------------------------------------------
(* worker_thread *)

Wait(w) ==                              \* count == 0 && !shutdown
  /\ worker[w] = "check"
  /\ count = 0 /\ ~shutdown
  /\ SetWorker(w, "wait")
  /\ UNCHANGED <<pool, job, main, added, accepted, taken, ran>>

SpuriousWakeup(w) ==
  /\ worker[w] = "wait"
  /\ SetWorker(w, "check")
  /\ UNCHANGED <<pool, job, main, added, accepted, taken, ran>>

Exit(w) ==                              \* shutdown && count == 0
  /\ worker[w] = "check"
  /\ shutdown /\ count = 0
  /\ SetWorker(w, "exit")
  /\ UNCHANGED <<pool, job, main, added, accepted, taken, ran>>

Take(w) ==
  /\ worker[w] = "check"
  /\ count > 0
  /\ job' = [job EXCEPT ![w] = tasks[head]]
  /\ head' = (head + 1) % CAPACITY
  /\ count' = count - 1
  /\ taken' = taken + 1
  /\ SetWorker(w, "run")
  /\ UNCHANGED <<tasks, tail, shutdown, thread_count, main, added, accepted, ran>>

Run(w) ==                               \* task.func(task.args)
  /\ worker[w] = "run"
  /\ ran' = [ran EXCEPT ![job[w]] = @ + 1]
  /\ job' = [job EXCEPT ![w] = None]
  /\ SetWorker(w, "check")
  /\ UNCHANGED <<pool, main, added, accepted, taken>>

-----------------------------------------------------------------------------
(* threadpool_create, threadpool_add, threadpool_destroy, called by main    *)

CreateThread ==
  /\ main = "create" /\ thread_count < THREADS
  /\ thread_count' = thread_count + 1
  /\ SetWorker(thread_count + 1, "check")
  /\ UNCHANGED <<tasks, head, tail, count, shutdown, job, main, added, accepted, taken, ran>>

\* set shutdown and wake every worker
Shutdown ==
  /\ shutdown' = TRUE
  /\ worker' = [w \in Workers |-> IF w \in Waiting THEN "check" ELSE worker[w]]
  /\ main' = "join"
  /\ UNCHANGED <<tasks, head, tail, count, thread_count, job, added, accepted, taken, ran>>

CreateFails == main = "create" /\ thread_count < THREADS /\ Shutdown

Created ==
  /\ main = "create" /\ thread_count = THREADS
  /\ main' = "add"
  /\ UNCHANGED <<pool, worker, job, added, accepted, taken, ran>>

Signal ==                               \* pthread_cond_signal
  \/ Waiting = {} /\ UNCHANGED worker
  \/ \E w \in Waiting : SetWorker(w, "check")

Add ==
  /\ main = "add" /\ added < NUM_TASKS
  /\ count # CAPACITY /\ ~shutdown
  /\ tasks' = [tasks EXCEPT ![tail] = added + 1]
  /\ tail' = (tail + 1) % CAPACITY
  /\ count' = count + 1
  /\ Signal
  /\ accepted' = Append(accepted, added + 1)
  /\ added' = added + 1
  /\ UNCHANGED <<head, shutdown, thread_count, job, main, taken, ran>>

AddRefused ==                           \* -1: main drops the task
  /\ main = "add" /\ added < NUM_TASKS
  /\ count = CAPACITY \/ shutdown
  /\ added' = added + 1
  /\ UNCHANGED <<pool, worker, job, main, accepted, taken, ran>>

Destroy == main = "add" /\ added = NUM_TASKS /\ Shutdown

JoinAndFree ==                          \* the pool's memory is gone
  /\ main = "join"
  /\ \A w \in 1 .. thread_count : worker[w] = "exit"
  /\ main' = "freed"
  /\ UNCHANGED <<pool, worker, job, added, accepted, taken, ran>>

-----------------------------------------------------------------------------
Work(w) == Wait(w) \/ Exit(w) \/ Take(w) \/ Run(w)

MainStep ==
  CreateThread \/ CreateFails \/ Created \/ Add \/ AddRefused \/ Destroy \/ JoinAndFree

Next == MainStep \/ \E w \in Workers : Work(w) \/ SpuriousWakeup(w)

Spec == Init /\ [][Next]_vars

\* Threads that are not asleep run, and tasks return.
FairSpec == Spec /\ WF_vars(MainStep) /\ \A w \in Workers : WF_vars(Work(w))
-----------------------------------------------------------------------------
(* Properties *)

TypeOK ==
  /\ tasks \in [Slots -> Tasks \cup {None}]
  /\ head \in Slots /\ tail \in Slots /\ count \in 0 .. CAPACITY
  /\ shutdown \in BOOLEAN
  /\ thread_count \in 0 .. THREADS
  /\ worker \in [Workers -> {"none", "check", "wait", "run", "exit"}]
  /\ job \in [Workers -> Tasks \cup {None}]
  /\ main \in {"create", "add", "join", "freed"}
  /\ added \in 0 .. NUM_TASKS
  /\ accepted \in Seq(Tasks)
  /\ taken \in Nat
  /\ ran \in [Tasks -> Nat]

\* The ring holds the tasks accepted and not yet taken, oldest at head: no task is
\* overwritten, skipped or handed out twice while the indices go around.
RingIsFIFO ==
  /\ count = Len(accepted) - taken
  /\ tail = (head + count) % CAPACITY
  /\ \A i \in 1 .. count : tasks[(head + i - 1) % CAPACITY] = accepted[taken + i]

\* Every accepted task runs exactly once, and has run before the pool is freed:
\* "threadpool_destroy blocks until all queued work drains".
DrainedAtDestroy ==
  /\ \A t \in Tasks : ran[t] <= 1
  /\ main = "freed" =>
       /\ \A i \in DOMAIN accepted : ran[accepted[i]] = 1
       /\ \A w \in Workers : worker[w] \in {"none", "exit"}

\* While main adds tasks, a ring that is not empty has a worker awake to take from
\* it: a signal that finds no waiter is not missed by a worker about to wait.
NoTaskStranded ==
  main = "add" /\ count > 0 => \E w \in Workers : worker[w] \in {"check", "run"}
=============================================================================
