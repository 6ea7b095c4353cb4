-------------------------- MODULE ThreadPoolProofs --------------------------
(***************************************************************************)
(* For any number of workers, ring slots and tasks: the ring hands out the *)
(* accepted tasks in order and each of them once, no accepted task has     *)
(* been left behind when the pool is freed, and a task in the ring always  *)
(* has a worker awake.                                                     *)
(*                                                                         *)
(* The argument: accepted tasks are distinct (Ordered).  The first taken   *)
(* of them are either running, in the hands of exactly one worker (Held),  *)
(* or have run once (Tally); the others are in the ring, in order          *)
(* (RingIsFIFO).  A worker leaves only after shutdown, with the ring       *)
(* empty, and nothing is added after shutdown (Lifecycle), so that a pool  *)
(* whose workers have all left has taken, and run, everything.             *)
(*                                                                         *)
(* The other programs of MCThreadPool follow, each with its own invariant  *)
(* that says where everything handed over is at any moment: actors, audio  *)
(* pipeline, market, job system, single actor, scripts, event loop.        *)
(***************************************************************************)
EXTENDS MCThreadPool, FiniteSetTheorems, RingArithmetic, SequenceTheorems, TLAPS

\* Which workers exist, when they may sleep and leave, and what main's progress
\* says about them.
Lifecycle ==
  /\ shutdown <=> main \in {"join", "freed"}
  /\ \A w \in Workers : worker[w] = "none" <=> w > thread_count
  /\ \A w \in Workers : worker[w] = "exit" => shutdown /\ count = 0
  /\ \A w \in Workers : worker[w] = "wait" => ~shutdown
  /\ main = "create" => accepted = <<>>
  /\ main = "add" \/ accepted # <<>> => thread_count = THREADS
  /\ main = "freed" => \A w \in Workers : worker[w] \in {"none", "exit"}

\* main adds 1, 2, 3, ...: the accepted ones are in increasing order.
Ordered ==
  /\ taken <= Len(accepted)
  /\ \A pos \in 1 .. Len(accepted) : accepted[pos] <= added
  /\ \A pos, j \in 1 .. Len(accepted) : pos < j => accepted[pos] < accepted[j]

IsTaken(t)   == \E k \in 1 .. taken : accepted[k] = t
IsRunning(t) == \E w \in Workers : worker[w] = "run" /\ job[w] = t

\* A running worker has a task that was taken, and has it alone.
Held ==
  \A w \in Workers : worker[w] = "run" =>
    /\ job[w] \in Tasks /\ IsTaken(job[w])
    /\ \A v \in Workers : worker[v] = "run" /\ job[v] = job[w] => v = w

\* A task has run once if it was taken and is not running, and never otherwise.
Tally ==
  \A t \in Tasks : ran[t] = IF IsTaken(t) /\ ~IsRunning(t) THEN 1 ELSE 0

Inv ==
  TypeOK /\ Lifecycle /\ RingIsFIFO /\ Ordered /\ Held /\ Tally /\ NoTaskStranded

-----------------------------------------------------------------------------
(* The slots of the ring, and what the history says *)

\* The parameters and the counters are numbers.
LEMMA Numbers ==
  ASSUME TypeOK
  PROVE  /\ CAPACITY \in Nat \ {0} /\ THREADS \in Nat \ {0} /\ NUM_TASKS \in Nat /\ None \notin Nat
         /\ head \in Nat /\ tail \in Nat /\ count \in Nat /\ added \in Nat /\ taken \in Nat
         /\ thread_count \in Nat /\ Len(accepted) \in Nat /\ head < CAPACITY
BY PoolAssumption DEF TypeOK, Slots

\* Positions counted from head fall into slots, and differ within a lap.
LEMMA SlotAt ==
  ASSUME TypeOK, NEW pos \in Nat
  PROVE  /\ (head + pos) % CAPACITY \in Slots
         /\ \A j \in Nat : pos < j /\ j < pos + CAPACITY =>
              (head + pos) % CAPACITY # (head + j) % CAPACITY
<1>1. /\ CAPACITY \in Nat \ {0} /\ head \in Nat /\ head + pos \in Nat
      /\ \A j \in Nat : head + j \in Nat
  BY Numbers
<1>2. (head + pos) % CAPACITY \in Slots
  BY <1>1, RemainderRange DEF Slots
<1>3. ASSUME NEW j \in Nat, pos < j, j < pos + CAPACITY,
             (head + pos) % CAPACITY = (head + j) % CAPACITY
      PROVE  FALSE
  <2>1. head + pos < (head + j) + CAPACITY /\ head + j < (head + pos) + CAPACITY
        /\ head + pos # head + j
    BY <1>1, <1>3
  <2> QED
    BY <1>1, <1>3, <2>1, SameRemainder
<1> QED
  BY <1>2, <1>3

\* Each accepted task has one place in the history.
LEMMA Distinct ==
  ASSUME TypeOK, Ordered, NEW pos \in 1 .. Len(accepted), NEW j \in 1 .. Len(accepted),
         accepted[pos] = accepted[j]
  PROVE  pos = j
<1>1. accepted[pos] \in Nat /\ accepted[j] \in Nat
  <2>1. accepted \in Seq(Tasks)
    BY DEF TypeOK
  <2>2. accepted[pos] \in Tasks /\ accepted[j] \in Tasks
    BY <2>1, ElementOfSeq
  <2> QED
    BY <2>2, Numbers DEF Tasks
<1>2. pos < j \/ j < pos \/ pos = j
  OBVIOUS
<1> QED
  BY <1>1, <1>2 DEF Ordered

\* The next task is at head: it has not been taken before, hence has not run.
LEMMA NextTask ==
  ASSUME Inv, count > 0
  PROVE  /\ tasks[head] = accepted[taken + 1] /\ tasks[head] \in Tasks
         /\ taken + 1 \in 1 .. Len(accepted)
         /\ ~IsTaken(tasks[head])
<1>1. TypeOK /\ RingIsFIFO /\ Ordered
  BY DEF Inv
<1>2. /\ CAPACITY \in Nat \ {0} /\ head \in Nat /\ head < CAPACITY /\ count \in Nat
      /\ taken \in Nat /\ Len(accepted) \in Nat
  BY <1>1, Numbers
<1>3. taken + 1 \in 1 .. Len(accepted)
  BY <1>1, <1>2 DEF RingIsFIFO
<1>4. (head + 1 - 1) % CAPACITY = head /\ 1 \in 1 .. count
  BY <1>2
<1>5. tasks[head] = accepted[taken + 1]
  <2>1. tasks[(head + 1 - 1) % CAPACITY] = accepted[taken + 1]
    BY <1>1, <1>4 DEF RingIsFIFO
  <2> QED
    BY <1>4, <2>1
<1>6. accepted[taken + 1] \in Tasks
  BY <1>1, <1>3, ElementOfSeq DEF TypeOK
<1>7. ASSUME NEW k \in 1 .. taken PROVE accepted[k] # accepted[taken + 1]
  <2>1. k \in 1 .. Len(accepted) /\ k # taken + 1
    BY <1>2, <1>3
  <2> QED
    BY <1>1, <1>3, <2>1, Distinct
<1> QED
  BY <1>3, <1>5, <1>6, <1>7 DEF IsTaken

-----------------------------------------------------------------------------
(* Typing *)

\* Signal wakes at most one waiter and touches nobody else.
LEMMA SignalWakes ==
  ASSUME TypeOK, Signal
  PROVE  /\ worker' \in [Workers -> {"none", "check", "wait", "run", "exit"}]
         /\ \A w \in Workers : worker'[w] = worker[w] \/ (worker[w] = "wait" /\ worker'[w] = "check")
         /\ Waiting # {} => \E w \in Workers : worker'[w] = "check"
BY DEF Signal, Waiting, SetWorker, TypeOK

\* Moving an index, and the counters, within their types.
LEMMA Moves ==
  ASSUME TypeOK
  PROVE  /\ (head + 1) % CAPACITY \in Slots /\ (tail + 1) % CAPACITY \in Slots
         /\ count < CAPACITY => count + 1 \in 0 .. CAPACITY
         /\ count > 0 => count - 1 \in 0 .. CAPACITY
         /\ added < NUM_TASKS => added + 1 \in 0 .. NUM_TASKS /\ added + 1 \in Tasks
         /\ thread_count < THREADS =>
              thread_count + 1 \in 0 .. THREADS /\ thread_count + 1 \in Workers
<1>1. CAPACITY \in Nat \ {0} /\ head + 1 \in Nat /\ tail + 1 \in Nat
  BY Numbers
<1>2. (head + 1) % CAPACITY \in Slots /\ (tail + 1) % CAPACITY \in Slots
  BY <1>1, RemainderRange DEF Slots
<1>3. /\ count \in 0 .. CAPACITY /\ added \in 0 .. NUM_TASKS /\ thread_count \in 0 .. THREADS
      /\ NUM_TASKS \in Nat /\ THREADS \in Nat
  BY Numbers DEF TypeOK
<1> QED
  BY <1>1, <1>2, <1>3 DEF Tasks, Workers

\* The variables keep their types.
LEMMA TypeStep == Inv /\ [Next]_vars => TypeOK'
<1> SUFFICES ASSUME Inv, [Next]_vars PROVE TypeOK'
  OBVIOUS
<1>0. TypeOK
  BY DEF Inv
<1>1. CASE CreateThread
  <2>1. thread_count' \in 0 .. THREADS /\ thread_count + 1 \in Workers
    BY <1>0, <1>1, Moves DEF CreateThread
  <2> QED
    BY <1>0, <1>1, <2>1 DEF CreateThread, SetWorker, TypeOK
<1>2. CASE Shutdown
  BY <1>0, <1>2 DEF Shutdown, TypeOK
<1>3. CASE Created
  BY <1>0, <1>3 DEF Created, pool, TypeOK
<1>4. CASE Add
  <2>1. added' \in 0 .. NUM_TASKS /\ added + 1 \in Tasks /\ tail' \in Slots
    BY <1>0, <1>4, Moves DEF Add
  <2>2. count' \in 0 .. CAPACITY
    <3>1. count \in 0 .. CAPACITY /\ count # CAPACITY /\ CAPACITY \in Nat /\ count' = count + 1
      BY <1>0, <1>4, Numbers DEF Add, TypeOK
    <3> QED
      BY <3>1
  <2>3. tasks' \in [Slots -> Tasks \cup {None}]
    BY <1>0, <1>4, <2>1 DEF Add, TypeOK
  <2>4. accepted' \in Seq(Tasks)
    BY <1>0, <1>4, <2>1, AppendProperties DEF Add, TypeOK
  <2>5. worker' \in [Workers -> {"none", "check", "wait", "run", "exit"}]
    BY <1>0, <1>4, SignalWakes DEF Add
  <2> QED
    BY <1>0, <1>4, <2>1, <2>2, <2>3, <2>4, <2>5 DEF Add, TypeOK
<1>5. CASE AddRefused
  <2>1. added' \in 0 .. NUM_TASKS
    BY <1>0, <1>5, Moves DEF AddRefused
  <2> QED
    BY <1>0, <1>5, <2>1 DEF AddRefused, pool, TypeOK
<1>6. CASE JoinAndFree
  BY <1>0, <1>6 DEF JoinAndFree, pool, TypeOK
<1>7. ASSUME NEW w \in Workers, Wait(w) \/ SpuriousWakeup(w) \/ Exit(w) PROVE TypeOK'
  BY <1>0, <1>7 DEF Wait, SpuriousWakeup, Exit, SetWorker, pool, TypeOK
<1>8. ASSUME NEW w \in Workers, Take(w) PROVE TypeOK'
  <2>1. head' \in Slots /\ count' \in 0 .. CAPACITY
    BY <1>0, <1>8, Moves DEF Take
  <2>2. job' \in [Workers -> Tasks \cup {None}]
    BY <1>0, <1>8 DEF Take, TypeOK
  <2>3. taken' \in Nat
    BY <1>0, <1>8, Numbers DEF Take
  <2> QED
    BY <1>0, <1>8, <2>1, <2>2, <2>3 DEF Take, SetWorker, TypeOK
<1>9. ASSUME NEW w \in Workers, Run(w) PROVE TypeOK'
  <2>1. job[w] \in Tasks
    BY <1>9 DEF Run, Inv, Held
  <2>2. ran' \in [Tasks -> Nat]
    BY <1>0, <1>9, <2>1 DEF Run, TypeOK
  <2> QED
    BY <1>0, <1>9, <2>2 DEF Run, SetWorker, pool, TypeOK
<1>10. CASE UNCHANGED vars
  BY <1>0, <1>10 DEF vars, pool, TypeOK
<1> QED
  BY <1>1, <1>2, <1>3, <1>4, <1>5, <1>6, <1>7, <1>8, <1>9, <1>10
  DEF Next, MainStep, CreateFails, Destroy, Work

-----------------------------------------------------------------------------
(* The life of the pool *)

\* Workers exist from their creation to their exit, nobody sleeps through the
\* shutdown, and nobody leaves before the ring is empty.
LEMMA LifecycleStep == Inv /\ [Next]_vars => Lifecycle'
<1> SUFFICES ASSUME Inv, [Next]_vars PROVE Lifecycle'
  OBVIOUS
<1>0. /\ TypeOK /\ Lifecycle
      /\ CAPACITY \in Nat \ {0} /\ THREADS \in Nat \ {0} /\ thread_count \in Nat /\ count \in Nat
      /\ worker \in [Workers -> {"none", "check", "wait", "run", "exit"}]
      /\ \A w \in Workers : w \in Nat
      /\ main \in {"create", "add", "join", "freed"} /\ shutdown \in BOOLEAN
  BY Numbers DEF Inv, TypeOK, Workers
<1>1. CASE CreateThread
  <2>1. /\ thread_count + 1 \in Workers /\ thread_count' = thread_count + 1
        /\ worker'[thread_count + 1] = "check"
        /\ \A w \in Workers : w # thread_count + 1 => worker'[w] = worker[w]
        /\ UNCHANGED <<main, shutdown, count, accepted>>
        /\ main = "create"
    BY <1>0, <1>1, Moves DEF CreateThread, SetWorker
  <2> QED
    BY <1>0, <2>1 DEF Lifecycle
<1>2. CASE Shutdown /\ main \in {"create", "add"}
  BY <1>0, <1>2 DEF Shutdown, Waiting, Lifecycle
<1>3. CASE Created
  BY <1>0, <1>3 DEF Created, pool, Lifecycle
<1>4. CASE Add
  <2>1. /\ ~shutdown /\ main = "add" /\ main' = main /\ shutdown' = shutdown
        /\ thread_count' = thread_count /\ thread_count = THREADS
        /\ \A w \in Workers : worker'[w] = worker[w] \/ (worker[w] = "wait" /\ worker'[w] = "check")
    BY <1>0, <1>4, SignalWakes DEF Add, Lifecycle
  <2> QED
    BY <1>0, <2>1 DEF Lifecycle
<1>5. CASE AddRefused
  BY <1>0, <1>5 DEF AddRefused, pool, Lifecycle
<1>6. CASE JoinAndFree
  <2>1. \A w \in Workers : worker[w] \in {"none", "exit"}
    BY <1>0, <1>6 DEF JoinAndFree, Lifecycle, Workers
  <2> QED
    BY <1>0, <1>6, <2>1 DEF JoinAndFree, pool, Lifecycle
<1>7. ASSUME NEW w \in Workers, Wait(w) \/ SpuriousWakeup(w) \/ Exit(w) PROVE Lifecycle'
  BY <1>0, <1>7 DEF Wait, SpuriousWakeup, Exit, SetWorker, pool, Lifecycle
<1>8. ASSUME NEW w \in Workers, Take(w) PROVE Lifecycle'
  BY <1>0, <1>8 DEF Take, SetWorker, Lifecycle
<1>9. ASSUME NEW w \in Workers, Run(w) PROVE Lifecycle'
  BY <1>0, <1>9 DEF Run, SetWorker, pool, Lifecycle
<1>10. CASE UNCHANGED vars
  BY <1>0, <1>10 DEF vars, pool, Lifecycle
<1> QED
  BY <1>1, <1>2, <1>3, <1>4, <1>5, <1>6, <1>7, <1>8, <1>9, <1>10
  DEF Next, MainStep, CreateFails, Destroy, Work

\* A worker is awake for the tasks in the ring: a signal that finds nobody waiting
\* finds everybody awake, since with the ring not empty nobody goes to sleep.
LEMMA AwakeStep == Inv /\ [Next]_vars => NoTaskStranded'
<1> SUFFICES ASSUME Inv, [Next]_vars, main' = "add", count' > 0
             PROVE  \E w \in Workers : worker'[w] \in {"check", "run"}
  BY DEF NoTaskStranded
<1>0. /\ TypeOK /\ Lifecycle /\ NoTaskStranded
      /\ worker \in [Workers -> {"none", "check", "wait", "run", "exit"}]
      /\ count \in Nat
  BY Numbers DEF Inv, TypeOK
<1>1. CASE CreateThread \/ Shutdown \/ JoinAndFree
  BY <1>1 DEF CreateThread, Shutdown, JoinAndFree
<1>2. CASE Created
  <2>1. accepted = <<>> /\ count = Len(accepted) - taken /\ taken \in Nat
    BY <1>0, <1>2, Numbers DEF Created, Inv, Lifecycle, RingIsFIFO
  <2>2. count = 0
    BY <1>0, <2>1
  <2> QED
    BY <1>2, <2>2 DEF Created, pool
<1>3. CASE Add
  <2>1. CASE Waiting # {}
    BY <1>0, <1>3, <2>1, SignalWakes DEF Add
  <2>2. CASE Waiting = {}
    <3>1. 1 \in Workers /\ ~(1 > thread_count)
      BY <1>0, <1>3, Numbers DEF Add, Workers, Lifecycle
    <3>2. worker[1] \notin {"none", "wait", "exit"}
      BY <1>0, <1>3, <2>2, <3>1 DEF Add, Waiting, Lifecycle
    <3>3. worker'[1] = worker[1]
      BY <1>0, <1>3, <3>1, <3>2, SignalWakes DEF Add
    <3> QED
      BY <1>0, <3>1, <3>2, <3>3
  <2> QED
    BY <2>1, <2>2
<1>4. CASE AddRefused \/ UNCHANGED vars
  BY <1>0, <1>4 DEF AddRefused, vars, pool, NoTaskStranded
<1>5. ASSUME NEW w \in Workers, Wait(w) \/ Exit(w) PROVE FALSE
  BY <1>0, <1>5 DEF Wait, Exit, pool, Lifecycle
<1>6. ASSUME NEW w \in Workers, SpuriousWakeup(w) \/ Take(w) \/ Run(w)
      PROVE  worker'[w] \in {"check", "run"}
  BY <1>0, <1>6 DEF SpuriousWakeup, Take, Run, SetWorker
<1> QED
  BY <1>1, <1>2, <1>3, <1>4, <1>5, <1>6 DEF Next, MainStep, CreateFails, Destroy, Work

-----------------------------------------------------------------------------
(* The ring and the history of accepted tasks *)

\* What threadpool_add and the worker's removal do to the ring; no other step
\* touches it.
LEMMA RingUntouched ==
  ASSUME TypeOK, [Next]_vars
  PROVE  \/ Add
         \/ \E w \in Workers : Take(w)
         \/ UNCHANGED <<tasks, head, tail, count, accepted, taken>> /\ added' \in {added, added + 1}
<1>1. CASE CreateThread \/ Shutdown \/ Created \/ AddRefused \/ JoinAndFree \/ UNCHANGED vars
  BY <1>1 DEF CreateThread, Shutdown, Created, AddRefused, JoinAndFree, vars, pool
<1>2. ASSUME NEW w \in Workers, Wait(w) \/ SpuriousWakeup(w) \/ Exit(w) \/ Run(w)
      PROVE  UNCHANGED <<tasks, head, tail, count, accepted, taken, added>>
  BY <1>2 DEF Wait, SpuriousWakeup, Exit, Run, pool
<1> QED
  BY <1>1, <1>2 DEF Next, MainStep, CreateFails, Destroy, Work

\* Accepting appends a larger number; taking stays within what was accepted.
LEMMA OrderedStep == Inv /\ [Next]_vars => Ordered'
<1> SUFFICES ASSUME Inv, [Next]_vars PROVE Ordered'
  OBVIOUS
<1> DEFINE n == Len(accepted)
<1>0. /\ TypeOK /\ Ordered /\ accepted \in Seq(Tasks) /\ n \in Nat
      /\ added \in Nat /\ taken \in Nat /\ count \in Nat /\ count = n - taken
      /\ \A pos \in 1 .. n : accepted[pos] \in Nat
  <2>1. TypeOK /\ Ordered /\ accepted \in Seq(Tasks) /\ count = n - taken
    BY DEF Inv, TypeOK, RingIsFIFO
  <2>2. \A pos \in 1 .. n : accepted[pos] \in Tasks
    BY <2>1, ElementOfSeq
  <2> QED
    BY <2>1, <2>2, Numbers DEF Tasks
<1>1. CASE Add
  <2>1. added + 1 \in Tasks /\ accepted' = Append(accepted, added + 1)
        /\ taken' = taken /\ added' = added + 1
    BY <1>0, <1>1, Moves DEF Add
  <2>2. /\ Len(accepted') = n + 1 /\ accepted'[n + 1] = added + 1
        /\ \A pos \in 1 .. n : accepted'[pos] = accepted[pos]
    BY <1>0, <2>1, AppendProperties
  <2> HIDE DEF n
  <2>3. \A pos \in 1 .. n : accepted[pos] <= added
    BY <1>0 DEF Ordered, n
  <2>4. \A pos, j \in 1 .. n : pos < j => accepted[pos] < accepted[j]
    BY <1>0 DEF Ordered, n
  <2>5. taken' <= Len(accepted')
    BY <1>0, <2>1, <2>2
  <2>6. \A pos \in 1 .. n + 1 : accepted'[pos] <= added'
    BY <1>0, <2>1, <2>2, <2>3
  <2>7. ASSUME NEW pos \in 1 .. n + 1, NEW j \in 1 .. n + 1, pos < j
        PROVE  accepted'[pos] < accepted'[j]
    <3>1. pos \in 1 .. n
      BY <1>0, <2>7
    <3>2. CASE j \in 1 .. n
      BY <2>2, <2>4, <2>7, <3>1, <3>2
    <3>3. CASE j = n + 1
      BY <1>0, <2>2, <2>3, <3>1, <3>3
    <3> QED
      BY <1>0, <3>2, <3>3
  <2> QED
    BY <2>2, <2>5, <2>6, <2>7 DEF Ordered
<1>2. ASSUME NEW w \in Workers, Take(w) PROVE Ordered'
  <2>1. /\ UNCHANGED <<accepted, added>> /\ taken' = taken + 1 /\ count > 0
    BY <1>2 DEF Take
  <2> QED
    BY <1>0, <2>1 DEF Ordered
<1>3. CASE UNCHANGED <<accepted, taken>> /\ added' \in {added, added + 1}
  BY <1>0, <1>3 DEF Ordered
<1> QED
  BY <1>0, <1>1, <1>2, <1>3, RingUntouched

\* The ring stays the queue of the accepted tasks not yet taken: the slot at tail is
\* outside the tasks it holds, and head moves over the one handed out.
LEMMA RingStep == Inv /\ [Next]_vars => RingIsFIFO'
<1> SUFFICES ASSUME Inv, [Next]_vars PROVE RingIsFIFO'
  OBVIOUS
<1> DEFINE n == Len(accepted)
           At(pos) == (head + pos - 1) % CAPACITY
<1>0. /\ TypeOK /\ CAPACITY \in Nat \ {0} /\ head \in Nat /\ tail \in Nat /\ count \in Nat
      /\ taken \in Nat /\ n \in Nat /\ added \in Nat
      /\ accepted \in Seq(Tasks) /\ tasks \in [Slots -> Tasks \cup {None}]
  BY Numbers DEF Inv, TypeOK
<1>1. /\ count = n - taken /\ tail = (head + count) % CAPACITY
      /\ \A pos \in 1 .. count : tasks[At(pos)] = accepted[taken + pos]
  BY DEF Inv, RingIsFIFO
<1>2. CASE Add
  <2>1. /\ added + 1 \in Tasks /\ accepted' = Append(accepted, added + 1)
        /\ taken' = taken /\ head' = head /\ count' = count + 1
        /\ tail' = (tail + 1) % CAPACITY /\ tasks' = [tasks EXCEPT ![tail] = added + 1]
        /\ count < CAPACITY
    <3>1. count \in 0 .. CAPACITY /\ count # CAPACITY
      BY <1>0, <1>2 DEF Add, TypeOK
    <3> QED
      BY <1>0, <1>2, <3>1, Moves DEF Add
  <2>2. /\ Len(accepted') = n + 1 /\ accepted'[n + 1] = added + 1
        /\ \A pos \in 1 .. n : accepted'[pos] = accepted[pos]
    BY <1>0, <2>1, AppendProperties
  <2>3. tail' = (head + count') % CAPACITY
    <3>1. head + count \in Nat /\ (head + count) + 1 = head + (count + 1)
      BY <1>0
    <3>2. (((head + count) % CAPACITY) + 1) % CAPACITY = ((head + count) + 1) % CAPACITY
      BY <1>0, <3>1, RemainderOfSum
    <3> QED
      BY <1>1, <2>1, <3>1, <3>2
  <2>4. ASSUME NEW pos \in 1 .. count + 1 PROVE tasks'[At(pos)] = accepted'[taken + pos]
    <3>1. pos - 1 \in Nat /\ At(pos) = (head + (pos - 1)) % CAPACITY
      BY <1>0
    <3>2. At(pos) \in Slots
      BY <1>0, <3>1, SlotAt
    <3>3. CASE pos = count + 1
      <4>1. At(pos) = tail /\ taken + pos = n + 1
        BY <1>0, <1>1, <3>1, <3>3
      <4> QED
        BY <1>0, <2>1, <2>2, <3>2, <4>1
    <3>4. CASE pos \in 1 .. count
      <4>1. At(pos) # tail
        <5>1. pos - 1 < count /\ count < (pos - 1) + CAPACITY
          BY <1>0, <2>1, <3>4
        <5> QED
          BY <1>0, <1>1, <3>1, <5>1, SlotAt
      <4>2. tasks'[At(pos)] = tasks[At(pos)]
        BY <1>0, <2>1, <3>2, <4>1
      <4>3. taken + pos \in 1 .. n
        BY <1>0, <1>1, <3>4
      <4> QED
        BY <1>1, <2>2, <3>4, <4>2, <4>3
    <3> QED
      BY <1>0, <3>3, <3>4
  <2>5. count' = Len(accepted') - taken'
    BY <1>0, <1>1, <2>1, <2>2
  <2> QED
    BY <2>1, <2>3, <2>4, <2>5 DEF RingIsFIFO
<1>3. ASSUME NEW w \in Workers, Take(w) PROVE RingIsFIFO'
  <2>1. /\ head' = (head + 1) % CAPACITY /\ count' = count - 1 /\ taken' = taken + 1
        /\ UNCHANGED <<tasks, tail, accepted>> /\ count > 0
    BY <1>3 DEF Take
  <2>2. \A k \in Nat : (head' + k) % CAPACITY = ((head + 1) + k) % CAPACITY
    <3>1. head + 1 \in Nat
      BY <1>0
    <3> QED
      BY <1>0, <2>1, <3>1, RemainderOfSum
  <2>3. tail' = (head' + count') % CAPACITY
    <3>1. count' \in Nat /\ (head + 1) + count' = head + count
      BY <1>0, <2>1
    <3> QED
      BY <1>1, <2>1, <2>2, <3>1
  <2>4. ASSUME NEW pos \in 1 .. count - 1
        PROVE  tasks[(head' + pos - 1) % CAPACITY] = accepted[(taken + 1) + pos]
    <3>1. pos - 1 \in Nat /\ pos + 1 \in 1 .. count /\ taken + (pos + 1) = (taken + 1) + pos
      BY <1>0, <2>1
    <3>2. head' \in Nat
      BY <1>0, <2>1, RemainderRange
    <3>3. head' + pos - 1 = head' + (pos - 1) /\ (head + 1) + (pos - 1) = head + (pos + 1) - 1
      BY <1>0, <3>2
    <3>4. (head' + pos - 1) % CAPACITY = At(pos + 1)
      BY <2>2, <3>1, <3>3
    <3>5. tasks[At(pos + 1)] = accepted[taken + (pos + 1)]
      BY <1>1, <3>1
    <3> QED
      BY <3>1, <3>4, <3>5
  <2>5. count' = Len(accepted') - taken'
    BY <1>0, <1>1, <2>1
  <2> QED
    BY <2>1, <2>3, <2>4, <2>5 DEF RingIsFIFO
<1>4. CASE UNCHANGED <<tasks, head, tail, count, accepted, taken>>
  BY <1>1, <1>4 DEF RingIsFIFO
<1> QED
  BY <1>0, <1>2, <1>3, <1>4, RingUntouched

-----------------------------------------------------------------------------
(* Who has which task *)

\* Only taking and running a task change what has been taken, who runs what, and
\* what has run: adding a task, waking and leaving do not.
LEMMA HandsUntouched ==
  ASSUME TypeOK, Lifecycle, Ordered, [Next]_vars
  PROVE  \/ \E w \in Workers : Take(w) \/ Run(w)
         \/ /\ UNCHANGED <<job, ran, taken>>
            /\ \A k \in 1 .. taken : accepted'[k] = accepted[k]
            /\ \A w \in Workers : worker'[w] = "run" <=> worker[w] = "run"
<1>0. /\ worker \in [Workers -> {"none", "check", "wait", "run", "exit"}]
      /\ taken \in Nat /\ Len(accepted) \in Nat /\ taken <= Len(accepted)
      /\ accepted \in Seq(Tasks)
  BY Numbers DEF TypeOK, Ordered
<1>1. CASE CreateThread
  <2>1. UNCHANGED <<job, ran, taken, accepted>>
    BY <1>1 DEF CreateThread
  <2>2. \A w \in Workers : worker'[w] = "run" => worker[w] = "run"
    BY <1>0, <1>1 DEF CreateThread, SetWorker
  <2>3. worker[thread_count + 1] # "run"
    BY <1>0, <1>1, Moves, Numbers DEF CreateThread, Lifecycle
  <2> QED
    BY <1>0, <1>1, <2>1, <2>2, <2>3 DEF CreateThread, SetWorker
<1>2. CASE Shutdown
  BY <1>0, <1>2 DEF Shutdown, Waiting
<1>3. CASE Created \/ AddRefused \/ JoinAndFree \/ UNCHANGED vars
  BY <1>0, <1>3 DEF Created, AddRefused, JoinAndFree, vars
<1>4. CASE Add
  <2>1. UNCHANGED <<job, ran, taken>> /\ accepted' = Append(accepted, added + 1)
        /\ added + 1 \in Tasks
    BY <1>4, Moves DEF Add
  <2>2. \A k \in 1 .. taken : accepted'[k] = accepted[k]
    BY <1>0, <2>1, AppendProperties
  <2>3. \A w \in Workers : worker'[w] = "run" <=> worker[w] = "run"
    BY <1>0, <1>4, SignalWakes DEF Add
  <2> QED
    BY <2>1, <2>2, <2>3
<1>5. ASSUME NEW w \in Workers, Wait(w) \/ SpuriousWakeup(w) \/ Exit(w)
      PROVE  /\ UNCHANGED <<job, ran, taken, accepted>>
             /\ \A v \in Workers : worker'[v] = "run" <=> worker[v] = "run"
  BY <1>0, <1>5 DEF Wait, SpuriousWakeup, Exit, SetWorker
<1> QED
  BY <1>1, <1>2, <1>3, <1>4, <1>5 DEF Next, MainStep, CreateFails, Destroy, Work

\* A taken task is in one worker's hands until it has run, and it runs once.
LEMMA HandsStep == Inv /\ [Next]_vars => Held' /\ Tally'
<1> SUFFICES ASSUME Inv, [Next]_vars PROVE Held' /\ Tally'
  OBVIOUS
<1>0. /\ TypeOK /\ Lifecycle /\ Ordered /\ Held /\ Tally
      /\ worker \in [Workers -> {"none", "check", "wait", "run", "exit"}]
      /\ job \in [Workers -> Tasks \cup {None}] /\ ran \in [Tasks -> Nat]
      /\ taken \in Nat /\ None \notin Tasks
  <2>1. TypeOK /\ Lifecycle /\ Ordered /\ Held /\ Tally
    BY DEF Inv
  <2>2. None \notin Tasks /\ taken \in Nat
    BY <2>1, Numbers DEF Tasks
  <2> QED BY <2>1, <2>2 DEF TypeOK
<1>1. ASSUME NEW w \in Workers, Take(w) PROVE Held' /\ Tally'
  <2> DEFINE t0 == tasks[head]
  <2>1. /\ t0 \in Tasks /\ t0 = accepted[taken + 1] /\ ~IsTaken(t0)
        /\ taken' = taken + 1 /\ accepted' = accepted /\ ran' = ran
        /\ worker[w] # "run" /\ worker'[w] = "run" /\ job'[w] = t0
        /\ \A v \in Workers : v # w => worker'[v] = worker[v] /\ job'[v] = job[v]
    BY <1>0, <1>1, NextTask DEF Take, SetWorker
  <2> HIDE DEF t0
  <2>2. \A t \in Tasks : IsTaken(t)' <=> (IsTaken(t) \/ t = t0)
    <3>1. \A k \in 1 .. taken + 1 : k \in 1 .. taken \/ k = taken + 1
      BY <1>0
    <3>2. \A k \in 1 .. taken : k \in 1 .. taken + 1
      BY <1>0
    <3>3. taken + 1 \in 1 .. taken + 1
      BY <1>0
    <3> QED
      BY <2>1, <3>1, <3>2, <3>3 DEF IsTaken
  <2>3. ~IsRunning(t0)
    BY <1>0, <2>1 DEF IsRunning, Held
  <2>4. \A t \in Tasks : IsRunning(t)' <=> (IsRunning(t) \/ t = t0)
    BY <2>1 DEF IsRunning
  <2>5. Held'
    <3> SUFFICES ASSUME NEW v \in Workers, worker'[v] = "run"
                 PROVE  /\ job'[v] \in Tasks /\ \E k \in 1 .. taken' : accepted'[k] = job'[v]
                        /\ \A u \in Workers : worker'[u] = "run" /\ job'[u] = job'[v] => u = v
      BY DEF Held, IsTaken
    <3>1. CASE v = w
      <4>1. taken + 1 \in 1 .. taken'
        BY <1>0, <2>1
      <4>2. \A u \in Workers : u # w /\ worker'[u] = "run" => job'[u] # t0
        BY <2>1, <2>3 DEF IsRunning
      <4> QED
        BY <2>1, <3>1, <4>1, <4>2
    <3>2. CASE v # w
      <4>1. /\ worker[v] = "run" /\ job'[v] = job[v] /\ job[v] \in Tasks /\ IsTaken(job[v])
            /\ \A u \in Workers : worker[u] = "run" /\ job[u] = job[v] => u = v
        BY <1>0, <2>1, <3>2 DEF Held
      <4>2. job[v] # t0
        BY <2>1, <4>1
      <4>3. \A k \in 1 .. taken : k \in 1 .. taken'
        BY <1>0, <2>1
      <4>4. \E k \in 1 .. taken' : accepted'[k] = job[v]
        BY <2>1, <4>1, <4>3 DEF IsTaken
      <4> QED
        BY <2>1, <4>1, <4>2, <4>4
    <3> QED
      BY <3>1, <3>2
  <2>6. ASSUME NEW t \in Tasks
        PROVE  ran'[t] = IF IsTaken(t)' /\ ~IsRunning(t)' THEN 1 ELSE 0
    BY <1>0, <2>1, <2>2, <2>4 DEF Tally
  <2> QED
    BY <2>5, <2>6 DEF Tally
<1>2. ASSUME NEW w \in Workers, Run(w) PROVE Held' /\ Tally'
  <2> DEFINE t0 == job[w]
  <2>1. /\ t0 \in Tasks /\ IsTaken(t0)
        /\ \A v \in Workers : worker[v] = "run" /\ job[v] = t0 => v = w
        /\ worker[w] = "run" /\ worker'[w] # "run"
        /\ taken' = taken /\ accepted' = accepted
        /\ ran' = [ran EXCEPT ![t0] = @ + 1]
        /\ \A v \in Workers : v # w => worker'[v] = worker[v] /\ job'[v] = job[v]
    BY <1>0, <1>2 DEF Run, SetWorker, Held
  <2> HIDE DEF t0
  <2>2. \A t \in Tasks : IsTaken(t)' <=> IsTaken(t)
    BY <2>1 DEF IsTaken
  <2>3. \A t \in Tasks : IsRunning(t)' <=> (IsRunning(t) /\ t # t0)
    BY <2>1 DEF IsRunning, t0
  <2>4. IsRunning(t0)
    BY <2>1 DEF IsRunning, t0
  <2>5. Held'
    <3> SUFFICES ASSUME NEW v \in Workers, worker'[v] = "run"
                 PROVE  /\ job'[v] \in Tasks /\ \E k \in 1 .. taken' : accepted'[k] = job'[v]
                        /\ \A u \in Workers : worker'[u] = "run" /\ job'[u] = job'[v] => u = v
      BY DEF Held, IsTaken
    <3>1. v # w /\ worker[v] = "run" /\ job'[v] = job[v]
      BY <2>1
    <3>2. /\ job[v] \in Tasks /\ IsTaken(job[v])
          /\ \A u \in Workers : worker[u] = "run" /\ job[u] = job[v] => u = v
      BY <1>0, <3>1 DEF Held
    <3>3. \E k \in 1 .. taken' : accepted'[k] = job[v]
      BY <2>1, <3>2 DEF IsTaken
    <3> QED
      BY <2>1, <3>1, <3>2, <3>3
  <2>6. ASSUME NEW t \in Tasks
        PROVE  ran'[t] = IF IsTaken(t)' /\ ~IsRunning(t)' THEN 1 ELSE 0
    <3>1. CASE t = t0
      <4>1. ran[t0] = 0
        BY <1>0, <2>1, <2>4 DEF Tally
      <4>2. ran'[t0] = 1
        BY <1>0, <2>1, <4>1
      <4> QED
        BY <2>1, <2>2, <2>3, <3>1, <4>2
    <3>2. CASE t # t0
      <4>1. ran'[t] = ran[t]
        BY <1>0, <2>1, <2>6, <3>2
      <4> QED
        BY <1>0, <2>2, <2>3, <2>6, <3>2, <4>1 DEF Tally
    <3> QED
      BY <3>1, <3>2
  <2> QED
    BY <2>5, <2>6 DEF Tally
<1>3. CASE /\ UNCHANGED <<job, ran, taken>>
           /\ \A k \in 1 .. taken : accepted'[k] = accepted[k]
           /\ \A w \in Workers : worker'[w] = "run" <=> worker[w] = "run"
  <2>1. \A t : IsTaken(t)' <=> IsTaken(t)
    BY <1>3 DEF IsTaken
  <2>2. \A t : IsRunning(t)' <=> IsRunning(t)
    BY <1>3 DEF IsRunning
  <2>3. ASSUME NEW w \in Workers, worker'[w] = "run"
        PROVE  /\ job'[w] \in Tasks /\ \E k \in 1 .. taken' : accepted'[k] = job'[w]
               /\ \A v \in Workers : worker'[v] = "run" /\ job'[v] = job'[w] => v = w
    <3>1. /\ job[w] \in Tasks /\ IsTaken(job[w]) /\ job' = job
          /\ \A v \in Workers : worker[v] = "run" /\ job[v] = job[w] => v = w
      BY <1>0, <1>3, <2>3 DEF Held
    <3>2. \E k \in 1 .. taken' : accepted'[k] = job[w]
      BY <1>3, <3>1 DEF IsTaken
    <3> QED
      BY <1>3, <3>1, <3>2
  <2>4. \A t \in Tasks : ran'[t] = IF IsTaken(t)' /\ ~IsRunning(t)' THEN 1 ELSE 0
    BY <1>0, <1>3, <2>1, <2>2 DEF Tally
  <2> QED
    BY <2>3, <2>4 DEF Held, Tally, IsTaken
<1> QED
  BY <1>0, <1>1, <1>2, <1>3, HandsUntouched

-----------------------------------------------------------------------------
(* The invariant and what it gives *)

\* An empty ring, no worker, nothing accepted.
LEMMA InitInv == Init => Inv
<1> SUFFICES ASSUME Init PROVE Inv
  OBVIOUS
<1>0. /\ CAPACITY \in Nat \ {0} /\ THREADS \in Nat \ {0} /\ NUM_TASKS \in Nat
      /\ 0 % CAPACITY = 0
  BY PoolAssumption
<1>1. TypeOK
  <2>1. 0 \in Slots /\ 0 \in 0 .. CAPACITY /\ 0 \in 0 .. THREADS /\ 0 \in 0 .. NUM_TASKS
    BY <1>0 DEF Slots
  <2>2. <<>> \in Seq(Tasks)
    BY EmptySeq
  <2> QED
    BY <2>1, <2>2 DEF Init, TypeOK
<1>2. Lifecycle
  BY <1>0 DEF Init, Lifecycle, Workers
<1>3. RingIsFIFO
  BY <1>0, EmptySeq DEF Init, RingIsFIFO
<1>4. Ordered /\ Held /\ Tally
  BY <1>0, EmptySeq DEF Init, Ordered, Held, Tally, IsTaken
<1>5. NoTaskStranded
  BY DEF Init, NoTaskStranded
<1> QED
  BY <1>1, <1>2, <1>3, <1>4, <1>5 DEF Inv

LEMMA InvStep == Inv /\ [Next]_vars => Inv'
BY TypeStep, LifecycleStep, RingStep, OrderedStep, HandsStep, AwakeStep DEF Inv

\* The invariant holds of every behaviour.
THEOREM Invariance == Spec => []Inv
BY InitInv, InvStep, PTL DEF Spec

\* The pool's fields, the workers' locals and main's counters keep their types.
THEOREM TypeCorrect == Spec => []TypeOK
BY Invariance, PTL DEF Inv

\* The ring under pool->lock is a FIFO of the accepted tasks.
THEOREM FIFO == Spec => []RingIsFIFO
BY Invariance, PTL DEF Inv

\* No task waits in the ring with every worker asleep: the signal in threadpool_add
\* is never lost.
THEOREM NoneStranded == Spec => []NoTaskStranded
BY Invariance, PTL DEF Inv

\* No task runs twice, and when threadpool_destroy has freed the pool every accepted
\* task has run and every worker has left.
THEOREM Drained == Spec => []DrainedAtDestroy
<1>1. Inv => DrainedAtDestroy
  <2> SUFFICES ASSUME Inv PROVE DrainedAtDestroy
    OBVIOUS
  <2>0. /\ TypeOK /\ Lifecycle /\ RingIsFIFO /\ Tally
        /\ accepted \in Seq(Tasks) /\ taken \in Nat /\ Len(accepted) \in Nat
        /\ THREADS \in Nat \ {0}
    BY Numbers DEF Inv, TypeOK
  <2>1. \A t \in Tasks : ran[t] <= 1
    BY <2>0 DEF Tally
  <2>2. ASSUME main = "freed", NEW pos \in DOMAIN accepted PROVE ran[accepted[pos]] = 1
    <3>1. pos \in 1 .. Len(accepted) /\ accepted[pos] \in Tasks /\ accepted # <<>>
      BY <2>0, LenProperties, ElementOfSeq, EmptySeq
    <3>2. 1 \in Workers /\ ~(1 > thread_count)
      BY <2>0, <3>1 DEF Lifecycle, Workers
    <3>3. worker[1] = "exit"
      BY <2>0, <2>2, <3>2 DEF Lifecycle
    <3>4. count = 0
      BY <2>0, <3>2, <3>3 DEF Lifecycle
    <3>5. pos \in 1 .. taken
      BY <2>0, <3>1, <3>4 DEF RingIsFIFO
    <3>6. IsTaken(accepted[pos]) /\ ~IsRunning(accepted[pos])
      BY <2>0, <2>2, <3>5 DEF IsTaken, IsRunning, Lifecycle
    <3> QED
      BY <2>0, <3>1, <3>6 DEF Tally
  <2> QED
    BY <2>0, <2>1, <2>2 DEF DrainedAtDestroy, Lifecycle
<1> QED
  BY <1>1, Invariance, PTL
-----------------------------------------------------------------------------
(* Day 37 in C++: the actors *)

Sooner(a, b) == a # Pill /\ b # Pill /\ a[1] = b[1] => a[2] < b[2]
Before(A, B) == \A a \in A, b \in B : Sooner(a, b)
Elems(s)     == {s[k] : k \in DOMAIN s}
Rises(s)     == \A j, k \in DOMAIN s : j < k => Sooner(s[j], s[k])
PillLast(s)  == \A k \in DOMAIN s : s[k] = Pill => k = Len(s)
Mine(w)      == {o \in Actor!Orders : Actor!Target(o) = w}
Handling(a)  == IF pc[a] = "process" THEN {msg[a]} ELSE {}

\* What worker w has handled, has in hand and has in its mailbox, what the router has
\* in hand and in its mailbox: the orders sent so far, n[p] by producer p, stand in this
\* line in the order they were sent.
InLine(w, D, H, Q, R, Z, n) ==
  /\ Before(D, H \cup Q \cup R \cup Z) /\ Before(H, Q \cup R \cup Z)
  /\ Before(Q, R \cup Z) /\ Before(R, Z)
  /\ D \subseteq Mine(w) /\ H \cup Q \subseteq Mine(w) \cup {Pill}
  /\ R \cup Z \subseteq Actor!Orders \cup {Pill}
  /\ \A o \in R \cup Z : o # Pill => o[2] < n[o[1]]
  /\ \A o \in Mine(w) : o[2] < n[o[1]] <=> o \in D \cup H \cup Q \cup R \cup Z

Line(w) == InLine(w, Elems(processed[w]), Handling(w), Elems(queue[w]),
                  Handling(Router), Elems(queue[Router]), sent)

Posts ==
  /\ pc[Router] \in {"pop", "process", "done"}
  /\ \A w \in Actor!Workers : pc[w] \in {"pop", "process", "done"}
  /\ \A p \in Producers : pc[p] \in {"send", "done"}
  /\ pc[Main] \in {"join", "pill", "join_router", "destroy", "done"}
  /\ \A p \in Producers : pc[p] = "done" => sent[p] = ORDERS_PER_PRODUCER
  /\ pc[Main] # "join" => \A p \in Producers : pc[p] = "done"

\* Where the pill and its copies are.
Pills ==
  /\ pc[Main] \in {"join", "pill"} =>
       Pill \notin Elems(queue[Router]) \cup Handling(Router) /\ pc[Router] # "done"
  /\ Pill \in Handling(Router) \/ pc[Router] = "done" => queue[Router] = <<>>
  /\ fanout > 0 => Pill \in Handling(Router) \/ pc[Router] = "done"
  /\ \A w \in Actor!Workers :
       /\ fanout <= w => Pill \notin Elems(queue[w]) \cup Handling(w) /\ pc[w] # "done"
       /\ Pill \in Handling(w) \/ pc[w] = "done" => queue[w] = <<>>

Queues ==
  /\ \A a \in Actor!Actors : Rises(queue[a]) /\ PillLast(queue[a])
  /\ \A w \in Actor!Workers : Rises(processed[w])

ActorInv == Actor!TypeOK /\ Posts /\ Pills /\ Queues /\ \A w \in Actor!Workers : Line(w)

LEMMA ActorNumbers ==
  /\ NUM_WORKERS \in Nat /\ NUM_WORKERS > 0 /\ ORDERS_PER_PRODUCER \in Nat
  /\ MAILBOX_CAPACITY \in Nat
  /\ Actor!Workers = 0 .. NUM_WORKERS - 1 /\ 0 \in Actor!Workers
  /\ Actor!Actors = {Router} \cup Actor!Workers
  /\ Actor!Threads = Producers \cup {Main} \cup Actor!Actors
  /\ Router \notin Actor!Workers /\ Main \notin Actor!Actors /\ Main # Router
  /\ \A p \in Producers : p \notin Actor!Actors /\ p # Main /\ p # Router
  /\ Pill \notin Actor!Orders /\ Actor!Messages = Actor!Orders \cup {Pill}
<1>1. NUM_WORKERS \in Nat /\ NUM_WORKERS > 0 /\ ORDERS_PER_PRODUCER \in Nat
      /\ MAILBOX_CAPACITY \in Nat
  BY ActorsUsable DEF Actor!ActorAssumption
<1>2. 0 \in Actor!Workers
  BY <1>1 DEF Actor!Workers
<1> QED
  BY <1>1, <1>2, ActorsUsable
     DEF Actor!ActorAssumption, Actor!Workers, Actor!Actors, Actor!Threads, Actor!Messages

LEMMA OrderTyped ==
  ASSUME NEW o \in Actor!Orders
  PROVE  /\ o[1] \in Producers /\ o[2] \in 0 .. ORDERS_PER_PRODUCER - 1 /\ o[2] \in Nat
         /\ o = <<o[1], o[2]>> /\ o # Pill
         /\ Actor!Target(o) \in Actor!Workers /\ o \in Mine(Actor!Target(o))
<1>1. /\ o[1] \in Producers /\ o[2] \in 0 .. ORDERS_PER_PRODUCER - 1 /\ o[2] \in Nat
      /\ o = <<o[1], o[2]>>
  BY ActorNumbers DEF Actor!Orders
<1>2. o[2] % NUM_WORKERS \in 0 .. NUM_WORKERS - 1
  BY <1>1, ActorNumbers, RemainderRange
<1> QED BY <1>1, <1>2, ActorNumbers DEF Actor!Target, Mine

-----------------------------------------------------------------------------
(* What the operations of a mailbox do to what is in it. *)

LEMMA ElemsTail ==
  ASSUME NEW S, NEW s \in Seq(S), s # <<>>, Rises(s), PillLast(s)
  PROVE  /\ Head(s) \in S /\ Tail(s) \in Seq(S) /\ Len(Tail(s)) = Len(s) - 1
         /\ Elems(s) = {Head(s)} \cup Elems(Tail(s))
         /\ Before({Head(s)}, Elems(Tail(s))) /\ Rises(Tail(s)) /\ PillLast(Tail(s))
         /\ Head(s) = Pill => Tail(s) = <<>>
<1>1. /\ Len(s) \in Nat /\ Len(s) > 0 /\ DOMAIN s = 1 .. Len(s) /\ Head(s) = s[1]
      /\ Tail(s) \in Seq(S) /\ Len(Tail(s)) = Len(s) - 1 /\ DOMAIN Tail(s) = 1 .. Len(s) - 1
      /\ \A k \in 1 .. Len(s) - 1 : Tail(s)[k] = s[k + 1]
  OBVIOUS
<1>2. 1 \in DOMAIN s /\ Head(s) \in S
  BY <1>1
<1>3. \A k \in 1 .. Len(s) - 1 : k + 1 \in DOMAIN s /\ 1 < k + 1
  BY <1>1
<1>4. \A k \in DOMAIN s : k = 1 \/ \E j \in 1 .. Len(s) - 1 : k = j + 1
  <2> SUFFICES ASSUME NEW k \in DOMAIN s, k # 1
               PROVE  \E j \in 1 .. Len(s) - 1 : k = j + 1
    OBVIOUS
  <2>1. k - 1 \in 1 .. Len(s) - 1 /\ k = (k - 1) + 1
    BY <1>1
  <2> QED BY <2>1
<1>5. Elems(s) = {Head(s)} \cup Elems(Tail(s))
  <2>1. \A x : x \in Elems(Tail(s)) <=> \E j \in 1 .. Len(s) - 1 : x = s[j + 1]
    BY <1>1 DEF Elems
  <2>2. \A x : x \in Elems(s) <=> \E k \in DOMAIN s : x = s[k]
    BY DEF Elems
  <2>3. \A x : x \in Elems(s) <=> x = s[1] \/ x \in Elems(Tail(s))
    BY <2>1, <2>2, <1>2, <1>3, <1>4
  <2> QED BY <2>3, <1>1
<1>6. Before({Head(s)}, Elems(Tail(s)))
  BY <1>1, <1>2, <1>3 DEF Before, Elems, Rises
<1>7. Rises(Tail(s))
  <2> SUFFICES ASSUME NEW j \in 1 .. Len(s) - 1, NEW k \in 1 .. Len(s) - 1, j < k
               PROVE  Sooner(s[j + 1], s[k + 1])
    BY <1>1 DEF Rises
  <2>1. j + 1 \in DOMAIN s /\ k + 1 \in DOMAIN s /\ j + 1 < k + 1
    BY <1>3
  <2> QED BY <2>1 DEF Rises
<1>8. PillLast(Tail(s))
  <2> SUFFICES ASSUME NEW k \in 1 .. Len(s) - 1, s[k + 1] = Pill PROVE k = Len(s) - 1
    BY <1>1 DEF PillLast
  <2>1. k + 1 = Len(s)
    BY <1>3 DEF PillLast
  <2> QED BY <2>1, <1>1
<1>9. Head(s) = Pill => Tail(s) = <<>>
  <2> SUFFICES ASSUME s[1] = Pill PROVE Tail(s) = <<>>
    BY <1>1
  <2>1. Len(s) = 1
    BY <1>2 DEF PillLast
  <2> QED BY <2>1, <1>1
<1> QED BY <1>1, <1>2, <1>5, <1>6, <1>7, <1>8, <1>9

LEMMA ElemsAppend ==
  ASSUME NEW S, NEW s \in Seq(S), NEW m \in S
  PROVE  /\ Append(s, m) \in Seq(S) /\ Len(Append(s, m)) = Len(s) + 1
         /\ Elems(Append(s, m)) = Elems(s) \cup {m}
         /\ Rises(s) /\ Before(Elems(s), {m}) => Rises(Append(s, m))
         /\ Pill \notin Elems(s) => PillLast(Append(s, m))
<1> DEFINE t == Append(s, m)
<1>1. /\ Len(s) \in Nat /\ DOMAIN s = 1 .. Len(s) /\ t \in Seq(S) /\ Len(t) = Len(s) + 1
      /\ DOMAIN t = 1 .. Len(s) + 1 /\ t[Len(s) + 1] = m
      /\ \A k \in 1 .. Len(s) : t[k] = s[k]
  OBVIOUS
<1> HIDE DEF t
<1>2. /\ \A k \in DOMAIN t : k \in 1 .. Len(s) \/ k = Len(s) + 1
      /\ \A k \in 1 .. Len(s) : k \in DOMAIN t /\ k < Len(s) + 1 /\ ~(Len(s) + 1 < k)
      /\ Len(s) + 1 \in DOMAIN t /\ ~(Len(s) + 1 < Len(s) + 1)
  BY <1>1
<1>3. Elems(t) = Elems(s) \cup {m}
  BY <1>1, <1>2 DEF Elems
<1>4. Rises(s) /\ Before(Elems(s), {m}) => Rises(t)
  <2> SUFFICES ASSUME Rises(s), Before(Elems(s), {m}), NEW j \in DOMAIN t, NEW k \in DOMAIN t,
                      j < k
               PROVE  Sooner(t[j], t[k])
    BY DEF Rises
  <2>1. j \in 1 .. Len(s) /\ (k \in 1 .. Len(s) \/ k = Len(s) + 1)
    BY <1>2
  <2>2. CASE k \in 1 .. Len(s)
    BY <2>1, <2>2, <1>1 DEF Rises
  <2>3. CASE k = Len(s) + 1
    BY <2>1, <2>3, <1>1 DEF Before, Elems
  <2> QED BY <2>1, <2>2, <2>3
<1>5. Pill \notin Elems(s) => PillLast(t)
  BY <1>1, <1>2 DEF Elems, PillLast
<1> QED BY <1>1, <1>3, <1>4, <1>5 DEF t

LEMMA ElemsEmpty == Elems(<<>>) = {} /\ Rises(<<>>) /\ PillLast(<<>>)
BY DEF Elems, Rises, PillLast

LEMMA ElemsTyped ==
  ASSUME NEW S, NEW s \in Seq(S)
  PROVE  Elems(s) \subseteq S /\ (Elems(s) = {} <=> s = <<>>)
<1>1. DOMAIN s = 1 .. Len(s) /\ Len(s) \in Nat /\ \A k \in DOMAIN s : s[k] \in S
  OBVIOUS
<1>2. s # <<>> => 1 \in DOMAIN s
  BY <1>1
<1> QED BY <1>1, <1>2, ElemsEmpty DEF Elems

-----------------------------------------------------------------------------
(* How messages move up the line of a worker. *)

LEMMA LineTakes ==                            \* the worker takes m
  ASSUME NEW w, NEW D, NEW Q, NEW R, NEW Z, NEW n, NEW m, NEW T,
         InLine(w, D, {}, Q, R, Z, n), Q = {m} \cup T, Before({m}, T)
  PROVE  InLine(w, D, {m}, T, R, Z, n)
<1>1. Before(D, {m} \cup T \cup R \cup Z) /\ Before({m}, T \cup R \cup Z)
      /\ Before(T, R \cup Z) /\ Before(R, Z)
  BY DEF InLine, Before
<1> QED BY <1>1 DEF InLine

LEMMA LineHandles ==                          \* ... and handles it
  ASSUME NEW w, NEW D, NEW Q, NEW R, NEW Z, NEW n, NEW m,
         InLine(w, D, {m}, Q, R, Z, n), m # Pill
  PROVE  InLine(w, D \cup {m}, {}, Q, R, Z, n) /\ Before(D, {m}) /\ m \in Actor!Orders
<1>1. Before(D \cup {m}, {} \cup Q \cup R \cup Z) /\ Before({}, Q \cup R \cup Z)
      /\ Before(Q, R \cup Z) /\ Before(R, Z) /\ Before(D, {m})
  BY DEF InLine, Before
<1> QED BY <1>1 DEF InLine, Mine

LEMMA LineEnds ==                             \* ... or it was the pill
  ASSUME NEW w, NEW D, NEW Q, NEW R, NEW Z, NEW n, InLine(w, D, {Pill}, Q, R, Z, n)
  PROVE  InLine(w, D, {}, Q, R, Z, n)
<1>1. Before(D, {} \cup Q \cup R \cup Z) /\ Before({}, Q \cup R \cup Z)
      /\ Before(Q, R \cup Z) /\ Before(R, Z)
  BY DEF InLine, Before
<1>2. Pill \notin Mine(w)
  BY ActorNumbers DEF Mine
<1> QED BY <1>1, <1>2 DEF InLine

LEMMA LineRoutes ==                           \* the router forwards m to w
  ASSUME NEW w, NEW D, NEW H, NEW Q, NEW Z, NEW n, NEW m,
         InLine(w, D, H, Q, {m}, Z, n), m \in Mine(w)
  PROVE  InLine(w, D, H, Q \cup {m}, {}, Z, n) /\ Before(Q, {m})
<1>1. Before(D, H \cup (Q \cup {m}) \cup {} \cup Z) /\ Before(H, (Q \cup {m}) \cup {} \cup Z)
      /\ Before(Q \cup {m}, {} \cup Z) /\ Before({}, Z) /\ Before(Q, {m})
  BY DEF InLine, Before
<1> QED BY <1>1 DEF InLine

LEMMA LinePasses ==                           \* ... or to another worker
  ASSUME NEW w, NEW D, NEW H, NEW Q, NEW Z, NEW n, NEW m,
         InLine(w, D, H, Q, {m}, Z, n), m \notin Mine(w)
  PROVE  InLine(w, D, H, Q, {}, Z, n)
<1>1. Before(D, H \cup Q \cup {} \cup Z) /\ Before(H, Q \cup {} \cup Z)
      /\ Before(Q, {} \cup Z) /\ Before({}, Z)
  BY DEF InLine, Before
<1> QED BY <1>1 DEF InLine

LEMMA LineReaches ==                          \* the router takes m
  ASSUME NEW w, NEW D, NEW H, NEW Q, NEW Z, NEW n, NEW m, NEW T,
         InLine(w, D, H, Q, {}, Z, n), Z = {m} \cup T, Before({m}, T)
  PROVE  InLine(w, D, H, Q, {m}, T, n)
<1>1. Before(D, H \cup Q \cup {m} \cup T) /\ Before(H, Q \cup {m} \cup T)
      /\ Before(Q, {m} \cup T) /\ Before({m}, T)
  BY DEF InLine, Before
<1> QED BY <1>1 DEF InLine

LEMMA LinePills ==                            \* a pill joins the line
  ASSUME NEW w, NEW D, NEW H, NEW Q, NEW R, NEW Z, NEW n, InLine(w, D, H, Q, R, Z, n)
  PROVE  InLine(w, D, H, Q \cup {Pill}, R, Z, n) /\ InLine(w, D, H, Q, R, Z \cup {Pill}, n)
<1>1. /\ Before(D, H \cup (Q \cup {Pill}) \cup R \cup Z)
      /\ Before(H, (Q \cup {Pill}) \cup R \cup Z)
      /\ Before(Q \cup {Pill}, R \cup Z) /\ Before(R, Z)
  BY DEF InLine, Before, Sooner
<1>2. /\ Before(D, H \cup Q \cup R \cup (Z \cup {Pill})) /\ Before(H, Q \cup R \cup (Z \cup {Pill}))
      /\ Before(Q, R \cup (Z \cup {Pill})) /\ Before(R, Z \cup {Pill})
  BY DEF InLine, Before, Sooner
<1>3. Pill \notin Mine(w)
  BY ActorNumbers DEF Mine
<1> QED BY <1>1, <1>2, <1>3 DEF InLine

LEMMA LineGrows ==                            \* a producer sends its next order
  ASSUME NEW w, NEW D, NEW H, NEW Q, NEW R, NEW Z, NEW n \in [Producers -> Nat],
         InLine(w, D, H, Q, R, Z, n), NEW p \in Producers, n[p] < ORDERS_PER_PRODUCER,
         NEW o, o = <<p, n[p]>>
  PROVE  /\ InLine(w, D, H, Q, R, Z \cup {o}, [n EXCEPT ![p] = @ + 1])
         /\ Before(Z, {o}) /\ o \in Actor!Orders
<1> USE ActorNumbers
<1> DEFINE next == [n EXCEPT ![p] = @ + 1]
           L == D \cup H \cup Q \cup R \cup Z
<1>1. o \in Actor!Orders /\ o # Pill /\ o[1] = p /\ o[2] = n[p]
  <2>1. n[p] \in 0 .. ORDERS_PER_PRODUCER - 1
    OBVIOUS
  <2> QED BY <2>1 DEF Actor!Orders
<1>2. \A x \in L : x # Pill => x \in Actor!Orders /\ x[2] < n[x[1]]
  BY DEF InLine, Mine
<1>3. \A x \in L : Sooner(x, o)
  BY <1>1, <1>2 DEF Sooner
<1>4. /\ Before(D, H \cup Q \cup R \cup (Z \cup {o})) /\ Before(H, Q \cup R \cup (Z \cup {o}))
      /\ Before(Q, R \cup (Z \cup {o})) /\ Before(R, Z \cup {o}) /\ Before(Z, {o})
  BY <1>3 DEF InLine, Before
<1>5. \A x \in Actor!Orders : x[2] < next[x[1]] <=> x[2] < n[x[1]] \/ x = o
  <2> SUFFICES ASSUME NEW x \in Actor!Orders
               PROVE  x[2] < next[x[1]] <=> x[2] < n[x[1]] \/ x = o
    OBVIOUS
  <2>1. x[1] \in Producers /\ x[2] \in Nat /\ x = <<x[1], x[2]>>
    BY OrderTyped
  <2>2. CASE x[1] = p
    <3>1. next[p] = n[p] + 1 /\ n[p] \in Nat
      OBVIOUS
    <3>2. x[2] < n[p] + 1 <=> x[2] < n[p] \/ x[2] = n[p]
      BY <2>1, <3>1
    <3> QED BY <2>1, <2>2, <3>1, <3>2, <1>1
  <2>3. CASE x[1] # p
    BY <2>1, <2>3, <1>1
  <2> QED BY <2>2, <2>3
<1> HIDE DEF next
<1>6. R \cup (Z \cup {o}) \subseteq Actor!Orders \cup {Pill}
  BY <1>1 DEF InLine
<1>7. \A x \in R \cup (Z \cup {o}) : x # Pill => x[2] < next[x[1]]
  BY <1>1, <1>5, <1>6 DEF InLine
<1>8. \A x \in Mine(w) : x[2] < next[x[1]] <=> x \in D \cup H \cup Q \cup R \cup (Z \cup {o})
  <2>1. \A x \in Mine(w) : x \in Actor!Orders
    BY DEF Mine
  <2> QED BY <2>1, <1>5 DEF InLine
<1>9. InLine(w, D, H, Q, R, Z \cup {o}, next)
  BY <1>4, <1>6, <1>7, <1>8 DEF InLine
<1> QED BY <1>1, <1>4, <1>9 DEF next

-----------------------------------------------------------------------------
(* The steps. *)

Labels == {"send", "pop", "process", "join", "pill", "join_router", "destroy", "done"}

LEMMA Goes ==
  ASSUME Actor!TypeOK, NEW s \in Actor!Threads, NEW label \in Labels, Actor!Goto(s, label)
  PROVE  /\ pc'[s] = label /\ \A b \in Actor!Threads : b # s => pc'[b] = pc[b]
         /\ pc' \in [Actor!Threads -> Labels]
BY DEF Actor!TypeOK, Actor!Goto, Labels

LEMMA Notified ==
  ASSUME Actor!TypeOK, NEW a \in Actor!Actors, Actor!NotifyOne(a)
  PROVE  waiting' \in [Actor!Actors -> SUBSET Actor!Threads]
BY DEF Actor!TypeOK, Actor!NotifyOne

\* m may be put behind what is in the mailbox of a.
Fits(a, m) == /\ m \in Actor!Messages /\ Before(Elems(queue[a]), {m})
              /\ Pill \notin Elems(queue[a])

\* m has been put there, and the mailboxes are as they should be.
Grown(a, m) ==
  /\ waiting' \in [Actor!Actors -> SUBSET Actor!Threads]
  /\ queue' \in [Actor!Actors -> Seq(Actor!Messages)]
  /\ Elems(queue'[a]) = Elems(queue[a]) \cup {m}
  /\ \A b \in Actor!Actors : b # a => queue'[b] = queue[b]
  /\ \A b \in Actor!Actors :
       Len(queue'[b]) <= MAILBOX_CAPACITY /\ Rises(queue'[b]) /\ PillLast(queue'[b])

LEMMA Pushed ==
  ASSUME ActorInv, NEW s, NEW a \in Actor!Actors, NEW m, Actor!Push(s, a, m), Fits(a, m)
  PROVE  Grown(a, m)
<1>1. /\ Len(queue[a]) < MAILBOX_CAPACITY /\ queue' = [queue EXCEPT ![a] = Append(queue[a], m)]
      /\ Actor!NotifyOne(a)
  BY DEF Actor!Push, Actor!HasRoom, Actor!Enqueue
<1>2. /\ queue \in [Actor!Actors -> Seq(Actor!Messages)]
      /\ \A b \in Actor!Actors : Len(queue[b]) <= MAILBOX_CAPACITY
      /\ \A b \in Actor!Actors : Rises(queue[b]) /\ PillLast(queue[b])
  BY DEF ActorInv, Actor!TypeOK, Queues
<1>3. queue[a] \in Seq(Actor!Messages)
  BY <1>2
<1>4. /\ Append(queue[a], m) \in Seq(Actor!Messages)
      /\ Len(Append(queue[a], m)) = Len(queue[a]) + 1
      /\ Elems(Append(queue[a], m)) = Elems(queue[a]) \cup {m}
      /\ Rises(Append(queue[a], m)) /\ PillLast(Append(queue[a], m))
  BY <1>2, <1>3, ElemsAppend DEF Fits
<1>5. /\ queue'[a] = Append(queue[a], m) /\ \A b \in Actor!Actors : b # a => queue'[b] = queue[b]
      /\ queue' \in [Actor!Actors -> Seq(Actor!Messages)]
  BY <1>1, <1>2, <1>4
<1>6. Len(queue[a]) + 1 <= MAILBOX_CAPACITY
  BY <1>1, <1>3, ActorNumbers
<1>7. waiting' \in [Actor!Actors -> SUBSET Actor!Threads]
  BY <1>1, Notified DEF ActorInv
<1> QED
  <2>1. ASSUME NEW b \in Actor!Actors
        PROVE  Len(queue'[b]) <= MAILBOX_CAPACITY /\ Rises(queue'[b]) /\ PillLast(queue'[b])
    <3>1. CASE b = a
      BY <3>1, <1>4, <1>5, <1>6
    <3>2. CASE b # a
      BY <3>2, <1>2, <1>5
    <3> QED BY <3>1, <3>2
  <2> QED BY <2>1, <1>4, <1>5, <1>7 DEF Grown

LEMMA Popped ==
  ASSUME ActorInv, NEW a \in Actor!Actors, NEW m, Actor!Pop(a, m)
  PROVE  /\ waiting' \in [Actor!Actors -> SUBSET Actor!Threads]
         /\ queue' \in [Actor!Actors -> Seq(Actor!Messages)]
         /\ Elems(queue[a]) = {m} \cup Elems(queue'[a]) /\ Before({m}, Elems(queue'[a]))
         /\ m = Pill => queue'[a] = <<>>
         /\ \A b \in Actor!Actors : b # a => queue'[b] = queue[b]
         /\ \A b \in Actor!Actors :
              Len(queue'[b]) <= MAILBOX_CAPACITY /\ Rises(queue'[b]) /\ PillLast(queue'[b])
<1>1. /\ queue[a] # <<>> /\ m = Head(queue[a]) /\ queue' = [queue EXCEPT ![a] = Tail(queue[a])]
      /\ Actor!NotifyOne(a)
  BY DEF Actor!Pop
<1>2. /\ queue \in [Actor!Actors -> Seq(Actor!Messages)]
      /\ \A b \in Actor!Actors : Len(queue[b]) <= MAILBOX_CAPACITY
      /\ \A b \in Actor!Actors : Rises(queue[b]) /\ PillLast(queue[b])
  BY DEF ActorInv, Actor!TypeOK, Queues
<1>3. queue[a] \in Seq(Actor!Messages)
  BY <1>2
<1>4. /\ Tail(queue[a]) \in Seq(Actor!Messages) /\ Len(Tail(queue[a])) = Len(queue[a]) - 1
      /\ Elems(queue[a]) = {m} \cup Elems(Tail(queue[a])) /\ Before({m}, Elems(Tail(queue[a])))
      /\ Rises(Tail(queue[a])) /\ PillLast(Tail(queue[a]))
      /\ m = Pill => Tail(queue[a]) = <<>>
  BY <1>1, <1>2, <1>3, ElemsTail
<1>5. /\ queue'[a] = Tail(queue[a]) /\ \A b \in Actor!Actors : b # a => queue'[b] = queue[b]
      /\ queue' \in [Actor!Actors -> Seq(Actor!Messages)]
  BY <1>1, <1>2, <1>4
<1>6. Len(queue[a]) - 1 <= MAILBOX_CAPACITY
  <2>1. Len(queue[a]) \in Nat /\ Len(queue[a]) <= MAILBOX_CAPACITY
    BY <1>2, <1>3
  <2> QED BY <2>1, ActorNumbers
<1>7. waiting' \in [Actor!Actors -> SUBSET Actor!Threads]
  BY <1>1, Notified DEF ActorInv
<1> QED
  <2>1. ASSUME NEW b \in Actor!Actors
        PROVE  Len(queue'[b]) <= MAILBOX_CAPACITY /\ Rises(queue'[b]) /\ PillLast(queue'[b])
    <3>1. CASE b = a
      BY <3>1, <1>4, <1>5, <1>6
    <3>2. CASE b # a
      BY <3>2, <1>2, <1>5
    <3> QED BY <3>1, <3>2
  <2> QED BY <2>1, <1>4, <1>5, <1>7

LEMMA ActorsInitially == Actor!Init => ActorInv
<1> SUFFICES ASSUME Actor!Init PROVE ActorInv
  OBVIOUS
<1> USE ActorNumbers
<1>1. /\ \A a \in Actor!Actors : queue[a] = <<>> /\ pc[a] = "pop"
      /\ \A w \in Actor!Workers : processed[w] = <<>>
      /\ \A p \in Producers : pc[p] = "send" /\ sent[p] = 0
      /\ pc[Main] = "join" /\ fanout = 0
  BY DEF Actor!Init
<1>2. Actor!TypeOK
  <2>1. queue \in [Actor!Actors -> Seq(Actor!Messages)]
    BY DEF Actor!Init
  <2>2. processed \in [Actor!Workers -> Seq(Actor!Orders)]
    BY DEF Actor!Init
  <2>3. \A a \in Actor!Actors : Len(queue[a]) <= MAILBOX_CAPACITY
    BY <1>1
  <2>4. pc \in [Actor!Threads -> Labels]
    BY DEF Actor!Init, Labels
  <2>5. 0 \in 0 .. ORDERS_PER_PRODUCER /\ 0 \in 0 .. NUM_WORKERS /\ Pill \in Actor!Messages
    OBVIOUS
  <2>6. /\ sent \in [Producers -> 0 .. ORDERS_PER_PRODUCER]
        /\ msg \in [Actor!Actors -> Actor!Messages] /\ fanout \in 0 .. NUM_WORKERS
    BY <2>5 DEF Actor!Init
  <2>7. /\ waiting \in [Actor!Actors -> SUBSET Actor!Threads]
        /\ destroyed \subseteq Actor!Workers /\ crashed \in BOOLEAN
    BY DEF Actor!Init
  <2> QED BY <2>1, <2>2, <2>3, <2>4, <2>6, <2>7 DEF Actor!TypeOK, Labels
<1>3. \A a \in Actor!Actors : Handling(a) = {}
  BY <1>1 DEF Handling
<1>4. Posts
  BY <1>1 DEF Posts
<1>5. Pills
  BY <1>1, <1>3, ElemsEmpty DEF Pills
<1>6. Queues
  BY <1>1, ElemsEmpty DEF Queues
<1>7. ASSUME NEW w \in Actor!Workers PROVE Line(w)
  <2>1. InLine(w, {}, {}, {}, {}, {}, sent)
    <3>1. \A o \in Mine(w) : ~(o[2] < sent[o[1]])
      <4> SUFFICES ASSUME NEW o \in Actor!Orders PROVE ~(o[2] < sent[o[1]])
        BY DEF Mine
      <4>1. o[1] \in Producers /\ o[2] \in Nat
        BY OrderTyped
      <4> QED BY <4>1, <1>1
    <3> QED BY <3>1 DEF InLine, Before
  <2> QED BY <2>1, <1>1, <1>3, ElemsEmpty DEF Line
<1> QED BY <1>2, <1>4, <1>5, <1>6, <1>7 DEF ActorInv

\* A step that moves no message.
LEMMA ActorsStill ==
  ASSUME ActorInv, UNCHANGED <<queue, pc, sent, msg, fanout, processed>>,
         waiting' \in [Actor!Actors -> SUBSET Actor!Threads],
         destroyed' \subseteq Actor!Workers, crashed' \in BOOLEAN
  PROVE  ActorInv'
<1>1. Actor!TypeOK'
  BY DEF ActorInv, Actor!TypeOK
<1>2. \A a : Handling(a)' = Handling(a)
  BY DEF Handling
<1>3. Posts' /\ Pills' /\ Queues'
  BY <1>2 DEF ActorInv, Posts, Pills, Queues
<1>4. \A w \in Actor!Workers : Line(w)'
  BY <1>2 DEF ActorInv, Line
<1> QED BY <1>1, <1>3, <1>4 DEF ActorInv

LEMMA ActorsSleep ==
  ASSUME ActorInv,
         \/ \E s \in Actor!Threads, a \in Actor!Actors : Actor!PushWaits(s, a)
         \/ \E a \in Actor!Actors : Actor!PopWaits(a) \/ Actor!SpuriousWakeup(a)
         \/ \E w \in Actor!Workers : Actor!DestroyWorker(w) \/ Actor!ProcessDestroyed(w)
  PROVE  ActorInv'
<1>1. /\ waiting \in [Actor!Actors -> SUBSET Actor!Threads] /\ destroyed \subseteq Actor!Workers
      /\ crashed \in BOOLEAN /\ Actor!Actors \subseteq Actor!Threads
  BY ActorNumbers DEF ActorInv, Actor!TypeOK
<1>2. CASE \E s \in Actor!Threads, a \in Actor!Actors : Actor!PushWaits(s, a)
  <2>1. waiting' \in [Actor!Actors -> SUBSET Actor!Threads]
    BY <1>1, <1>2 DEF Actor!PushWaits
  <2>2. UNCHANGED <<queue, pc, sent, msg, fanout, processed, destroyed, crashed>>
    BY <1>2 DEF Actor!PushWaits
  <2> QED BY <2>1, <2>2, <1>1, ActorsStill
<1>3. CASE \E a \in Actor!Actors : Actor!PopWaits(a) \/ Actor!SpuriousWakeup(a)
  <2>1. waiting' \in [Actor!Actors -> SUBSET Actor!Threads]
    BY <1>1, <1>3 DEF Actor!PopWaits, Actor!SpuriousWakeup
  <2>2. UNCHANGED <<queue, pc, sent, msg, fanout, processed, destroyed, crashed>>
    BY <1>3 DEF Actor!PopWaits, Actor!SpuriousWakeup
  <2> QED BY <2>1, <2>2, <1>1, ActorsStill
<1>4. CASE \E w \in Actor!Workers : Actor!DestroyWorker(w) \/ Actor!ProcessDestroyed(w)
  <2>1. /\ UNCHANGED <<queue, waiting, pc, sent, msg, fanout, processed>>
        /\ destroyed' \subseteq Actor!Workers /\ crashed' \in BOOLEAN
    BY <1>1, <1>4 DEF Actor!DestroyWorker, Actor!ProcessDestroyed
  <2> QED BY <2>1, <1>1, ActorsStill
<1> QED BY <1>2, <1>3, <1>4

LEMMA OrderSent ==
  ASSUME ActorInv, NEW p \in Producers, Actor!SendOrder(p)
  PROVE  ActorInv'
<1> USE ActorNumbers
<1>1. CASE Actor!PushWaits(p, Router)
  <2>1. p \in Actor!Threads /\ Router \in Actor!Actors
    OBVIOUS
  <2> QED BY <2>1, <1>1, ActorsSleep
<1>2. CASE ~Actor!PushWaits(p, Router)
  <2>1. /\ pc[p] = "send" /\ sent[p] < ORDERS_PER_PRODUCER
        /\ Actor!Push(p, Router, <<p, sent[p]>>)
        /\ sent' = [sent EXCEPT ![p] = @ + 1]
        /\ UNCHANGED <<pc, msg, fanout, processed, destroyed, crashed>>
    BY <1>2 DEF Actor!SendOrder, Actor!Order
  <2>2. sent \in [Producers -> 0 .. ORDERS_PER_PRODUCER]
    BY DEF ActorInv, Actor!TypeOK
  <2>3. sent \in [Producers -> Nat] /\ sent[p] \in Nat
    <3>1. 0 .. ORDERS_PER_PRODUCER \subseteq Nat
      OBVIOUS
    <3> QED BY <2>2, <3>1
  <2> PICK o : o = <<p, sent[p]>>
    OBVIOUS
  <2>4. ASSUME NEW w \in Actor!Workers
        PROVE  /\ InLine(w, Elems(processed[w]), Handling(w), Elems(queue[w]), Handling(Router),
                         Elems(queue[Router]) \cup {o}, sent')
               /\ Before(Elems(queue[Router]), {o}) /\ o \in Actor!Orders
    <3>1. Line(w)
      BY DEF ActorInv
    <3> QED BY <3>1, <2>1, <2>3, LineGrows DEF Line
  <2>5. Before(Elems(queue[Router]), {o}) /\ o \in Actor!Orders /\ o \in Actor!Messages /\ o # Pill
    BY <2>4
  <2>6. Router \in Actor!Actors /\ pc[Main] = "join"
    BY <2>1 DEF ActorInv, Posts
  <2>7. Pill \notin Elems(queue[Router]) \cup Handling(Router) /\ pc[Router] # "done"
    BY <2>6 DEF ActorInv, Pills
  <2>8. /\ waiting' \in [Actor!Actors -> SUBSET Actor!Threads]
        /\ queue' \in [Actor!Actors -> Seq(Actor!Messages)]
        /\ Elems(queue'[Router]) = Elems(queue[Router]) \cup {o}
        /\ \A b \in Actor!Actors : b # Router => queue'[b] = queue[b]
        /\ \A b \in Actor!Actors :
             Len(queue'[b]) <= MAILBOX_CAPACITY /\ Rises(queue'[b]) /\ PillLast(queue'[b])
    <3>1. Actor!Push(p, Router, o) /\ Pill \notin Elems(queue[Router])
      BY <2>1, <2>7
    <3>2. Fits(Router, o)
      BY <3>1, <2>5 DEF Fits
    <3>3. Grown(Router, o)
      BY <3>1, <3>2, <2>6, Pushed
    <3> QED BY <3>3 DEF Grown
  <2>9. \A w \in Actor!Workers : w \in Actor!Actors /\ queue'[w] = queue[w]
    BY <2>8
  <2>10. \A a : Handling(a)' = Handling(a)
    BY <2>1 DEF Handling
  <2>11. Actor!TypeOK'
    <3>1. sent' \in [Producers -> 0 .. ORDERS_PER_PRODUCER]
      <4>1. sent[p] + 1 \in 0 .. ORDERS_PER_PRODUCER
        BY <2>1, <2>3
      <4> QED BY <4>1, <2>1, <2>2
    <3> QED BY <3>1, <2>1, <2>8 DEF ActorInv, Actor!TypeOK
  <2>12. Posts'
    <3>1. \A b \in Producers : pc[b] = "done" => sent'[b] = sent[b]
      BY <2>1, <2>2
    <3> QED BY <3>1, <2>1 DEF ActorInv, Posts
  <2>13. Pills'
    BY <2>1, <2>5, <2>7, <2>8, <2>9, <2>10 DEF ActorInv, Pills
  <2>14. Queues'
    BY <2>1, <2>8 DEF ActorInv, Queues
  <2>15. ASSUME NEW w \in Actor!Workers PROVE Line(w)'
    <3>1. InLine(w, Elems(processed[w]), Handling(w), Elems(queue[w]), Handling(Router),
                 Elems(queue[Router]) \cup {o}, sent')
      BY <2>4
    <3>2. /\ processed'[w] = processed[w] /\ queue'[w] = queue[w]
          /\ Handling(w)' = Handling(w) /\ Handling(Router)' = Handling(Router)
      BY <2>1, <2>9, <2>10
    <3> QED BY <3>1, <3>2, <2>8 DEF Line
  <2> QED BY <2>11, <2>12, <2>13, <2>14, <2>15 DEF ActorInv
<1> QED BY <1>1, <1>2

\* A thread that only goes on to its next post.
LEMMA ActorsGoOn ==
  ASSUME ActorInv,
         \/ \E p \in Producers : Actor!ProducerDone(p)
         \/ Actor!JoinProducers \/ Actor!JoinRouter \/ Actor!MainDone
  PROVE  ActorInv'
<1> USE ActorNumbers
<1>1. /\ UNCHANGED <<queue, waiting, sent, msg, fanout, processed, destroyed, crashed>>
      /\ pc' \in [Actor!Threads -> Labels] /\ \A a \in Actor!Actors : pc'[a] = pc[a]
      /\ Posts'
  <2>1. CASE \E p \in Producers : Actor!ProducerDone(p)
    <3>1. PICK p \in Producers : Actor!ProducerDone(p)
      BY <2>1
    <3>2. /\ pc[p] = "send" /\ sent[p] = ORDERS_PER_PRODUCER /\ Actor!Goto(p, "done")
          /\ UNCHANGED <<queue, waiting, sent, msg, fanout, processed, destroyed, crashed>>
      BY <3>1 DEF Actor!ProducerDone
    <3>3. /\ pc'[p] = "done" /\ \A b \in Actor!Threads : b # p => pc'[b] = pc[b]
          /\ pc' \in [Actor!Threads -> Labels]
      BY <3>2, Goes DEF ActorInv, Labels
    <3>4. /\ pc'[Main] = pc[Main] /\ \A a \in Actor!Actors : pc'[a] = pc[a]
          /\ \A b \in Producers : b # p => pc'[b] = pc[b]
      BY <3>3
    <3> QED BY <3>2, <3>3, <3>4 DEF ActorInv, Posts
  <2>2. CASE Actor!JoinProducers \/ Actor!JoinRouter \/ Actor!MainDone
    <3>1. PICK label \in {"pill", "destroy", "done"} :
            /\ Actor!Goto(Main, label)
            /\ pc[Main] = "join" => \A p \in Producers : pc[p] = "done"
            /\ UNCHANGED <<queue, waiting, sent, msg, fanout, processed, destroyed, crashed>>
      BY <2>2 DEF Actor!JoinProducers, Actor!JoinRouter, Actor!MainDone
    <3>2. /\ pc'[Main] = label /\ \A b \in Actor!Threads : b # Main => pc'[b] = pc[b]
          /\ pc' \in [Actor!Threads -> Labels]
      BY <3>1, Goes DEF ActorInv, Labels
    <3>3. /\ \A a \in Actor!Actors : pc'[a] = pc[a]
          /\ \A b \in Producers : pc'[b] = pc[b]
      BY <3>2
    <3> QED BY <3>1, <3>2, <3>3 DEF ActorInv, Posts
  <2> QED BY <2>1, <2>2
<1>2. \A a \in Actor!Actors : Handling(a)' = Handling(a)
  BY <1>1 DEF Handling
<1>3. Actor!TypeOK'
  BY <1>1 DEF ActorInv, Actor!TypeOK, Labels
<1>4. Pills'
  <2>1. pc'[Main] \in {"join", "pill"} => pc[Main] \in {"join", "pill"}
    <3>1. Main \in Actor!Threads
      OBVIOUS
    <3> QED BY <3>1 DEF ActorInv, Actor!TypeOK, Actor!Goto, Actor!ProducerDone,
                       Actor!JoinProducers, Actor!JoinRouter, Actor!MainDone
  <2> QED BY <2>1, <1>1, <1>2 DEF ActorInv, Pills
<1>5. Queues' /\ \A w \in Actor!Workers : Line(w)'
  BY <1>1, <1>2 DEF ActorInv, Queues, Line
<1> QED BY <1>1, <1>3, <1>4, <1>5 DEF ActorInv

LEMMA PillSent ==
  ASSUME ActorInv, Actor!SendPill
  PROVE  ActorInv'
<1> USE ActorNumbers
<1>1. CASE Actor!PushWaits(Main, Router)
  <2>1. Main \in Actor!Threads /\ Router \in Actor!Actors
    OBVIOUS
  <2> QED BY <2>1, <1>1, ActorsSleep
<1>2. CASE ~Actor!PushWaits(Main, Router)
  <2>1. /\ pc[Main] = "pill" /\ Actor!Push(Main, Router, Pill) /\ Actor!Goto(Main, "join_router")
        /\ UNCHANGED <<sent, msg, fanout, processed, destroyed, crashed>>
    BY <1>2 DEF Actor!SendPill
  <2>2. /\ pc'[Main] = "join_router" /\ \A b \in Actor!Threads : b # Main => pc'[b] = pc[b]
        /\ pc' \in [Actor!Threads -> Labels]
    BY <2>1, Goes DEF ActorInv, Labels
  <2>3. /\ \A a \in Actor!Actors : pc'[a] = pc[a]
        /\ \A b \in Producers : pc'[b] = pc[b]
    BY <2>2
  <2>4. Router \in Actor!Actors /\ Pill \in Actor!Messages
    OBVIOUS
  <2>5. Pill \notin Elems(queue[Router]) \cup Handling(Router) /\ pc[Router] # "done"
    BY <2>1 DEF ActorInv, Pills
  <2>6. Before(Elems(queue[Router]), {Pill})
    BY DEF Before, Sooner
  <2>7. /\ waiting' \in [Actor!Actors -> SUBSET Actor!Threads]
        /\ queue' \in [Actor!Actors -> Seq(Actor!Messages)]
        /\ Elems(queue'[Router]) = Elems(queue[Router]) \cup {Pill}
        /\ \A b \in Actor!Actors : b # Router => queue'[b] = queue[b]
        /\ \A b \in Actor!Actors :
             Len(queue'[b]) <= MAILBOX_CAPACITY /\ Rises(queue'[b]) /\ PillLast(queue'[b])
    <3>1. Fits(Router, Pill)
      BY <2>4, <2>5, <2>6 DEF Fits
    <3>2. Grown(Router, Pill)
      BY <3>1, <2>1, <2>4, Pushed
    <3> QED BY <3>2 DEF Grown
  <2>8. \A w \in Actor!Workers : w \in Actor!Actors /\ queue'[w] = queue[w]
    BY <2>7
  <2>9. \A a \in Actor!Actors : Handling(a)' = Handling(a)
    BY <2>1, <2>3 DEF Handling
  <2>10. Actor!TypeOK'
    BY <2>1, <2>2, <2>7 DEF ActorInv, Actor!TypeOK, Labels
  <2>11. Posts'
    BY <2>1, <2>2, <2>3 DEF ActorInv, Posts
  <2>12. Pills'
    BY <2>1, <2>2, <2>3, <2>5, <2>8, <2>9 DEF ActorInv, Pills
  <2>13. Queues'
    BY <2>1, <2>7 DEF ActorInv, Queues
  <2>14. ASSUME NEW w \in Actor!Workers PROVE Line(w)'
    <3>1. InLine(w, Elems(processed[w]), Handling(w), Elems(queue[w]), Handling(Router),
                 Elems(queue[Router]) \cup {Pill}, sent)
      BY LinePills DEF ActorInv, Line
    <3> QED BY <3>1, <2>1, <2>4, <2>7, <2>8, <2>9 DEF Line
  <2> QED BY <2>10, <2>11, <2>12, <2>13, <2>14 DEF ActorInv
<1> QED BY <1>1, <1>2

LEMMA WorkerTakes ==
  ASSUME ActorInv, NEW w \in Actor!Workers, Actor!Take(w)
  PROVE  ActorInv'
<1> USE ActorNumbers
<1>1. PICK m \in Actor!Messages :
        /\ pc[w] = "pop" /\ Actor!Pop(w, m) /\ msg' = [msg EXCEPT ![w] = m]
        /\ Actor!Goto(w, "process") /\ UNCHANGED <<sent, fanout, processed, destroyed, crashed>>
  BY DEF Actor!Take
<1>2. w \in Actor!Actors /\ w \in Actor!Threads /\ w # Router /\ w # Main /\ w \notin Producers
  OBVIOUS
<1>3. /\ pc'[w] = "process" /\ \A b \in Actor!Threads : b # w => pc'[b] = pc[b]
      /\ pc' \in [Actor!Threads -> Labels]
  BY <1>1, <1>2, Goes DEF ActorInv, Labels
<1>4. /\ waiting' \in [Actor!Actors -> SUBSET Actor!Threads]
      /\ queue' \in [Actor!Actors -> Seq(Actor!Messages)]
      /\ Elems(queue[w]) = {m} \cup Elems(queue'[w]) /\ Before({m}, Elems(queue'[w]))
      /\ m = Pill => queue'[w] = <<>>
      /\ \A b \in Actor!Actors : b # w => queue'[b] = queue[b]
      /\ \A b \in Actor!Actors :
           Len(queue'[b]) <= MAILBOX_CAPACITY /\ Rises(queue'[b]) /\ PillLast(queue'[b])
  BY <1>1, <1>2, Popped
<1>5. /\ msg' \in [Actor!Actors -> Actor!Messages] /\ msg'[w] = m
      /\ \A b \in Actor!Actors : b # w => msg'[b] = msg[b]
  BY <1>1, <1>2 DEF ActorInv, Actor!TypeOK
<1>6. /\ Handling(w) = {} /\ Handling(w)' = {m}
      /\ \A b \in Actor!Actors : b # w => Handling(b)' = Handling(b)
  BY <1>1, <1>3, <1>5 DEF Handling
<1>7. /\ pc'[Main] = pc[Main] /\ pc'[Router] = pc[Router] /\ queue'[Router] = queue[Router]
      /\ Handling(Router)' = Handling(Router)
      /\ \A p \in Producers : pc'[p] = pc[p]
      /\ \A v \in Actor!Workers : v # w => /\ pc'[v] = pc[v] /\ queue'[v] = queue[v]
                                           /\ Handling(v)' = Handling(v)
  BY <1>2, <1>3, <1>4, <1>6
<1>8. Actor!TypeOK'
  BY <1>1, <1>3, <1>4, <1>5 DEF ActorInv, Actor!TypeOK, Labels
<1>9. Posts'
  BY <1>1, <1>3, <1>7 DEF ActorInv, Posts
<1>10. Pills'
  <2>1. /\ Pill \in Elems(queue[w]) <=> Pill = m \/ Pill \in Elems(queue'[w])
        /\ Pill \in Handling(w)' <=> Pill = m
    BY <1>4, <1>6
  <2>2. /\ fanout' <= w => Pill \notin Elems(queue'[w]) \cup Handling(w)' /\ pc'[w] # "done"
        /\ Pill \in Handling(w)' \/ pc'[w] = "done" => queue'[w] = <<>>
    BY <2>1, <1>1, <1>3, <1>4 DEF ActorInv, Pills
  <2>3. ASSUME NEW v \in Actor!Workers, v # w
        PROVE  /\ fanout' <= v => Pill \notin Elems(queue'[v]) \cup Handling(v)' /\ pc'[v] # "done"
               /\ Pill \in Handling(v)' \/ pc'[v] = "done" => queue'[v] = <<>>
    BY <2>3, <1>1, <1>7 DEF ActorInv, Pills
  <2>4. \A v \in Actor!Workers :
          /\ fanout' <= v => Pill \notin Elems(queue'[v]) \cup Handling(v)' /\ pc'[v] # "done"
          /\ Pill \in Handling(v)' \/ pc'[v] = "done" => queue'[v] = <<>>
    BY <2>2, <2>3
  <2> QED BY <2>4, <1>1, <1>7 DEF ActorInv, Pills
<1>11. Queues'
  BY <1>1, <1>4 DEF ActorInv, Queues
<1>12. ASSUME NEW v \in Actor!Workers PROVE Line(v)'
  <2>1. Line(v)
    BY DEF ActorInv
  <2>2. CASE v = w
    <3>1. InLine(w, Elems(processed[w]), {m}, Elems(queue'[w]), Handling(Router),
                 Elems(queue[Router]), sent)
      <4>1. InLine(w, Elems(processed[w]), {}, Elems(queue[w]), Handling(Router),
                   Elems(queue[Router]), sent)
        BY <2>1, <2>2, <1>6 DEF Line
      <4>2. Elems(queue[w]) = {m} \cup Elems(queue'[w]) /\ Before({m}, Elems(queue'[w]))
        BY <1>4
      <4> QED BY <4>1, <4>2, LineTakes
    <3> QED BY <3>1, <2>2, <1>1, <1>6, <1>7 DEF Line
  <2>3. CASE v # w
    BY <2>1, <2>3, <1>1, <1>7 DEF Line
  <2> QED BY <2>2, <2>3
<1> QED BY <1>8, <1>9, <1>10, <1>11, <1>12 DEF ActorInv

LEMMA RouterTakes ==
  ASSUME ActorInv, Actor!Take(Router)
  PROVE  ActorInv'
<1> USE ActorNumbers
<1>1. PICK m \in Actor!Messages :
        /\ pc[Router] = "pop" /\ Actor!Pop(Router, m) /\ msg' = [msg EXCEPT ![Router] = m]
        /\ Actor!Goto(Router, "process")
        /\ UNCHANGED <<sent, fanout, processed, destroyed, crashed>>
  BY DEF Actor!Take
<1>2. Router \in Actor!Actors /\ Router \in Actor!Threads
  OBVIOUS
<1>3. /\ pc'[Router] = "process" /\ \A b \in Actor!Threads : b # Router => pc'[b] = pc[b]
      /\ pc' \in [Actor!Threads -> Labels]
  BY <1>1, <1>2, Goes DEF ActorInv, Labels
<1>4. /\ waiting' \in [Actor!Actors -> SUBSET Actor!Threads]
      /\ queue' \in [Actor!Actors -> Seq(Actor!Messages)]
      /\ Elems(queue[Router]) = {m} \cup Elems(queue'[Router])
      /\ Before({m}, Elems(queue'[Router]))
      /\ m = Pill => queue'[Router] = <<>>
      /\ \A b \in Actor!Actors : b # Router => queue'[b] = queue[b]
      /\ \A b \in Actor!Actors :
           Len(queue'[b]) <= MAILBOX_CAPACITY /\ Rises(queue'[b]) /\ PillLast(queue'[b])
  BY <1>1, <1>2, Popped
<1>5. /\ msg' \in [Actor!Actors -> Actor!Messages] /\ msg'[Router] = m
      /\ \A b \in Actor!Actors : b # Router => msg'[b] = msg[b]
  BY <1>1, <1>2 DEF ActorInv, Actor!TypeOK
<1>6. /\ Handling(Router) = {} /\ Handling(Router)' = {m}
      /\ \A b \in Actor!Actors : b # Router => Handling(b)' = Handling(b)
  BY <1>1, <1>3, <1>5 DEF Handling
<1>7. /\ pc'[Main] = pc[Main] /\ \A p \in Producers : pc'[p] = pc[p]
      /\ \A v \in Actor!Workers : /\ pc'[v] = pc[v] /\ queue'[v] = queue[v]
                                  /\ Handling(v)' = Handling(v)
  BY <1>2, <1>3, <1>4, <1>6
<1>8. Actor!TypeOK'
  BY <1>1, <1>3, <1>4, <1>5 DEF ActorInv, Actor!TypeOK, Labels
<1>9. Posts'
  BY <1>1, <1>3, <1>7 DEF ActorInv, Posts
<1>10. Pills'
  <2>1. Pill \in Elems(queue'[Router]) \cup {m} => Pill \in Elems(queue[Router]) \cup Handling(Router)
    BY <1>4
  <2>2. ~(fanout > 0)
    BY <1>1, <1>6 DEF ActorInv, Pills
  <2> QED BY <2>1, <2>2, <1>1, <1>3, <1>4, <1>6, <1>7 DEF ActorInv, Pills
<1>11. Queues'
  BY <1>1, <1>4 DEF ActorInv, Queues
<1>12. ASSUME NEW v \in Actor!Workers PROVE Line(v)'
  <2>1. Line(v)
    BY DEF ActorInv
  <2>2. InLine(v, Elems(processed[v]), Handling(v), Elems(queue[v]), {m},
               Elems(queue'[Router]), sent)
    <3>1. InLine(v, Elems(processed[v]), Handling(v), Elems(queue[v]), {},
                 Elems(queue[Router]), sent)
      BY <2>1, <1>6 DEF Line
    <3>2. /\ Elems(queue[Router]) = {m} \cup Elems(queue'[Router])
          /\ Before({m}, Elems(queue'[Router]))
      BY <1>4
    <3> QED BY <3>1, <3>2, LineReaches
  <2> QED BY <2>2, <1>1, <1>6, <1>7 DEF Line
<1> QED BY <1>8, <1>9, <1>10, <1>11, <1>12 DEF ActorInv

LEMMA OrderRouted ==
  ASSUME ActorInv, Actor!RouteOrder
  PROVE  ActorInv'
<1> USE ActorNumbers
<1> PICK m : m = msg[Router]
  OBVIOUS
<1>1. pc[Router] = "process" /\ m # Pill /\ m \in Actor!Orders /\ Handling(Router) = {m}
  BY DEF Actor!RouteOrder, Handling, ActorInv, Actor!TypeOK
<1> PICK w \in Actor!Workers : w = Actor!Target(m) /\ m \in Mine(w)
  BY <1>1, OrderTyped
<1>2. Router \in Actor!Actors /\ Router \in Actor!Threads /\ w \in Actor!Actors /\ w # Router
  OBVIOUS
<1>3. CASE Actor!PushWaits(Router, w)
  BY <1>2, <1>3, ActorsSleep
<1>4. CASE ~Actor!PushWaits(Router, w)
  <2>1. /\ Actor!Push(Router, w, m) /\ Actor!Goto(Router, "pop")
        /\ UNCHANGED <<sent, msg, fanout, processed, destroyed, crashed>>
    BY <1>4 DEF Actor!RouteOrder
  <2>2. /\ pc'[Router] = "pop" /\ \A b \in Actor!Threads : b # Router => pc'[b] = pc[b]
        /\ pc' \in [Actor!Threads -> Labels]
    BY <2>1, <1>2, Goes DEF ActorInv, Labels
  <2>3. ~(fanout > 0)
    BY <1>1 DEF ActorInv, Pills
  <2>4. /\ \A v \in Actor!Workers : fanout <= v
        /\ \A v \in Actor!Workers : Pill \notin Elems(queue[v]) \cup Handling(v) /\ pc[v] # "done"
    <3>1. fanout \in Nat
      BY DEF ActorInv, Actor!TypeOK
    <3>2. \A v \in Actor!Workers : v \in Nat
      OBVIOUS
    <3>3. \A v \in Actor!Workers : fanout <= v
      BY <3>1, <3>2, <2>3
    <3> QED BY <3>3 DEF ActorInv, Pills
  <2>5. InLine(w, Elems(processed[w]), Handling(w), Elems(queue[w]) \cup {m}, {},
               Elems(queue[Router]), sent) /\ Before(Elems(queue[w]), {m})
    <3>1. InLine(w, Elems(processed[w]), Handling(w), Elems(queue[w]), {m},
                 Elems(queue[Router]), sent)
      BY <1>1 DEF ActorInv, Line
    <3> QED BY <3>1, LineRoutes
  <2>6. /\ waiting' \in [Actor!Actors -> SUBSET Actor!Threads]
        /\ queue' \in [Actor!Actors -> Seq(Actor!Messages)]
        /\ Elems(queue'[w]) = Elems(queue[w]) \cup {m}
        /\ \A b \in Actor!Actors : b # w => queue'[b] = queue[b]
        /\ \A b \in Actor!Actors :
             Len(queue'[b]) <= MAILBOX_CAPACITY /\ Rises(queue'[b]) /\ PillLast(queue'[b])
    <3>1. m \in Actor!Messages /\ Pill \notin Elems(queue[w])
      BY <1>1, <2>4
    <3>2. Actor!Push(Router, w, m) /\ Fits(w, m)
      BY <3>1, <2>1, <2>5 DEF Fits
    <3>3. Grown(w, m)
      BY <3>2, <1>2, Pushed
    <3> QED BY <3>3 DEF Grown
  <2>7. /\ pc'[Main] = pc[Main] /\ \A p \in Producers : pc'[p] = pc[p]
        /\ \A v \in Actor!Workers : pc'[v] = pc[v]
        /\ queue'[Router] = queue[Router]
        /\ \A v \in Actor!Workers : v # w => queue'[v] = queue[v]
    BY <1>2, <2>2, <2>6
  <2>8. Handling(Router)' = {} /\ \A v \in Actor!Workers : Handling(v)' = Handling(v)
    BY <2>1, <2>2, <2>7 DEF Handling
  <2>9. Actor!TypeOK'
    BY <2>1, <2>2, <2>6 DEF ActorInv, Actor!TypeOK, Labels
  <2>10. Posts'
    BY <2>1, <2>2, <2>7 DEF ActorInv, Posts
  <2>11. Pills'
    <3>1. \A v \in Actor!Workers : Pill \notin Elems(queue'[v])
      BY <1>1, <2>4, <2>6, <2>7
    <3> QED BY <3>1, <2>1, <2>2, <2>3, <2>4, <2>7, <2>8 DEF ActorInv, Pills
  <2>12. Queues'
    BY <2>1, <2>6 DEF ActorInv, Queues
  <2>13. ASSUME NEW v \in Actor!Workers PROVE Line(v)'
    <3>1. CASE v = w
      BY <3>1, <2>1, <2>5, <2>6, <2>7, <2>8 DEF Line
    <3>2. CASE v # w
      <4>1. m \notin Mine(v)
        BY <3>2 DEF Mine
      <4>2. InLine(v, Elems(processed[v]), Handling(v), Elems(queue[v]), {m},
                   Elems(queue[Router]), sent)
        BY <1>1 DEF ActorInv, Line
      <4>3. InLine(v, Elems(processed[v]), Handling(v), Elems(queue[v]), {},
                   Elems(queue[Router]), sent)
        BY <4>1, <4>2, LinePasses
      <4> QED BY <4>3, <3>2, <2>1, <2>7, <2>8 DEF Line
    <3> QED BY <3>1, <3>2
  <2> QED BY <2>9, <2>10, <2>11, <2>12, <2>13 DEF ActorInv
<1> QED BY <1>3, <1>4

LEMMA PillRouted ==
  ASSUME ActorInv, Actor!RoutePill
  PROVE  ActorInv'
<1> USE ActorNumbers
<1>1. /\ pc[Router] = "process" /\ msg[Router] = Pill /\ fanout < NUM_WORKERS
      /\ Handling(Router) = {Pill}
  BY DEF Actor!RoutePill, Handling
<1>2. fanout \in Nat
  BY DEF ActorInv, Actor!TypeOK
<1> PICK w \in Actor!Workers : w = fanout
  BY <1>1, <1>2
<1>3. Router \in Actor!Actors /\ Router \in Actor!Threads /\ w \in Actor!Actors /\ w # Router
  OBVIOUS
<1>4. CASE Actor!PushWaits(Router, w)
  BY <1>3, <1>4, ActorsSleep
<1>5. CASE ~Actor!PushWaits(Router, w)
  <2>1. /\ Actor!Push(Router, w, Pill) /\ fanout' = fanout + 1
        /\ UNCHANGED <<pc, sent, msg, processed, destroyed, crashed>>
    BY <1>5 DEF Actor!RoutePill
  <2>2. \A a : Handling(a)' = Handling(a)
    BY <2>1 DEF Handling
  <2>3. fanout <= w /\ Pill \notin Elems(queue[w]) \cup Handling(w) /\ pc[w] # "done"
    <3>1. fanout <= w
      BY <1>2
    <3> QED BY <3>1 DEF ActorInv, Pills
  <2>4. /\ waiting' \in [Actor!Actors -> SUBSET Actor!Threads]
        /\ queue' \in [Actor!Actors -> Seq(Actor!Messages)]
        /\ Elems(queue'[w]) = Elems(queue[w]) \cup {Pill}
        /\ \A b \in Actor!Actors : b # w => queue'[b] = queue[b]
        /\ \A b \in Actor!Actors :
             Len(queue'[b]) <= MAILBOX_CAPACITY /\ Rises(queue'[b]) /\ PillLast(queue'[b])
    <3>1. Before(Elems(queue[w]), {Pill})
      BY DEF Before, Sooner
    <3>2. Actor!Push(Router, w, Pill) /\ Fits(w, Pill)
      BY <3>1, <2>1, <2>3 DEF Fits
    <3>3. Grown(w, Pill)
      BY <3>2, <1>3, Pushed
    <3> QED BY <3>3 DEF Grown
  <2>5. /\ queue'[Router] = queue[Router]
        /\ \A v \in Actor!Workers : v # w => queue'[v] = queue[v]
    BY <1>3, <2>4
  <2>6. Actor!TypeOK'
    <3>1. fanout' \in 0 .. NUM_WORKERS
      BY <1>1, <1>2, <2>1
    <3> QED BY <3>1, <2>1, <2>4 DEF ActorInv, Actor!TypeOK
  <2>7. Posts'
    BY <2>1 DEF ActorInv, Posts
  <2>8. Pills'
    <3>1. \A v \in Actor!Workers : fanout' <= v => fanout <= v /\ v # w
      BY <1>2, <2>1
    <3> QED BY <3>1, <1>1, <2>1, <2>2, <2>3, <2>5 DEF ActorInv, Pills
  <2>9. Queues'
    BY <2>1, <2>4 DEF ActorInv, Queues
  <2>10. ASSUME NEW v \in Actor!Workers PROVE Line(v)'
    <3>1. Line(v)
      BY DEF ActorInv
    <3>2. CASE v = w
      <4>1. InLine(w, Elems(processed[w]), Handling(w), Elems(queue[w]) \cup {Pill},
                   Handling(Router), Elems(queue[Router]), sent)
        BY <3>1, <3>2, LinePills DEF Line
      <4> QED BY <4>1, <3>2, <2>1, <2>2, <2>4, <2>5 DEF Line
    <3>3. CASE v # w
      BY <3>1, <3>3, <2>1, <2>2, <2>5 DEF Line
    <3> QED BY <3>2, <3>3
  <2> QED BY <2>6, <2>7, <2>8, <2>9, <2>10 DEF ActorInv
<1> QED BY <1>4, <1>5, <1>1 DEF Actor!RoutePill

LEMMA RouterEnds ==
  ASSUME ActorInv, Actor!RouterDone
  PROVE  ActorInv'
<1> USE ActorNumbers
<1>1. /\ pc[Router] = "process" /\ msg[Router] = Pill /\ Actor!Goto(Router, "done")
      /\ UNCHANGED <<queue, waiting, sent, msg, fanout, processed, destroyed, crashed>>
      /\ Handling(Router) = {Pill}
  BY DEF Actor!RouterDone, Handling
<1>2. /\ pc'[Router] = "done" /\ \A b \in Actor!Threads : b # Router => pc'[b] = pc[b]
      /\ pc' \in [Actor!Threads -> Labels]
  BY <1>1, Goes DEF ActorInv, Labels
<1>3. /\ pc'[Main] = pc[Main] /\ \A p \in Producers : pc'[p] = pc[p]
      /\ \A v \in Actor!Workers : pc'[v] = pc[v]
  BY <1>2
<1>4. Handling(Router)' = {} /\ \A v \in Actor!Workers : Handling(v)' = Handling(v)
  BY <1>1, <1>2, <1>3 DEF Handling
<1>5. Actor!TypeOK'
  BY <1>1, <1>2 DEF ActorInv, Actor!TypeOK, Labels
<1>6. Posts'
  BY <1>1, <1>2, <1>3 DEF ActorInv, Posts
<1>7. Pills'
  BY <1>1, <1>2, <1>3, <1>4 DEF ActorInv, Pills
<1>8. Queues'
  BY <1>1 DEF ActorInv, Queues
<1>9. ASSUME NEW v \in Actor!Workers PROVE Line(v)'
  <2>1. Pill \notin Mine(v)
    BY DEF Mine
  <2>2. InLine(v, Elems(processed[v]), Handling(v), Elems(queue[v]), {Pill},
               Elems(queue[Router]), sent)
    BY <1>1 DEF ActorInv, Line
  <2>3. InLine(v, Elems(processed[v]), Handling(v), Elems(queue[v]), {},
               Elems(queue[Router]), sent)
    BY <2>1, <2>2, LinePasses
  <2> QED BY <2>3, <1>1, <1>4 DEF Line
<1> QED BY <1>5, <1>6, <1>7, <1>8, <1>9 DEF ActorInv

LEMMA OrderHandled ==
  ASSUME ActorInv, NEW w \in Actor!Workers, Actor!Process(w)
  PROVE  ActorInv'
<1> USE ActorNumbers
<1> PICK m \in Actor!Messages : m = msg[w]
  BY DEF ActorInv, Actor!TypeOK
<1>1. /\ pc[w] = "process" /\ UNCHANGED <<queue, waiting, sent, msg, fanout, destroyed, crashed>>
      /\ Handling(w) = {m}
  BY DEF Actor!Process, Handling
<1>2. w \in Actor!Actors /\ w \in Actor!Threads /\ w # Router /\ w # Main /\ w \notin Producers
  OBVIOUS
<1> PICK label \in {"pop", "done"} :
      /\ Actor!Goto(w, label)
      /\ m = Pill => label = "done" /\ processed' = processed
      /\ m # Pill => label = "pop" /\ processed' = [processed EXCEPT ![w] = Append(@, m)]
  BY DEF Actor!Process
<1>3. /\ pc'[w] = label /\ \A b \in Actor!Threads : b # w => pc'[b] = pc[b]
      /\ pc' \in [Actor!Threads -> Labels]
  BY <1>2, Goes DEF ActorInv, Labels
<1>4. /\ pc'[Main] = pc[Main] /\ \A p \in Producers : pc'[p] = pc[p]
      /\ pc'[Router] = pc[Router]
      /\ \A v \in Actor!Workers : v # w => pc'[v] = pc[v]
  BY <1>2, <1>3
<1>5. /\ Handling(w)' = {} /\ Handling(Router)' = Handling(Router)
      /\ \A v \in Actor!Workers : v # w => Handling(v)' = Handling(v)
  BY <1>1, <1>3, <1>4 DEF Handling
<1>6. m # Pill =>
        /\ InLine(w, Elems(processed[w]) \cup {m}, {}, Elems(queue[w]), Handling(Router),
                  Elems(queue[Router]), sent)
        /\ Before(Elems(processed[w]), {m}) /\ m \in Actor!Orders
  <2>1. InLine(w, Elems(processed[w]), {m}, Elems(queue[w]), Handling(Router),
               Elems(queue[Router]), sent)
    BY <1>1 DEF ActorInv, Line
  <2> QED BY <2>1, LineHandles
<1>7. m = Pill => InLine(w, Elems(processed[w]), {}, Elems(queue[w]), Handling(Router),
                         Elems(queue[Router]), sent)
  <2>1. InLine(w, Elems(processed[w]), {m}, Elems(queue[w]), Handling(Router),
               Elems(queue[Router]), sent)
    BY <1>1 DEF ActorInv, Line
  <2> QED BY <2>1, LineEnds
<1>8. processed \in [Actor!Workers -> Seq(Actor!Orders)] /\ processed[w] \in Seq(Actor!Orders)
  BY DEF ActorInv, Actor!TypeOK
<1>9. /\ processed' \in [Actor!Workers -> Seq(Actor!Orders)]
      /\ \A v \in Actor!Workers : v # w => processed'[v] = processed[v]
      /\ Rises(processed'[w])
      /\ m # Pill => Elems(processed'[w]) = Elems(processed[w]) \cup {m}
      /\ m = Pill => processed'[w] = processed[w]
  <2>1. CASE m = Pill
    BY <2>1, <1>8 DEF ActorInv, Queues
  <2>2. CASE m # Pill
    <3>1. Rises(processed[w])
      BY DEF ActorInv, Queues
    <3>2. /\ Append(processed[w], m) \in Seq(Actor!Orders)
          /\ Elems(Append(processed[w], m)) = Elems(processed[w]) \cup {m}
          /\ Rises(Append(processed[w], m))
      <4>1. m \in Actor!Orders /\ Before(Elems(processed[w]), {m})
        BY <2>2, <1>6
      <4>2. processed[w] \in Seq(Actor!Orders)
        BY <1>8
      <4> HIDE ActorNumbers
      <4> QED BY <4>1, <4>2, <3>1, ElemsAppend
    <3>3. processed'[w] = Append(processed[w], m)
      BY <2>2, <1>8
    <3> QED BY <3>2, <3>3, <2>2, <1>8
  <2> QED BY <2>1, <2>2
<1>10. Actor!TypeOK'
  BY <1>1, <1>3, <1>9 DEF ActorInv, Actor!TypeOK, Labels
<1>11. Posts'
  BY <1>1, <1>3, <1>4 DEF ActorInv, Posts
<1>12. Pills'
  <2>1. m = Pill => queue[w] = <<>> /\ ~(fanout <= w)
    BY <1>1 DEF ActorInv, Pills
  <2> QED BY <2>1, <1>1, <1>3, <1>4, <1>5 DEF ActorInv, Pills
<1>13. Queues'
  BY <1>1, <1>9 DEF ActorInv, Queues
<1>14. ASSUME NEW v \in Actor!Workers PROVE Line(v)'
  <2>1. CASE v = w
    <3>1. InLine(w, Elems(processed'[w]), {}, Elems(queue[w]), Handling(Router),
                 Elems(queue[Router]), sent)
      BY <1>6, <1>7, <1>9
    <3> QED BY <3>1, <2>1, <1>1, <1>5 DEF Line
  <2>2. CASE v # w
    BY <2>2, <1>1, <1>5, <1>9 DEF ActorInv, Line
  <2> QED BY <2>1, <2>2
<1> QED BY <1>10, <1>11, <1>12, <1>13, <1>14 DEF ActorInv

LEMMA ActorsInductive == ActorInv /\ (Actor!Next \/ UNCHANGED actor_vars) => ActorInv'
<1> SUFFICES ASSUME ActorInv, Actor!Next \/ UNCHANGED actor_vars PROVE ActorInv'
  OBVIOUS
<1>1. CASE UNCHANGED actor_vars
  <2>1. UNCHANGED <<queue, waiting, pc, sent, msg, fanout, processed, destroyed, crashed>>
    BY <1>1 DEF actor_vars
  <2>2. /\ waiting' \in [Actor!Actors -> SUBSET Actor!Threads]
        /\ destroyed' \subseteq Actor!Workers /\ crashed' \in BOOLEAN
    BY <2>1 DEF ActorInv, Actor!TypeOK
  <2> QED BY <2>1, <2>2, ActorsStill
<1>2. ASSUME NEW p \in Producers, Actor!Producer(p) PROVE ActorInv'
  BY <1>2, OrderSent, ActorsGoOn DEF Actor!Producer
<1>3. CASE Actor!RouterThread
  <2>1. Router \in Actor!Actors
    BY ActorNumbers
  <2> QED BY <1>3, <2>1, RouterTakes, ActorsSleep, OrderRouted, PillRouted, RouterEnds
          DEF Actor!RouterThread
<1>4. ASSUME NEW w \in Actor!Workers, Actor!Worker(w) PROVE ActorInv'
  <2>1. w \in Actor!Actors
    BY ActorNumbers
  <2> QED BY <1>4, <2>1, WorkerTakes, ActorsSleep, OrderHandled DEF Actor!Worker
<1>5. CASE Actor!MainThread
  BY <1>5, ActorsGoOn, PillSent, ActorsSleep DEF Actor!MainThread
<1>6. CASE \E a \in Actor!Actors : Actor!SpuriousWakeup(a)
  BY <1>6, ActorsSleep
<1> QED BY <1>1, <1>2, <1>3, <1>4, <1>5, <1>6 DEF Actor!Next

\* When a worker takes its pill the router has its own: nothing else is in the line.
LEMMA OrdersFollow ==
  ActorInv => Actor!TypeOK /\ Actor!OrderedPerProducer /\ Actor!DrainedBeforePill
<1> SUFFICES ASSUME ActorInv PROVE Actor!OrderedPerProducer /\ Actor!DrainedBeforePill
  BY DEF ActorInv
<1> USE ActorNumbers
<1>1. Actor!OrderedPerProducer
  <2> SUFFICES ASSUME NEW w \in Actor!Workers, NEW j \in DOMAIN processed[w],
                      NEW k \in DOMAIN processed[w], j < k,
                      processed[w][j][1] = processed[w][k][1]
               PROVE  processed[w][j][2] < processed[w][k][2]
    BY DEF Actor!OrderedPerProducer
  <2>1. processed[w] \in Seq(Actor!Orders)
    BY DEF ActorInv, Actor!TypeOK
  <2>2. processed[w][j] \in Actor!Orders /\ processed[w][k] \in Actor!Orders
    BY <2>1
  <2>3. Sooner(processed[w][j], processed[w][k])
    BY DEF ActorInv, Queues, Rises
  <2> QED BY <2>2, <2>3 DEF Sooner
<1>2. ASSUME NEW w \in Actor!Workers, pc[w] = "done" \/ (pc[w] = "process" /\ msg[w] = Pill)
      PROVE  queue[w] = <<>> /\ Elems(processed[w]) = Mine(w)
  <2>1. pc[w] = "done" \/ Pill \in Handling(w)
    BY <1>2 DEF Handling
  <2>2. queue[w] = <<>> /\ ~(fanout <= w) /\ Handling(w) \subseteq {Pill}
    BY <1>2, <2>1 DEF ActorInv, Pills, Handling
  <2>3. fanout > 0
    <3>1. fanout \in Nat /\ w \in Nat
      BY DEF ActorInv, Actor!TypeOK
    <3> QED BY <3>1, <2>2
  <2>4. Pill \in Handling(Router) \/ pc[Router] = "done"
    BY <2>3 DEF ActorInv, Pills
  <2>5. queue[Router] = <<>> /\ Handling(Router) \subseteq {Pill} /\ pc[Main] # "join"
    BY <2>4 DEF ActorInv, Pills, Handling
  <2>6. \A p \in Producers : sent[p] = ORDERS_PER_PRODUCER
    BY <2>5 DEF ActorInv, Posts
  <2>7. \A o \in Mine(w) : o[2] < sent[o[1]] /\ o # Pill
    <3> SUFFICES ASSUME NEW o \in Actor!Orders PROVE o[2] < sent[o[1]] /\ o # Pill
      BY DEF Mine
    <3>1. o[1] \in Producers /\ o[2] \in 0 .. ORDERS_PER_PRODUCER - 1
      BY OrderTyped
    <3> QED BY <3>1, <2>6
  <2>8. Elems(queue[w]) = {} /\ Elems(queue[Router]) = {}
    BY <2>2, <2>5, ElemsEmpty
  <2>9. /\ Elems(processed[w]) \subseteq Mine(w)
        /\ \A o \in Mine(w) : o[2] < sent[o[1]] <=>
             o \in Elems(processed[w]) \cup Handling(w) \cup Elems(queue[w]) \cup Handling(Router)
                     \cup Elems(queue[Router])
    BY DEF ActorInv, Line, InLine
  <2> QED BY <2>2, <2>5, <2>7, <2>8, <2>9
<1>3. Actor!DrainedBeforePill
  BY <1>2 DEF Actor!DrainedBeforePill, Elems, Mine
<1> QED BY <1>1, <1>3

-----------------------------------------------------------------------------
(* Day 38: the pipeline *)

Stage_places == {"push", "wait_not_full", "notify_not_empty",
                 "pop", "wait_not_empty", "notify_not_full", "done"}

\* Asleep or about to try, a stage is in the same phase.
PhaseOf(l) == IF l \in {"pop", "wait_not_empty"} THEN "in"
              ELSE IF l \in {"push", "wait_not_full"} THEN "out" ELSE l
Phase == [s \in Pipeline!Stages |-> PhaseOf(stage_at[s])]

\* What comes k-th through the pipeline, with the gain applied g times.
Item(k, g) == IF k <= TOTAL_FRAMES THEN Pipeline!Frame(k, g) ELSE Pipeline!PoisonPill

FrameSet == [n : Nat, gains : Nat, is_last : BOOLEAN]

\* The queue r holds what comes o+1-st to e-th.
Carries(r, o, e, g) ==
  /\ r = [buffer |-> r.buffer, head |-> r.head, tail |-> r.tail, count |-> r.count]
  /\ DOMAIN r.buffer = 0 .. QUEUE_CAP - 1
  /\ r.head \in 0 .. QUEUE_CAP - 1 /\ r.count \in 0 .. QUEUE_CAP
  /\ r.tail = (r.head + r.count) % QUEUE_CAP /\ e = o + r.count
  /\ \A k \in 0 .. r.count - 1 : r.buffer[(r.head + k) % QUEUE_CAP] = Item(o + k + 1, g)

\* The stages at l with the frame f in hand: the producer has pushed e frames, the
\* filter has popped o and pushed e, and the consumer has popped o and counted c.
Producing(l, f, e) ==
  /\ l \in {"out", "notify_not_empty", "done"} /\ e <= TOTAL_FRAMES + 1
  /\ l = "out" => e <= TOTAL_FRAMES /\ f = Item(e + 1, 0)
  /\ l = "notify_not_empty" => e > 0 /\ f = Item(e, 0)
  /\ l = "done" => e = TOTAL_FRAMES + 1

Filtering(l, f, o, e) ==
  /\ l \in {"in", "notify_not_full", "out", "notify_not_empty", "done"}
  /\ l \in {"in", "notify_not_empty", "done"} => o = e
  /\ l \in {"notify_not_full", "out"} => o = e + 1
  /\ l = "in" => o <= TOTAL_FRAMES
  /\ l = "notify_not_full" => f = Item(o, 0)
  /\ l \in {"out", "notify_not_empty"} => f = Item(o, 1)
  /\ l = "notify_not_empty" => o > 0
  /\ l = "done" => o = TOTAL_FRAMES + 1

Consuming(l, f, o, c) ==
  /\ l \in {"in", "notify_not_full", "done"} /\ c \in Seq(FrameSet)
  /\ Len(c) <= TOTAL_FRAMES /\ \A k \in 1 .. Len(c) : c[k] = Pipeline!Frame(k, 1)
  /\ l = "in" => o = Len(c)
  /\ l = "notify_not_full" => o = Len(c) + 1 /\ f = Item(o, 1)
  /\ l = "done" => o = Len(c) + 1 /\ o = TOTAL_FRAMES + 1

Positions(ph, q, fr, c, o2, e2, o1, e1) ==
  /\ Consuming(ph[3], fr[3], o2, c) /\ Carries(q[2], o2, e2, 1)
  /\ Filtering(ph[2], fr[2], o1, e2) /\ Carries(q[1], o1, e1, 0)
  /\ Producing(ph[1], fr[1], e1)

Flow(ph, q, fr, c) ==
  \E o2, e2, o1, e1 \in Nat : Positions(ph, q, fr, c, o2, e2, o1, e1)

PipeTypes ==
  /\ stage_at \in [Pipeline!Stages -> Stage_places]
  /\ DOMAIN stage_queue = Pipeline!Queues /\ DOMAIN frame = Pipeline!Stages

PipeInv == PipeTypes /\ Flow(Phase, stage_queue, frame, consumed)

LEMMA PipeNumbers ==
  /\ QUEUE_CAP \in Nat \ {0} /\ QUEUE_CAP \in Nat /\ QUEUE_CAP > 0 /\ TOTAL_FRAMES \in Nat
  /\ Pipeline!Stages = 1 .. 3 /\ Pipeline!Queues = 1 .. 2
BY PipelineUsable DEF Pipeline!PipelineAssumption, Pipeline!Stages, Pipeline!Queues

\* The pill comes last, the frames before it with their gain.
LEMMA LastItem ==
  ASSUME NEW k \in Nat, NEW g, k > TOTAL_FRAMES
  PROVE  Item(k, g) = Pipeline!PoisonPill /\ Item(k, g).is_last /\ Item(k, g) \in FrameSet
<1>1. ~(k <= TOTAL_FRAMES)
  BY PipeNumbers
<1>2. Item(k, g) = Pipeline!PoisonPill
  BY <1>1 DEF Item
<1> QED BY <1>2 DEF Pipeline!PoisonPill, FrameSet

LEMMA EarlierItem ==
  ASSUME NEW k \in Nat, NEW g \in Nat, k <= TOTAL_FRAMES
  PROVE  /\ Item(k, g) = Pipeline!Frame(k, g) /\ ~Item(k, g).is_last /\ Item(k, g) \in FrameSet
         /\ Item(k, g).n = k /\ Item(k, g).gains = g
         /\ \A y \in Nat : [Item(k, g) EXCEPT !.gains = y] = Item(k, y)
<1>1. Item(k, g) = Pipeline!Frame(k, g) /\ \A y : Item(k, y) = [n |-> k, gains |-> y, is_last |-> FALSE]
  BY DEF Item, Pipeline!Frame
<1>2. \A y, last : [[n |-> k, gains |-> g, is_last |-> last] EXCEPT !.gains = y]
                    = [n |-> k, gains |-> y, is_last |-> last]
  OBVIOUS
<1>3. \A y : [Item(k, g) EXCEPT !.gains = y] = Item(k, y)
  <2> DEFINE R(y) == [n |-> k, gains |-> y, is_last |-> FALSE]
  <2>1. \A y : Item(k, y) = R(y) /\ [R(g) EXCEPT !.gains = y] = R(y)
    <3> TAKE y
    <3>1. Item(k, y) = R(y)
      BY <1>1, Zenon
    <3>2. [R(g) EXCEPT !.gains = y] = R(y)
      BY <1>2, Zenon
    <3> QED BY <3>1, <3>2
  <2> HIDE DEF R
  <2> QED BY <2>1
<1>4. /\ Item(k, g).n = k /\ Item(k, g).gains = g /\ ~Item(k, g).is_last
      /\ Item(k, g) \in FrameSet
  <2>1. Item(k, g) = [n |-> k, gains |-> g, is_last |-> FALSE]
    BY <1>1, Zenon
  <2> QED BY <2>1 DEF FrameSet
<1> QED BY <1>1, <1>3, <1>4

\* The queue r with the frame f pushed, and popped; a frame with the gain applied.
With(r, f) == [buffer |-> [r.buffer EXCEPT ![r.tail] = f], head |-> r.head,
               tail |-> (r.tail + 1) % QUEUE_CAP, count |-> r.count + 1]
Without(r) == [buffer |-> r.buffer, head |-> (r.head + 1) % QUEUE_CAP,
               tail |-> r.tail, count |-> r.count - 1]
Gained(f)  == [f EXCEPT !.gains = f.gains + 1]

LEMMA QueuePut ==
  ASSUME NEW r, NEW o \in Nat, NEW e \in Nat, NEW g \in Nat, Carries(r, o, e, g),
         r.count < QUEUE_CAP, NEW f, f = Item(e + 1, g),
         NEW s, s = With(r, f)
  PROVE  Carries(s, o, e + 1, g)
<1> USE PipeNumbers
<1> DEFINE h == r.head
           m == r.count
           b == r.buffer
           t == r.tail
           slot(k) == (h + k) % QUEUE_CAP
<1>1. /\ h \in 0 .. QUEUE_CAP - 1 /\ h \in Nat /\ m \in Nat /\ m < QUEUE_CAP
      /\ t = slot(m) /\ e = o + m /\ DOMAIN b = 0 .. QUEUE_CAP - 1
      /\ \A k \in 0 .. m - 1 : b[slot(k)] = Item(o + k + 1, g)
  BY DEF Carries
<1>2. s = [buffer |-> [b EXCEPT ![t] = f], head |-> h,
           tail |-> (t + 1) % QUEUE_CAP, count |-> m + 1]
  BY DEF With
<1> HIDE DEF h, m, b, t
<1>3. t \in DOMAIN b
  <2>1. h + m \in Nat
    BY <1>1
  <2> QED BY <2>1, <1>1, RemainderRange
<1>4. /\ s.head = h /\ s.tail = (t + 1) % QUEUE_CAP /\ s.count = m + 1
      /\ s.buffer = [b EXCEPT ![t] = f]
      /\ s = [buffer |-> s.buffer, head |-> s.head, tail |-> s.tail, count |-> s.count]
  <2> DEFINE B == [b EXCEPT ![t] = f]
             T == (t + 1) % QUEUE_CAP
             M == m + 1
  <2>1. s = [buffer |-> B, head |-> h, tail |-> T, count |-> M]
    BY <1>2
  <2> HIDE DEF B, T, M
  <2>2. s.buffer = B /\ s.head = h /\ s.tail = T /\ s.count = M
    BY <2>1
  <2>3. s = [buffer |-> s.buffer, head |-> s.head, tail |-> s.tail, count |-> s.count]
    BY <2>1, <2>2
  <2> QED BY <2>2, <2>3 DEF B, T, M
<1>5. s.tail = (h + (m + 1)) % QUEUE_CAP
  <2>1. (((h + m) % QUEUE_CAP) + 1) % QUEUE_CAP = (h + m + 1) % QUEUE_CAP
    <3>1. h + m \in Nat
      BY <1>1
    <3> QED BY <3>1, RemainderOfSum
  <2>2. h + m + 1 = h + (m + 1)
    BY <1>1
  <2> QED BY <2>1, <2>2, <1>1, <1>4
<1>6. ASSUME NEW k \in 0 .. m
      PROVE  s.buffer[slot(k)] = Item(o + k + 1, g)
  <2>1. CASE k = m
    <3>1. o + k + 1 = e + 1
      BY <2>1, <1>1
    <3> QED BY <3>1, <2>1, <1>1, <1>3, <1>4
  <2>2. CASE k # m
    <3>1. k \in Nat /\ k \in 0 .. m - 1 /\ k < m
      BY <2>2, <1>1
    <3>2. /\ h + k \in Nat /\ h + m \in Nat /\ h + k # h + m
          /\ h + k < (h + m) + QUEUE_CAP /\ h + m < (h + k) + QUEUE_CAP
      BY <3>1, <1>1
    <3>3. slot(k) # slot(m)
      BY <3>2, SameRemainder
    <3>4. slot(k) \in DOMAIN b
      BY <3>2, <1>1, RemainderRange
    <3> HIDE DEF slot
    <3> QED BY <3>1, <3>3, <3>4, <1>1, <1>4
  <2> QED BY <2>1, <2>2
<1>7. s.count - 1 = m /\ s.count \in 0 .. QUEUE_CAP /\ e + 1 = o + s.count
  <2>1. m + 1 - 1 = m /\ m + 1 \in 0 .. QUEUE_CAP /\ e + 1 = o + (m + 1)
    BY <1>1
  <2> DEFINE M == s.count
  <2>2. M = m + 1
    BY <1>4
  <2> HIDE DEF M
  <2>3. M - 1 = m /\ M \in 0 .. QUEUE_CAP /\ e + 1 = o + M
    BY <2>1, <2>2, <1>1
  <2> QED BY <2>3 DEF M
<1>8. DOMAIN s.buffer = 0 .. QUEUE_CAP - 1
  BY <1>1, <1>4
<1>9. /\ s.head \in 0 .. QUEUE_CAP - 1 /\ s.tail = (s.head + s.count) % QUEUE_CAP
      /\ \A k \in 0 .. s.count - 1 : s.buffer[(s.head + k) % QUEUE_CAP] = Item(o + k + 1, g)
  <2>1. s.head = h /\ s.tail = (s.head + s.count) % QUEUE_CAP
    BY <1>4, <1>5
  <2>2. \A k \in 0 .. s.count - 1 : s.buffer[(h + k) % QUEUE_CAP] = Item(o + k + 1, g)
    BY <1>6, <1>7
  <2> QED BY <2>1, <2>2, <1>1
<1> QED BY <1>4, <1>7, <1>8, <1>9 DEF Carries

LEMMA QueueGet ==
  ASSUME NEW r, NEW o \in Nat, NEW e \in Nat, NEW g \in Nat, Carries(r, o, e, g), r.count > 0,
         NEW s, s = Without(r)
  PROVE  /\ r.buffer[r.head] = Item(o + 1, g) /\ o + 1 <= e
         /\ Carries(s, o + 1, e, g)
<1> USE PipeNumbers
<1> DEFINE h == r.head
           m == r.count
           b == r.buffer
           t == r.tail
           slot(k) == (h + k) % QUEUE_CAP
<1>1. /\ h \in 0 .. QUEUE_CAP - 1 /\ h \in Nat /\ m \in Nat /\ m <= QUEUE_CAP /\ m > 0
      /\ t = slot(m) /\ e = o + m /\ DOMAIN b = 0 .. QUEUE_CAP - 1
      /\ \A k \in 0 .. m - 1 : b[slot(k)] = Item(o + k + 1, g)
  BY DEF Carries
<1>2. s = [buffer |-> b, head |-> (h + 1) % QUEUE_CAP, tail |-> t, count |-> m - 1]
  BY DEF Without
<1> HIDE DEF h, m, b, t
<1>3. /\ s.head = (h + 1) % QUEUE_CAP /\ s.tail = t /\ s.count = m - 1
      /\ s.buffer = b
      /\ s = [buffer |-> s.buffer, head |-> s.head, tail |-> s.tail, count |-> s.count]
  <2> DEFINE H == (h + 1) % QUEUE_CAP
             M == m - 1
  <2>1. s = [buffer |-> b, head |-> H, tail |-> t, count |-> M]
    BY <1>2
  <2> HIDE DEF H, M
  <2>2. s.buffer = b /\ s.head = H /\ s.tail = t /\ s.count = M
    BY <2>1
  <2>3. s = [buffer |-> s.buffer, head |-> s.head, tail |-> s.tail, count |-> s.count]
    BY <2>1, <2>2
  <2> QED BY <2>2, <2>3 DEF H, M
<1>4. b[h] = Item(o + 1, g)
  <2>0. h + 0 = h /\ h % QUEUE_CAP = h
    <3>1. h \in Nat /\ h < QUEUE_CAP
      BY <1>1
    <3> QED BY <3>1
  <2>1. slot(0) = h /\ 0 \in 0 .. m - 1 /\ o + 0 + 1 = o + 1
    BY <2>0, <1>1
  <2> QED BY <2>1, <1>1
<1>5. s.head \in 0 .. QUEUE_CAP - 1
  <2>1. h + 1 \in Nat
    BY <1>1
  <2> QED BY <2>1, <1>3, RemainderRange
<1>6. ASSUME NEW k \in Nat PROVE (s.head + k) % QUEUE_CAP = slot(k + 1)
  <2>1. (((h + 1) % QUEUE_CAP) + k) % QUEUE_CAP = (h + 1 + k) % QUEUE_CAP
    <3>1. h + 1 \in Nat
      BY <1>1
    <3> QED BY <3>1, RemainderOfSum
  <2>2. h + 1 + k = h + (k + 1)
    BY <1>1
  <2> QED BY <2>1, <2>2, <1>3
<1>7. s.tail = (s.head + s.count) % QUEUE_CAP
  <2>1. m - 1 \in Nat /\ (m - 1) + 1 = m
    BY <1>1
  <2> QED BY <2>1, <1>1, <1>3, <1>6
<1>8. ASSUME NEW k \in 0 .. m - 1 - 1
      PROVE  s.buffer[(s.head + k) % QUEUE_CAP] = Item(o + 1 + k + 1, g)
  <2>1. k \in Nat /\ k + 1 \in 0 .. m - 1 /\ o + 1 + k + 1 = o + (k + 1) + 1
    BY <1>1
  <2> QED BY <2>1, <1>1, <1>3, <1>6
<1>9. s.count \in 0 .. QUEUE_CAP /\ e = o + 1 + s.count /\ o + 1 <= e
  <2>1. m - 1 \in 0 .. QUEUE_CAP /\ e = o + 1 + (m - 1) /\ o + 1 <= e
    BY <1>1
  <2> QED BY <2>1, <1>3
<1>10. Carries(s, o + 1, e, g)
  <2>1. \A k \in 0 .. s.count - 1 :
          s.buffer[(s.head + k) % QUEUE_CAP] = Item(o + 1 + k + 1, g)
    BY <1>3, <1>8
  <2>2. DOMAIN s.buffer = 0 .. QUEUE_CAP - 1
    BY <1>1, <1>3
  <2> QED BY <2>1, <2>2, <1>3, <1>5, <1>7, <1>9 DEF Carries
<1> QED BY <1>4, <1>9, <1>10 DEF h, b

\* The steps of a stage: the phases ph, the queues q, the frames in hand fr and what was
\* counted c become ph2, q2, fr2 and c2.
Except(s, x, x2) == \A u \in 1 .. 3 : u # s => x2[u] = x[u]

PutStep(s, ph, q, fr, ph2, q2) ==
  /\ ph[s] = "out" /\ ph2[s] = "notify_not_empty" /\ Except(s, ph, ph2)
  /\ q[s].count < QUEUE_CAP /\ q2[s] = With(q[s], fr[s])
  /\ \A j \in 1 .. 2 : j # s => q2[j] = q[j]

PushedStep(s, ph, fr, ph2, fr2) ==
  /\ ph[s] = "notify_not_empty"
  /\ ph2[s] = IF fr[s].is_last THEN "done" ELSE IF s = 1 THEN "out" ELSE "in"
  /\ Except(s, ph, ph2)
  /\ fr2[1] = IF s = 1 /\ ~fr[1].is_last THEN Pipeline!Produced(fr[1].n + 1) ELSE fr[1]
  /\ fr2[2] = fr[2] /\ fr2[3] = fr[3]

GetStep(s, ph, q, fr, ph2, q2, fr2) ==
  /\ ph[s + 1] = "in" /\ ph2[s + 1] = "notify_not_full" /\ Except(s + 1, ph, ph2)
  /\ q[s].count > 0 /\ q2[s] = Without(q[s])
  /\ \A j \in 1 .. 2 : j # s => q2[j] = q[j]
  /\ fr2[s + 1] = q[s].buffer[q[s].head] /\ Except(s + 1, fr, fr2)

PoppedStep(s, ph, fr, c, ph2, fr2, c2) ==
  /\ ph[s] = "notify_not_full"
  /\ ph2[s] = IF s = 2 THEN "out" ELSE IF fr[s].is_last THEN "done" ELSE "in"
  /\ Except(s, ph, ph2) /\ Except(s, fr, fr2)
  /\ fr2[s] = IF fr[s].is_last \/ s = 3 THEN fr[s] ELSE Gained(fr[s])
  /\ c2 = IF s = 3 /\ ~fr[s].is_last THEN Append(c, fr[s]) ELSE c

LEMMA FlowPut ==
  ASSUME NEW ph, NEW q, NEW fr, NEW c, NEW ph2, NEW q2, NEW s \in 1 .. 2,
         Flow(ph, q, fr, c), PutStep(s, ph, q, fr, ph2, q2)
  PROVE  Flow(ph2, q2, fr, c)
<1> USE PipeNumbers DEF PutStep, Except
<1>1. PICK o2, e2, o1, e1 \in Nat : Positions(ph, q, fr, c, o2, e2, o1, e1)
  BY DEF Flow
<1>2. CASE s = 1
  <2>1. fr[1] = Item(e1 + 1, 0) /\ e1 <= TOTAL_FRAMES /\ Carries(q[1], o1, e1, 0)
    BY <1>1, <1>2 DEF Positions, Producing
  <2>2. Carries(q2[1], o1, e1 + 1, 0)
    BY <2>1, <1>2, QueuePut
  <2>3. Producing(ph2[1], fr[1], e1 + 1)
    BY <2>1, <1>2 DEF Producing
  <2>4. ph2[2] = ph[2] /\ ph2[3] = ph[3] /\ q2[2] = q[2]
    BY <1>2
  <2>5. Positions(ph2, q2, fr, c, o2, e2, o1, e1 + 1)
    BY <1>1, <2>2, <2>3, <2>4 DEF Positions
  <2> QED BY <2>5 DEF Flow
<1>3. CASE s = 2
  <2>1. /\ Filtering(ph[2], fr[2], o1, e2) /\ ph[2] = "out" /\ o1 = e2 + 1
        /\ fr[2] = Item(e2 + 1, 1) /\ Carries(q[2], o2, e2, 1)
    BY <1>1, <1>3 DEF Positions, Filtering
  <2>2. Carries(q2[2], o2, e2 + 1, 1)
    BY <2>1, <1>3, QueuePut
  <2>3. Filtering(ph2[2], fr[2], o1, e2 + 1)
    BY <2>1, <1>3 DEF Filtering
  <2>4. ph2[1] = ph[1] /\ ph2[3] = ph[3] /\ q2[1] = q[1]
    BY <1>3
  <2>5. Positions(ph2, q2, fr, c, o2, e2 + 1, o1, e1)
    BY <1>1, <2>2, <2>3, <2>4 DEF Positions
  <2> QED BY <2>5 DEF Flow
<1> QED BY <1>2, <1>3

LEMMA FlowAfterPush ==
  ASSUME NEW ph, NEW q, NEW fr, NEW c, NEW ph2, NEW fr2, NEW s \in 1 .. 2,
         Flow(ph, q, fr, c), PushedStep(s, ph, fr, ph2, fr2)
  PROVE  Flow(ph2, q, fr2, c)
<1> USE PipeNumbers DEF PushedStep, Except
<1>1. PICK o2, e2, o1, e1 \in Nat : Positions(ph, q, fr, c, o2, e2, o1, e1)
  BY DEF Flow
<1>2. CASE s = 1
  <2>1. /\ fr[1] = Item(e1, 0) /\ e1 > 0 /\ e1 <= TOTAL_FRAMES + 1
        /\ ph2[1] = IF fr[1].is_last THEN "done" ELSE "out"
        /\ ~fr[1].is_last => fr2[1] = Pipeline!Produced(fr[1].n + 1)
    BY <1>1, <1>2 DEF Positions, Producing
  <2>2. Producing(ph2[1], fr2[1], e1)
    <3>1. CASE e1 > TOTAL_FRAMES
      <4>1. fr[1].is_last /\ e1 = TOTAL_FRAMES + 1
        BY <3>1, <2>1, LastItem
      <4>2. ph2[1] = "done"
        BY <4>1, <2>1
      <4> QED BY <4>1, <4>2 DEF Producing
    <3>2. CASE e1 <= TOTAL_FRAMES
      <4>1. ~fr[1].is_last /\ fr[1].n = e1
        BY <3>2, <2>1, EarlierItem
      <4>2. ph2[1] = "out" /\ fr2[1] = Pipeline!Produced(e1 + 1)
        BY <4>1, <2>1
      <4>3. Pipeline!Produced(e1 + 1) = Item(e1 + 1, 0)
        BY DEF Pipeline!Produced, Item
      <4> QED BY <3>2, <4>2, <4>3 DEF Producing
    <3> QED BY <3>1, <3>2
  <2>3. ph2[2] = ph[2] /\ ph2[3] = ph[3]
    BY <1>2
  <2>4. Positions(ph2, q, fr2, c, o2, e2, o1, e1)
    BY <1>1, <2>2, <2>3 DEF Positions
  <2> QED BY <2>4 DEF Flow
<1>3. CASE s = 2
  <2>1. /\ fr[2] = Item(o1, 1) /\ o1 > 0 /\ o1 = e2
        /\ ph2[2] = IF fr[2].is_last THEN "done" ELSE "in"
        /\ fr2[1] = fr[1]
    BY <1>1, <1>3 DEF Positions, Filtering
  <2>2. o1 <= TOTAL_FRAMES + 1
    BY <1>1 DEF Positions, Carries, Producing
  <2>3. Filtering(ph2[2], fr2[2], o1, e2)
    <3>1. CASE o1 > TOTAL_FRAMES
      <4>1. ph2[2] = "done" /\ o1 = TOTAL_FRAMES + 1
        BY <3>1, <2>1, <2>2, LastItem
      <4> QED BY <4>1, <2>1 DEF Filtering
    <3>2. CASE o1 <= TOTAL_FRAMES
      <4>1. ph2[2] = "in"
        <5>1. ~fr[2].is_last
          BY <3>2, <2>1, EarlierItem
        <5> QED BY <5>1, <2>1
      <4> QED BY <4>1, <3>2, <2>1 DEF Filtering
    <3> QED BY <3>1, <3>2
  <2>4. ph2[1] = ph[1] /\ ph2[3] = ph[3]
    BY <1>3
  <2>5. Positions(ph2, q, fr2, c, o2, e2, o1, e1)
    BY <1>1, <2>1, <2>3, <2>4 DEF Positions
  <2> QED BY <2>5 DEF Flow
<1> QED BY <1>2, <1>3

LEMMA FlowGet ==
  ASSUME NEW ph, NEW q, NEW fr, NEW c, NEW ph2, NEW q2, NEW fr2, NEW s \in 1 .. 2,
         Flow(ph, q, fr, c), GetStep(s, ph, q, fr, ph2, q2, fr2)
  PROVE  Flow(ph2, q2, fr2, c)
<1> USE PipeNumbers DEF GetStep, Except
<1>1. PICK o2, e2, o1, e1 \in Nat : Positions(ph, q, fr, c, o2, e2, o1, e1)
  BY DEF Flow
<1>2. CASE s = 1
  <2>1. ph[2] = "in" /\ o1 = e2 /\ Carries(q[1], o1, e1, 0)
    BY <1>1, <1>2 DEF Positions, Filtering
  <2> DEFINE r == q[1]
             y == q2[1]
  <2>0. /\ r.count > 0
        /\ y = Without(r)
    BY <1>2
  <2>2. q[1].buffer[q[1].head] = Item(o1 + 1, 0) /\ Carries(q2[1], o1 + 1, e1, 0)
    <3> HIDE DEF r, y
    <3>1. Carries(r, o1, e1, 0)
      BY <2>1 DEF r
    <3>2. r.buffer[r.head] = Item(o1 + 1, 0) /\ Carries(y, o1 + 1, e1, 0)
      BY <2>0, <3>1, QueueGet
    <3> QED BY <3>2 DEF r, y
  <2>3. /\ ph2[1] = ph[1] /\ ph2[3] = ph[3] /\ q2[2] = q[2] /\ fr2[1] = fr[1] /\ fr2[3] = fr[3]
        /\ ph2[2] = "notify_not_full" /\ fr2[2] = q[1].buffer[q[1].head]
    BY <1>2
  <2>4. Filtering(ph2[2], fr2[2], o1 + 1, e2)
    BY <2>1, <2>2, <2>3 DEF Filtering
  <2>5. Positions(ph2, q2, fr2, c, o2, e2, o1 + 1, e1)
    BY <1>1, <2>2, <2>3, <2>4 DEF Positions
  <2> QED BY <2>5 DEF Flow
<1>3. CASE s = 2
  <2>1. ph[3] = "in" /\ Consuming(ph[3], fr[3], o2, c) /\ Carries(q[2], o2, e2, 1)
    BY <1>1, <1>3 DEF Positions
  <2> DEFINE r == q[2]
             y == q2[2]
  <2>0. /\ r.count > 0
        /\ y = Without(r)
    BY <1>3
  <2>2. q[2].buffer[q[2].head] = Item(o2 + 1, 1) /\ Carries(q2[2], o2 + 1, e2, 1)
    <3> HIDE DEF r, y
    <3>1. Carries(r, o2, e2, 1)
      BY <2>1 DEF r
    <3>2. r.buffer[r.head] = Item(o2 + 1, 1) /\ Carries(y, o2 + 1, e2, 1)
      BY <2>0, <3>1, QueueGet
    <3> QED BY <3>2 DEF r, y
  <2>3. /\ ph2[1] = ph[1] /\ ph2[2] = ph[2] /\ q2[1] = q[1] /\ fr2[1] = fr[1] /\ fr2[2] = fr[2]
        /\ ph2[3] = "notify_not_full" /\ fr2[3] = q[2].buffer[q[2].head]
    BY <1>3
  <2>4. Consuming(ph2[3], fr2[3], o2 + 1, c)
    BY <2>1, <2>2, <2>3 DEF Consuming
  <2>5. Positions(ph2, q2, fr2, c, o2 + 1, e2, o1, e1)
    BY <1>1, <2>2, <2>3, <2>4 DEF Positions
  <2> QED BY <2>5 DEF Flow
<1> QED BY <1>2, <1>3

LEMMA FlowAfterPop ==
  ASSUME NEW ph, NEW q, NEW fr, NEW c, NEW ph2, NEW fr2, NEW c2, NEW s \in 2 .. 3,
         Flow(ph, q, fr, c), PoppedStep(s, ph, fr, c, ph2, fr2, c2)
  PROVE  Flow(ph2, q, fr2, c2)
<1> USE PipeNumbers DEF PoppedStep, Except
<1> DEFINE f == fr[s]
<1>1. PICK o2, e2, o1, e1 \in Nat : Positions(ph, q, fr, c, o2, e2, o1, e1)
  BY DEF Flow
<1>2. CASE s = 2
  <2>1. /\ f = Item(o1, 0) /\ o1 = e2 + 1 /\ ph2[2] = "out" /\ c2 = c
        /\ fr2[2] = IF f.is_last THEN f ELSE Gained(f)
    BY <1>1, <1>2 DEF Positions, Filtering
  <2>2. fr2[2] = Item(o1, 1)
    <3>1. CASE o1 > TOTAL_FRAMES
      <4>1. Item(o1, 0).is_last /\ Item(o1, 1) = Item(o1, 0)
        BY <3>1, LastItem
      <4> QED BY <4>1, <2>1
    <3>2. CASE ~(o1 > TOTAL_FRAMES)
      <4>0. o1 <= TOTAL_FRAMES
        BY <3>2
      <4>1. /\ ~Item(o1, 0).is_last /\ Item(o1, 0).gains = 0
            /\ [Item(o1, 0) EXCEPT !.gains = 1] = Item(o1, 1)
        <5>1. ~Item(o1, 0).is_last /\ Item(o1, 0).gains = 0
          BY <4>0, EarlierItem
        <5>2. \A y \in Nat : [Item(o1, 0) EXCEPT !.gains = y] = Item(o1, y)
          BY <4>0, EarlierItem
        <5>3. 1 \in Nat
          OBVIOUS
        <5> QED BY <5>1, <5>2, <5>3, Zenon
      <4>2. fr2[2] = [f EXCEPT !.gains = f.gains + 1]
        BY <4>1, <2>1 DEF Gained
      <4>3. f.gains + 1 = 1
        BY <4>1, <2>1
      <4> QED BY <4>1, <4>2, <4>3, <2>1
    <3> QED BY <3>1, <3>2
  <2>3. Filtering(ph2[2], fr2[2], o1, e2)
    BY <2>1, <2>2 DEF Filtering
  <2>4. ph2[1] = ph[1] /\ ph2[3] = ph[3] /\ fr2[1] = fr[1] /\ fr2[3] = fr[3]
    BY <1>2
  <2>5. Positions(ph2, q, fr2, c2, o2, e2, o1, e1)
    BY <1>1, <2>1, <2>3, <2>4 DEF Positions
  <2> QED BY <2>5 DEF Flow
<1>3. CASE s = 3
  <2>1. /\ Consuming(ph[3], fr[3], o2, c) /\ ph[3] = "notify_not_full"
        /\ f = Item(o2, 1) /\ o2 = Len(c) + 1 /\ c \in Seq(FrameSet) /\ Len(c) \in Nat
        /\ Len(c) <= TOTAL_FRAMES
        /\ ph2[3] = IF f.is_last THEN "done" ELSE "in"
        /\ c2 = IF f.is_last THEN c ELSE Append(c, f)
    BY <1>1, <1>3 DEF Positions, Consuming
  <2>2. Consuming(ph2[3], fr2[3], o2, c2)
    <3>1. CASE o2 > TOTAL_FRAMES
      <4>1. ph2[3] = "done" /\ c2 = c /\ o2 = TOTAL_FRAMES + 1
        BY <3>1, <2>1, LastItem
      <4> QED BY <4>1, <2>1 DEF Consuming
    <3>2. CASE ~(o2 > TOTAL_FRAMES)
      <4>1. ph2[3] = "in" /\ c2 = Append(c, f) /\ f = Pipeline!Frame(o2, 1) /\ f \in FrameSet
        <5>1. o2 <= TOTAL_FRAMES
          BY <3>2
        <5>2. f = Pipeline!Frame(o2, 1) /\ f \in FrameSet
          <6>1. Item(o2, 1) = Pipeline!Frame(o2, 1) /\ Item(o2, 1) \in FrameSet
            BY <5>1, EarlierItem
          <6> QED BY <6>1, <2>1
        <5>3. ~f.is_last
          <6>1. ~Item(o2, 1).is_last
            BY <5>1, EarlierItem
          <6>2. f = Item(o2, 1)
            BY <2>1
          <6> QED BY <6>1, <6>2
        <5> QED BY <5>2, <5>3, <2>1
      <4>2. c2 \in Seq(FrameSet) /\ Len(c2) = o2 /\ o2 <= TOTAL_FRAMES
        BY <4>1, <3>2, <2>1
      <4>3. ASSUME NEW k \in 1 .. Len(c2) PROVE c2[k] = Pipeline!Frame(k, 1)
        <5>1. CASE k = o2
          BY <5>1, <4>1, <2>1
        <5>2. CASE k # o2
          <6>1. k \in 1 .. Len(c)
            BY <5>2, <4>2, <2>1
          <6> QED BY <6>1, <4>1, <2>1 DEF Consuming
        <5> QED BY <5>1, <5>2
      <4> QED BY <4>1, <4>2, <4>3 DEF Consuming
    <3> QED BY <3>1, <3>2
  <2>3. ph2[1] = ph[1] /\ ph2[2] = ph[2] /\ fr2[1] = fr[1] /\ fr2[2] = fr[2]
    BY <1>3
  <2>4. Positions(ph2, q, fr2, c2, o2, e2, o1, e1)
    BY <1>1, <2>2, <2>3 DEF Positions
  <2> QED BY <2>4 DEF Flow
<1> QED BY <1>2, <1>3

\* A signal leaves its waiter in its phase.
LEMMA WokenInPhase ==
  ASSUME NEW at2 \in [1 .. 3 -> Stage_places], NEW j \in 1 .. 2
  PROVE  /\ Pipeline!WakePopper(j, at2) \in [1 .. 3 -> Stage_places]
         /\ Pipeline!WakePusher(j, at2) \in [1 .. 3 -> Stage_places]
         /\ \A u \in 1 .. 3 : /\ PhaseOf(Pipeline!WakePopper(j, at2)[u]) = PhaseOf(at2[u])
                             /\ PhaseOf(Pipeline!WakePusher(j, at2)[u]) = PhaseOf(at2[u])
<1>1. j + 1 \in 1 .. 3 /\ j \in 1 .. 3
  OBVIOUS
<1>2. /\ Pipeline!WakePopper(j, at2) \in [1 .. 3 -> Stage_places]
      /\ \A u \in 1 .. 3 : PhaseOf(Pipeline!WakePopper(j, at2)[u]) = PhaseOf(at2[u])
  <2>1. CASE at2[j + 1] = "wait_not_empty"
    BY <2>1, <1>1 DEF Pipeline!WakePopper, Stage_places, PhaseOf
  <2>2. CASE at2[j + 1] # "wait_not_empty"
    BY <2>2, <1>1 DEF Pipeline!WakePopper
  <2> QED BY <2>1, <2>2
<1>3. /\ Pipeline!WakePusher(j, at2) \in [1 .. 3 -> Stage_places]
      /\ \A u \in 1 .. 3 : PhaseOf(Pipeline!WakePusher(j, at2)[u]) = PhaseOf(at2[u])
  <2>1. CASE at2[j] = "wait_not_full"
    BY <2>1, <1>1 DEF Pipeline!WakePusher, Stage_places, PhaseOf
  <2>2. CASE at2[j] # "wait_not_full"
    BY <2>2, <1>1 DEF Pipeline!WakePusher
  <2> QED BY <2>1, <2>2
<1> QED BY <1>2, <1>3

LEMMA PhaseAt ==
  /\ \A u \in 1 .. 3 : Phase[u] = PhaseOf(stage_at[u])
  /\ \A u \in 1 .. 3 : Phase'[u] = PhaseOf(stage_at'[u])
BY PipeNumbers DEF Phase

LEMMA PipeInitially == Pipeline!Init => PipeInv
<1> SUFFICES ASSUME Pipeline!Init PROVE PipeInv
  OBVIOUS
<1> USE PipeNumbers DEF Pipeline!Init
<1>1. PipeTypes
  BY DEF PipeTypes, Stage_places
<1>2. Phase[1] = "out" /\ Phase[2] = "in" /\ Phase[3] = "in"
  BY PhaseAt DEF PhaseOf
<1>3. \A j \in 1 .. 2 : \A g \in Nat : Carries(stage_queue[j], 0, 0, g)
  <2> TAKE j \in 1 .. 2
  <2> TAKE g \in Nat
  <2>1. stage_queue[j] = [buffer |-> [s \in 0 .. QUEUE_CAP - 1 |-> Pipeline!PoisonPill],
                          head |-> 0, tail |-> 0, count |-> 0]
    OBVIOUS
  <2>2. 0 % QUEUE_CAP = 0 /\ 0 \in 0 .. QUEUE_CAP - 1 /\ 0 \in 0 .. QUEUE_CAP
    OBVIOUS
  <2> QED BY <2>1, <2>2 DEF Carries
<1>4. Producing(Phase[1], frame[1], 0)
  BY <1>2 DEF Producing, Item, Pipeline!Produced
<1>5. Filtering(Phase[2], frame[2], 0, 0)
  BY <1>2 DEF Filtering
<1>6. Consuming(Phase[3], frame[3], 0, consumed)
  BY <1>2 DEF Consuming
<1>7. Positions(Phase, stage_queue, frame, consumed, 0, 0, 0, 0)
  BY <1>3, <1>4, <1>5, <1>6 DEF Positions
<1> QED BY <1>1, <1>7 DEF PipeInv, Flow

\* What a stage does behind its push and its pop.
LEMMA AfterPushes ==
  ASSUME PipeTypes, NEW s \in 1 .. 2, Pipeline!AfterPush(s)
  PROVE  /\ stage_at' \in [Pipeline!Stages -> Stage_places] /\ DOMAIN frame' = Pipeline!Stages
         /\ \A ph : ph[s] = "notify_not_empty" /\ Except(s, Phase, ph) =>
              PushedStep(s, ph, frame, Phase', frame')
<1> USE PipeNumbers
<1> DEFINE l == IF frame[s].is_last THEN "done" ELSE IF s = 1 THEN "push" ELSE "pop"
<1>1. PICK next : /\ next = [stage_at EXCEPT ![s] = l]
                  /\ stage_at' = Pipeline!WakePopper(s, next)
  BY DEF Pipeline!AfterPush
<1>2. l \in Stage_places /\ PhaseOf(l) = IF frame[s].is_last THEN "done"
                                         ELSE IF s = 1 THEN "out" ELSE "in"
  BY DEF Stage_places, PhaseOf
<1> HIDE DEF l
<1>3. /\ next \in [1 .. 3 -> Stage_places] /\ next[s] = l
      /\ \A u \in 1 .. 3 : u # s => next[u] = stage_at[u]
  BY <1>1, <1>2 DEF PipeTypes
<1>4. /\ stage_at' \in [1 .. 3 -> Stage_places]
      /\ \A u \in 1 .. 3 : PhaseOf(stage_at'[u]) = PhaseOf(next[u])
  BY <1>1, <1>3, WokenInPhase
<1>5. Phase'[s] = PhaseOf(l) /\ \A u \in 1 .. 3 : u # s => Phase'[u] = Phase[u]
  BY <1>3, <1>4, PhaseAt
<1>6. /\ DOMAIN frame' = Pipeline!Stages /\ frame'[2] = frame[2] /\ frame'[3] = frame[3]
      /\ frame'[1] = IF s = 1 /\ ~frame[1].is_last THEN Pipeline!Produced(frame[1].n + 1)
                     ELSE frame[1]
  BY DEF Pipeline!AfterPush, PipeTypes
<1> QED BY <1>2, <1>4, <1>5, <1>6 DEF PushedStep, Except

LEMMA AfterPops ==
  ASSUME PipeTypes, NEW s \in 2 .. 3, NEW f, Pipeline!AfterPop(s, f)
  PROVE  /\ stage_at' \in [Pipeline!Stages -> Stage_places] /\ DOMAIN frame' = Pipeline!Stages
         /\ \A ph, fr : ph[s] = "notify_not_full" /\ Except(s, Phase, ph) /\ fr[s] = f
                          /\ Except(s, frame, fr) =>
              PoppedStep(s, ph, fr, consumed, Phase', frame', consumed')
<1> USE PipeNumbers
<1> DEFINE l == IF s = 2 THEN "push" ELSE IF f.is_last THEN "done" ELSE "pop"
<1>1. PICK next : /\ next = [stage_at EXCEPT ![s] = l]
                  /\ stage_at' = Pipeline!WakePusher(s - 1, next)
  BY DEF Pipeline!AfterPop
<1>2. l \in Stage_places /\ PhaseOf(l) = IF s = 2 THEN "out"
                                         ELSE IF f.is_last THEN "done" ELSE "in"
  BY DEF Stage_places, PhaseOf
<1> HIDE DEF l
<1>3. /\ next \in [1 .. 3 -> Stage_places] /\ next[s] = l
      /\ \A u \in 1 .. 3 : u # s => next[u] = stage_at[u]
  BY <1>1, <1>2 DEF PipeTypes
<1>4. /\ stage_at' \in [1 .. 3 -> Stage_places]
      /\ \A u \in 1 .. 3 : PhaseOf(stage_at'[u]) = PhaseOf(next[u])
  <2>1. s - 1 \in 1 .. 2
    OBVIOUS
  <2> QED BY <2>1, <1>1, <1>3, WokenInPhase
<1>5. Phase'[s] = PhaseOf(l) /\ \A u \in 1 .. 3 : u # s => Phase'[u] = Phase[u]
  BY <1>3, <1>4, PhaseAt
<1>6. /\ DOMAIN frame' = Pipeline!Stages
      /\ frame'[s] = IF f.is_last \/ s = 3 THEN f ELSE Gained(f)
      /\ \A u \in 1 .. 3 : u # s => frame'[u] = frame[u]
      /\ consumed' = IF s = 3 /\ ~f.is_last THEN Append(consumed, f) ELSE consumed
  BY DEF Pipeline!AfterPop, PipeTypes, Gained
<1> QED BY <1>2, <1>4, <1>5, <1>6 DEF PoppedStep, Except

LEMMA PipePush ==
  ASSUME PipeInv, NEW s \in 1 .. 2,
         Pipeline!queue_push(s) \/ Pipeline!push(s) \/ Pipeline!push_notify(s)
  PROVE  PipeInv'
<1> USE PipeNumbers
<1>0. PipeTypes /\ Flow(Phase, stage_queue, frame, consumed)
  BY DEF PipeInv
<1> DEFINE ph == [Phase EXCEPT ![s] = "notify_not_empty"]
<1>1. ph[s] = "notify_not_empty" /\ Except(s, Phase, ph)
  BY DEF Phase, Except
<1>2. ASSUME Pipeline!Put(s)
      PROVE  Flow(ph, stage_queue', frame, consumed) /\ DOMAIN stage_queue' = Pipeline!Queues
  <2>1. stage_at[s] = "push" /\ stage_queue[s].count < QUEUE_CAP
    BY <1>2 DEF Pipeline!Put
  <2>2. Phase[s] = "out"
    BY <2>1, PhaseAt DEF PhaseOf
  <2>3. /\ stage_queue'[s] = With(stage_queue[s], frame[s])
        /\ \A j \in 1 .. 2 : j # s => stage_queue'[j] = stage_queue[j]
        /\ DOMAIN stage_queue' = Pipeline!Queues
    BY <1>0, <1>2 DEF Pipeline!Put, PipeTypes, With
  <2> HIDE DEF ph
  <2>4. PutStep(s, Phase, stage_queue, frame, ph, stage_queue')
    BY <1>1, <2>1, <2>2, <2>3 DEF PutStep
  <2> QED BY <1>0, <2>3, <2>4, FlowPut
<1>3. ASSUME NEW ph2, NEW q2, ph2[s] = "notify_not_empty", Pipeline!AfterPush(s),
             Except(s, Phase, ph2), Flow(ph2, q2, frame, consumed)
      PROVE  Flow(Phase', q2, frame', consumed)
  <2>1. PushedStep(s, ph2, frame, Phase', frame')
    BY <1>0, <1>3, AfterPushes
  <2> QED BY <2>1, <1>3, FlowAfterPush
<1>4. CASE Pipeline!queue_push(s)
  <2>1. Pipeline!Put(s) /\ Pipeline!AfterPush(s) /\ consumed' = consumed
    BY <1>4 DEF Pipeline!queue_push
  <2> HIDE DEF ph
  <2>2. Flow(Phase', stage_queue', frame', consumed)
    BY <2>1, <1>1, <1>2, <1>3
  <2> QED BY <2>1, <2>2, <1>0, <1>2, AfterPushes DEF PipeInv, PipeTypes
<1>5. CASE Pipeline!push(s)
  <2>1. Pipeline!Put(s) /\ stage_at' = [stage_at EXCEPT ![s] = "notify_not_empty"]
        /\ frame' = frame /\ consumed' = consumed
    BY <1>5 DEF Pipeline!push
  <2>2. stage_at' \in [Pipeline!Stages -> Stage_places]
    BY <2>1, <1>0 DEF PipeTypes, Stage_places
  <2>3. Phase' = ph
    BY <2>1, <1>0 DEF Phase, PipeTypes, PhaseOf
  <2> HIDE DEF ph
  <2>4. Flow(Phase', stage_queue', frame', consumed')
    BY <2>1, <2>3, <1>2
  <2> QED BY <2>1, <2>2, <2>4, <1>0, <1>2 DEF PipeInv, PipeTypes
<1>6. CASE Pipeline!push_notify(s)
  <2>1. stage_at[s] = "notify_not_empty" /\ Pipeline!AfterPush(s)
        /\ stage_queue' = stage_queue /\ consumed' = consumed
    BY <1>6 DEF Pipeline!push_notify
  <2>2. Phase[s] = "notify_not_empty" /\ Except(s, Phase, Phase)
    BY <2>1, PhaseAt DEF PhaseOf, Except
  <2>3. Flow(Phase', stage_queue, frame', consumed)
    BY <2>1, <2>2, <1>0, <1>3
  <2> QED BY <2>1, <2>3, <1>0, AfterPushes DEF PipeInv, PipeTypes
<1> QED BY <1>4, <1>5, <1>6

LEMMA PipePop ==
  ASSUME PipeInv, NEW s \in 2 .. 3,
         Pipeline!queue_pop(s) \/ Pipeline!pop(s) \/ Pipeline!pop_notify(s)
  PROVE  PipeInv'
<1> USE PipeNumbers
<1>0. PipeTypes /\ Flow(Phase, stage_queue, frame, consumed) /\ s - 1 \in 1 .. 2
  BY DEF PipeInv
<1> DEFINE f == Pipeline!Front(s - 1)
           ph == [Phase EXCEPT ![s] = "notify_not_full"]
           fr == [frame EXCEPT ![s] = f]
<1>1. /\ ph[s] = "notify_not_full" /\ fr[s] = f
      /\ Except(s, Phase, ph) /\ Except(s, frame, fr)
  BY <1>0 DEF Phase, PipeTypes, Except
<1>2. ASSUME Pipeline!Get(s)
      PROVE  Flow(ph, stage_queue', fr, consumed) /\ DOMAIN stage_queue' = Pipeline!Queues
  <2> DEFINE j == s - 1
             r == stage_queue[j]
  <2>1. stage_at[s] = "pop" /\ r.count > 0 /\ f = r.buffer[r.head]
    BY <1>2 DEF Pipeline!Get, Pipeline!Front
  <2>2. Phase[s] = "in"
    BY <2>1, PhaseAt DEF PhaseOf
  <2>3. r = [buffer |-> r.buffer, head |-> r.head, tail |-> r.tail, count |-> r.count]
    <3>1. j = 1 \/ j = 2
      BY <1>0
    <3>2. PICK o, e, g : Carries(r, o, e, g)
      BY <1>0, <3>1 DEF Flow, Positions
    <3> HIDE DEF r
    <3> QED BY <3>2 DEF Carries
  <2>4. /\ stage_queue'[j] = [r EXCEPT !.head = (r.head + 1) % QUEUE_CAP, !.count = r.count - 1]
        /\ \A k \in 1 .. 2 : k # j => stage_queue'[k] = stage_queue[k]
        /\ DOMAIN stage_queue' = Pipeline!Queues
    BY <1>0, <1>2 DEF Pipeline!Get, PipeTypes
  <2>5. stage_queue'[j] = Without(r)
    <3> DEFINE H == (r.head + 1) % QUEUE_CAP
               M == r.count - 1
    <3> HIDE DEF r, j, H, M
    <3>1. stage_queue'[j] = [r EXCEPT !.head = H, !.count = M]
      BY <2>4 DEF H, M
    <3>2. stage_queue'[j] = [buffer |-> r.buffer, head |-> H, tail |-> r.tail, count |-> M]
      BY <2>3, <3>1
    <3> QED BY <3>2 DEF H, M, Without
  <2>6. j \in 1 .. 2 /\ j + 1 = s
    BY <1>0
  <2> HIDE DEF ph, fr, f, j
  <2>7. GetStep(j, Phase, stage_queue, frame, ph, stage_queue', fr)
    BY <1>1, <2>1, <2>2, <2>4, <2>5, <2>6 DEF GetStep
  <2> QED BY <1>0, <2>4, <2>6, <2>7, FlowGet
<1>3. ASSUME NEW ph2, NEW q2, NEW fr2, ph2[s] = "notify_not_full", Pipeline!AfterPop(s, fr2[s]),
             Except(s, Phase, ph2), Except(s, frame, fr2), Flow(ph2, q2, fr2, consumed)
      PROVE  Flow(Phase', q2, frame', consumed')
  <2> HIDE DEF ph, fr, f
  <2>1. PoppedStep(s, ph2, fr2, consumed, Phase', frame', consumed')
    BY <1>0, <1>3, AfterPops
  <2> QED BY <2>1, <1>3, FlowAfterPop
<1>4. CASE Pipeline!queue_pop(s)
  <2>1. Pipeline!Get(s) /\ Pipeline!AfterPop(s, f)
    BY <1>4 DEF Pipeline!queue_pop
  <2> HIDE DEF ph, fr, f
  <2>2. Flow(Phase', stage_queue', frame', consumed')
    BY <2>1, <1>1, <1>2, <1>3
  <2> QED BY <2>1, <2>2, <1>0, <1>2, AfterPops DEF PipeInv, PipeTypes
<1>5. CASE Pipeline!pop(s)
  <2>1. Pipeline!Get(s) /\ stage_at' = [stage_at EXCEPT ![s] = "notify_not_full"]
        /\ frame' = fr /\ consumed' = consumed
    BY <1>5 DEF Pipeline!pop
  <2>2. stage_at' \in [Pipeline!Stages -> Stage_places]
    BY <2>1, <1>0 DEF PipeTypes, Stage_places
  <2>3. Phase' = ph /\ DOMAIN frame' = Pipeline!Stages
    BY <2>1, <1>0 DEF Phase, PipeTypes, PhaseOf
  <2> HIDE DEF ph, fr, f
  <2>4. Flow(Phase', stage_queue', frame', consumed')
    BY <2>1, <2>3, <1>2
  <2> QED BY <2>1, <2>2, <2>3, <2>4, <1>0, <1>2 DEF PipeInv, PipeTypes
<1>6. CASE Pipeline!pop_notify(s)
  <2>1. stage_at[s] = "notify_not_full" /\ Pipeline!AfterPop(s, frame[s])
        /\ stage_queue' = stage_queue
    BY <1>6 DEF Pipeline!pop_notify
  <2>2. Phase[s] = "notify_not_full" /\ Except(s, Phase, Phase) /\ Except(s, frame, frame)
    BY <2>1, PhaseAt DEF PhaseOf, Except
  <2>3. Flow(Phase', stage_queue, frame', consumed')
    BY <2>1, <2>2, <1>0, <1>3
  <2> QED BY <2>1, <2>3, <1>0, AfterPops DEF PipeInv, PipeTypes
<1> QED BY <1>4, <1>5, <1>6

\* Going to sleep and waking up leave a stage in its phase.
LEMMA PipeWaits ==
  ASSUME PipeInv, NEW s \in 1 .. 3,
         Pipeline!PushWaits(s) \/ Pipeline!PopWaits(s) \/ Pipeline!SpuriousWakeup(s)
  PROVE  PipeInv'
<1> USE PipeNumbers
<1>1. PICK l \in Stage_places :
        stage_at' = [stage_at EXCEPT ![s] = l] /\ PhaseOf(l) = PhaseOf(stage_at[s])
  BY DEF Pipeline!PushWaits, Pipeline!PopWaits, Pipeline!SpuriousWakeup, PhaseOf, Stage_places,
         PipeInv, PipeTypes
<1>2. stage_queue' = stage_queue /\ frame' = frame /\ consumed' = consumed
  BY DEF Pipeline!PushWaits, Pipeline!PopWaits, Pipeline!SpuriousWakeup
<1>3. stage_at' \in [Pipeline!Stages -> Stage_places] /\ Phase' = Phase
  BY <1>1 DEF PipeInv, PipeTypes, Phase
<1> QED BY <1>2, <1>3 DEF PipeInv, PipeTypes

LEMMA PipeInductive ==
  ASSUME PipeInv, Pipeline!Next \/ UNCHANGED pipeline_vars
  PROVE  PipeInv'
<1>1. CASE UNCHANGED pipeline_vars
  <2>1. Phase' = Phase
    BY <1>1 DEF pipeline_vars, Phase
  <2> QED BY <1>1, <2>1 DEF pipeline_vars, PipeInv, PipeTypes
<1>2. CASE Pipeline!Next
  BY <1>2, PipePush, PipePop, PipeWaits, PipeNumbers
     DEF Pipeline!Next, Pipeline!stage1_producer, Pipeline!stage2_filter,
         Pipeline!stage3_consumer
<1> QED BY <1>1, <1>2

\* A part of the stream: what comes a+1-st to b-th.
Part(x, a, b) ==
  /\ x \in Seq(FrameSet) /\ a \in Nat /\ b \in Nat /\ b = a + Len(x)
  /\ \A k \in 1 .. Len(x) : \E g \in Nat : x[k] = Item(a + k, g)

LEMMA PartsJoin ==
  ASSUME NEW x, NEW y, NEW a, NEW b, NEW d, Part(x, a, b), Part(y, b, d)
  PROVE  Part(x \o y, a, d)
<1>1. /\ x \in Seq(FrameSet) /\ y \in Seq(FrameSet) /\ Len(x) \in Nat /\ Len(y) \in Nat
      /\ a \in Nat /\ b \in Nat /\ d \in Nat /\ b = a + Len(x) /\ d = b + Len(y)
  BY DEF Part
<1> DEFINE z == x \o y
<1>2. /\ z \in Seq(FrameSet) /\ Len(z) = Len(x) + Len(y)
      /\ \A k \in 1 .. Len(x) : z[k] = x[k]
      /\ \A k \in Len(x) + 1 .. Len(x) + Len(y) : z[k] = y[k - Len(x)]
  BY <1>1
<1> HIDE DEF z
<1>3. ASSUME NEW k \in 1 .. Len(z) PROVE \E g \in Nat : z[k] = Item(a + k, g)
  <2>1. CASE k <= Len(x)
    <3>1. k \in 1 .. Len(x)
      BY <2>1, <1>1
    <3> QED BY <3>1, <1>2 DEF Part
  <2>2. CASE k > Len(x)
    <3>1. k - Len(x) \in 1 .. Len(y) /\ k \in Len(x) + 1 .. Len(x) + Len(y)
      BY <2>2, <1>1, <1>2
    <3>2. b + (k - Len(x)) = a + k
      BY <1>1, <3>1
    <3>3. \E g \in Nat : y[k - Len(x)] = Item(b + (k - Len(x)), g)
      BY <3>1 DEF Part
    <3> QED BY <3>1, <3>2, <3>3, <1>2
  <2> QED BY <2>1, <2>2, <1>1
<1>4. d = a + Len(z)
  BY <1>1, <1>2
<1> QED BY <1>1, <1>2, <1>3, <1>4 DEF Part, z

LEMMA ItemInSet == \A k, g \in Nat : Item(k, g) \in FrameSet
<1> TAKE k, g \in Nat
<1>1. k > TOTAL_FRAMES \/ k <= TOTAL_FRAMES
  BY PipeNumbers
<1> QED BY <1>1, LastItem, EarlierItem

LEMMA HandPart ==
  ASSUME PipeTypes, NEW s \in 1 .. 3, NEW a \in Nat
  PROVE  /\ Phase[s] \notin {"out", "notify_not_full"} => Part(Pipeline!InHand(s), a, a)
         /\ \A g \in Nat : Phase[s] \in {"out", "notify_not_full"} /\ frame[s] = Item(a + 1, g)
              => Part(Pipeline!InHand(s), a, a + 1)
<1>1. Phase[s] \in {"out", "notify_not_full"}
        <=> stage_at[s] \in {"push", "wait_not_full", "notify_not_full"}
  <2>1. Phase[s] = PhaseOf(stage_at[s]) /\ stage_at[s] \in Stage_places
    BY PhaseAt, PipeNumbers DEF PipeTypes
  <2> HIDE DEF Phase
  <2> QED BY <2>1 DEF PhaseOf, Stage_places
<1>2. ASSUME Phase[s] \notin {"out", "notify_not_full"}
      PROVE  Part(Pipeline!InHand(s), a, a)
  <2>1. Pipeline!InHand(s) = <<>>
    BY <1>1, <1>2 DEF Pipeline!InHand
  <2> QED BY <2>1 DEF Part
<1>3. ASSUME NEW g \in Nat, Phase[s] \in {"out", "notify_not_full"}, frame[s] = Item(a + 1, g)
      PROVE  Part(Pipeline!InHand(s), a, a + 1)
  <2> DEFINE f == frame[s]
  <2>1. Pipeline!InHand(s) = <<f>>
    BY <1>1, <1>3 DEF Pipeline!InHand
  <2>2. f = Item(a + 1, g) /\ f \in FrameSet
    BY <1>3, ItemInSet
  <2> HIDE DEF f
  <2>3. <<f>> \in Seq(FrameSet) /\ Len(<<f>>) = 1 /\ <<f>>[1] = f
    BY <2>2
  <2>4. Part(<<f>>, a, a + 1)
    BY <2>2, <2>3 DEF Part
  <2> QED BY <2>1, <2>4
<1> QED BY <1>2, <1>3

LEMMA ContentsPart ==
  ASSUME NEW j \in 1 .. 2, NEW o \in Nat, NEW e \in Nat, NEW g \in Nat,
         Carries(stage_queue[j], o, e, g)
  PROVE  /\ Part(Pipeline!Contents(j), o, e)
         /\ o = e => \A a \in Nat : Part(Pipeline!Contents(j), a, a)
<1> USE PipeNumbers
<1> DEFINE h == stage_queue[j].head
           m == stage_queue[j].count
           b == stage_queue[j].buffer
           x == [k \in 1 .. m |-> b[(h + k - 1) % QUEUE_CAP]]
<1>1. /\ h \in Nat /\ m \in Nat /\ e = o + m
      /\ \A k \in 0 .. m - 1 : b[(h + k) % QUEUE_CAP] = Item(o + k + 1, g)
  BY DEF Carries
<1>2. Pipeline!Contents(j) = x
  BY DEF Pipeline!Contents
<1> HIDE DEF h, m, b
<1>3. ASSUME NEW k \in 1 .. m PROVE x[k] = Item(o + k, g) /\ x[k] \in FrameSet
  <2>1. k - 1 \in 0 .. m - 1 /\ h + (k - 1) = h + k - 1 /\ o + (k - 1) + 1 = o + k /\ o + k \in Nat
    BY <1>1
  <2>2. b[(h + (k - 1)) % QUEUE_CAP] = Item(o + (k - 1) + 1, g)
    BY <2>1, <1>1
  <2> QED BY <2>1, <2>2, ItemInSet
<1>4. x \in Seq(FrameSet) /\ Len(x) = m
  <2>1. x \in [1 .. m -> FrameSet]
    BY <1>3
  <2> HIDE DEF x
  <2> QED BY <2>1, <1>1
<1>5. o = e => m = 0
  BY <1>1
<1> HIDE DEF x
<1> QED BY <1>1, <1>2, <1>3, <1>4, <1>5 DEF Part

LEMMA FramesFollow == PipeInv => Pipeline!FramesInOrder
<1> SUFFICES ASSUME PipeInv PROVE Pipeline!FramesInOrder
  OBVIOUS
<1> USE PipeNumbers
<1>1. PICK o2, e2, o1, e1 \in Nat : Positions(Phase, stage_queue, frame, consumed, o2, e2, o1, e1)
  BY DEF PipeInv, Flow
<1>2. /\ Consuming(Phase[3], frame[3], o2, consumed) /\ Carries(stage_queue[2], o2, e2, 1)
      /\ Filtering(Phase[2], frame[2], o1, e2) /\ Carries(stage_queue[1], o1, e1, 0)
      /\ Producing(Phase[1], frame[1], e1)
  BY <1>1 DEF Positions
<1>0. PipeTypes
  BY DEF PipeInv
<1> HIDE DEF Phase
<1> DEFINE c == Len(consumed)
<1>3. /\ consumed \in Seq(FrameSet) /\ c \in Nat /\ c <= TOTAL_FRAMES
      /\ \A k \in 1 .. c : consumed[k] = Pipeline!Frame(k, 1)
  BY <1>2 DEF Consuming
<1>4. Part(consumed, 0, c)
  <2>1. ASSUME NEW k \in 1 .. c PROVE consumed[k] = Item(0 + k, 1)
    <3>1. k \in Nat /\ k <= TOTAL_FRAMES /\ 0 + k = k
      BY <1>3
    <3>2. Item(k, 1) = Pipeline!Frame(k, 1)
      BY <3>1, EarlierItem
    <3> QED BY <3>1, <3>2, <1>3
  <2>2. c = 0 + c /\ 1 \in Nat
    BY <1>3
  <2> QED BY <2>1, <2>2, <1>3 DEF Part
<1>5. o2 <= e2 /\ o1 <= e1
  <2>1. stage_queue[2].count \in Nat /\ e2 = o2 + stage_queue[2].count
    BY <1>2 DEF Carries
  <2>2. stage_queue[1].count \in Nat /\ e1 = o1 + stage_queue[1].count
    BY <1>2 DEF Carries
  <2> QED BY <2>1, <2>2
<1> HIDE DEF c
<1> DEFINE x3 == Pipeline!InHand(3)
           y2 == Pipeline!Contents(2)
           x2 == Pipeline!InHand(2)
           y1 == Pipeline!Contents(1)
           x1 == Pipeline!InHand(1)
           flight == consumed \o x3 \o y2 \o x2 \o y1 \o x1
<1>6. PICK b \in Nat : Part(flight, 0, b) /\ b <= TOTAL_FRAMES + 1
  <2>0. 1 \in 1 .. 3 /\ 2 \in 1 .. 3 /\ 3 \in 1 .. 3 /\ 0 \in Nat /\ 1 \in Nat
        /\ 1 \in 1 .. 2 /\ 2 \in 1 .. 2
    OBVIOUS
  <2>1. CASE Phase[3] = "done"
    <3>1. o2 = TOTAL_FRAMES + 1 /\ c = TOTAL_FRAMES /\ e1 <= TOTAL_FRAMES + 1
          /\ (o1 = e2 \/ o1 = e2 + 1)
      BY <2>1, <1>2, <1>3 DEF Consuming, Producing, Filtering, c
    <3>2. e2 = o2 /\ o1 = e2 /\ e1 = o1
      BY <3>1, <1>5
    <3>3. Phase[2] \notin {"out", "notify_not_full"} /\ Phase[1] \notin {"out", "notify_not_full"}
      BY <3>1, <3>2, <1>2 DEF Filtering, Producing
    <3>4. Part(x3, c, c) /\ Part(x2, c, c) /\ Part(x1, c, c)
      BY <3>3, <2>0, <2>1, <1>3, <1>0, HandPart
    <3>5. Part(y2, c, c) /\ Part(y1, c, c)
      BY <3>2, <2>0, <1>2, <1>3, ContentsPart
    <3> HIDE DEF x3, y2, x2, y1, x1
    <3>6. Part(consumed \o x3, 0, c)
      BY <3>4, <1>4, PartsJoin
    <3>7. Part(consumed \o x3 \o y2, 0, c)
      BY <3>5, <3>6, PartsJoin
    <3>8. Part(consumed \o x3 \o y2 \o x2, 0, c)
      BY <3>4, <3>7, PartsJoin
    <3>9. Part(consumed \o x3 \o y2 \o x2 \o y1, 0, c)
      BY <3>5, <3>8, PartsJoin
    <3>10. Part(flight, 0, c)
      BY <3>4, <3>9, PartsJoin
    <3>11. c \in Nat /\ c <= TOTAL_FRAMES + 1
      BY <1>3
    <3> QED BY <3>10, <3>11
  <2>2. CASE Phase[3] # "done"
    <3>1. Part(x3, c, o2)
      <4>1. CASE Phase[3] = "in"
        <5>1. o2 = c /\ Phase[3] \notin {"out", "notify_not_full"}
          BY <4>1, <1>2 DEF Consuming, c
        <5> QED BY <5>1, <2>0, <1>3, <1>0, HandPart
      <4>2. CASE Phase[3] = "notify_not_full"
        <5>1. o2 = c + 1 /\ frame[3] = Item(c + 1, 1) /\ Phase[3] \in {"out", "notify_not_full"}
          BY <4>2, <1>2 DEF Consuming, c
        <5> QED BY <5>1, <2>0, <1>3, <1>0, HandPart
      <4> QED BY <4>1, <4>2, <2>2, <1>2 DEF Consuming
    <3>2. Part(x2, e2, o1)
      <4>1. CASE Phase[2] \in {"out", "notify_not_full"}
        <5>1. o1 = e2 + 1 /\ (frame[2] = Item(e2 + 1, 0) \/ frame[2] = Item(e2 + 1, 1))
          BY <4>1, <1>2 DEF Filtering
        <5> QED BY <5>1, <4>1, <2>0, <1>0, HandPart
      <4>2. CASE Phase[2] \notin {"out", "notify_not_full"}
        <5>1. o1 = e2
          BY <4>2, <1>2 DEF Filtering
        <5> QED BY <5>1, <4>2, <2>0, <1>0, HandPart
      <4> QED BY <4>1, <4>2
    <3>3. PICK b \in Nat : Part(x1, e1, b) /\ b <= TOTAL_FRAMES + 1
      <4>1. CASE Phase[1] = "out"
        <5>1. e1 <= TOTAL_FRAMES /\ frame[1] = Item(e1 + 1, 0) /\ Phase[1] \in {"out", "notify_not_full"}
          BY <4>1, <1>2 DEF Producing
        <5>2. Part(x1, e1, e1 + 1)
          BY <5>1, <2>0, <1>0, HandPart
        <5>3. e1 + 1 \in Nat /\ e1 + 1 <= TOTAL_FRAMES + 1
          BY <5>1
        <5> QED BY <5>2, <5>3
      <4>2. CASE Phase[1] # "out"
        <5>1. e1 <= TOTAL_FRAMES + 1 /\ Phase[1] \notin {"out", "notify_not_full"}
          BY <4>2, <1>2 DEF Producing
        <5>2. Part(x1, e1, e1)
          BY <5>1, <2>0, <1>0, HandPart
        <5> QED BY <5>1, <5>2
      <4> QED BY <4>1, <4>2
    <3>4. Part(y2, o2, e2) /\ Part(y1, o1, e1)
      BY <2>0, <1>2, ContentsPart
    <3> HIDE DEF x3, y2, x2, y1, x1
    <3>6. Part(consumed \o x3, 0, o2)
      BY <3>1, <1>4, PartsJoin
    <3>7. Part(consumed \o x3 \o y2, 0, e2)
      BY <3>4, <3>6, PartsJoin
    <3>8. Part(consumed \o x3 \o y2 \o x2, 0, o1)
      BY <3>2, <3>7, PartsJoin
    <3>9. Part(consumed \o x3 \o y2 \o x2 \o y1, 0, e1)
      BY <3>4, <3>8, PartsJoin
    <3>10. Part(flight, 0, b)
      BY <3>3, <3>9, PartsJoin
    <3> QED BY <3>3, <3>10
  <2> QED BY <2>1, <2>2
<1>7. Pipeline!InFlight = flight
  BY DEF Pipeline!InFlight
<1> HIDE DEF flight
<1>8. ASSUME NEW k \in 1 .. Len(flight)
      PROVE  LET f == flight[k] IN IF f.is_last THEN k = TOTAL_FRAMES + 1 ELSE f.n = k
  <2>1. PICK g \in Nat : flight[k] = Item(0 + k, g)
    BY <1>6 DEF Part
  <2>2. k \in Nat /\ k <= TOTAL_FRAMES + 1 /\ 0 + k = k
    BY <1>6 DEF Part
  <2>3. CASE k <= TOTAL_FRAMES
    <3>1. ~Item(k, g).is_last /\ Item(k, g).n = k
      BY <2>2, <2>3, EarlierItem
    <3> QED BY <3>1, <2>1, <2>2
  <2>4. CASE k > TOTAL_FRAMES
    <3>1. k = TOTAL_FRAMES + 1
      BY <2>2, <2>4
    <3>2. Item(k, g).is_last
      BY <2>2, <2>4, LastItem
    <3> QED BY <3>1, <3>2, <2>1, <2>2
  <2> QED BY <2>2, <2>3, <2>4
<1>9. \A k \in 1 .. Len(consumed) : consumed[k].gains = 1
  <2> TAKE k \in 1 .. Len(consumed)
  <2>1. consumed[k] = [n |-> k, gains |-> 1, is_last |-> FALSE]
    BY <1>3 DEF c, Pipeline!Frame
  <2> QED BY <2>1
<1>10. Pipeline!Ended => Len(consumed) = TOTAL_FRAMES
  <2> SUFFICES ASSUME Pipeline!Ended PROVE Len(consumed) = TOTAL_FRAMES
    OBVIOUS
  <2>1. stage_at[3] = "done"
    BY DEF Pipeline!Ended
  <2>2. Phase[3] = "done"
    BY <2>1, PhaseAt DEF PhaseOf
  <2> QED BY <2>2, <1>2, <1>3 DEF Consuming, c
<1> QED BY <1>7, <1>8, <1>9, <1>10 DEF Pipeline!FramesInOrder
-----------------------------------------------------------------------------
(* Day 31: the market *)

Market_at == {"none", "lock", "print", "done"}

MarketTypes ==
  /\ current_tick \in 0 .. TOTAL_TICKS /\ spawned \in 0 .. MARKET_WORKERS
  /\ tick_of \in [Market!Workers -> Nat] /\ market_at \in [Market!Workers -> Market_at]
  /\ market_main \in {"spawn", "join", "returned"} /\ ret \in {0, 1}
  /\ printed_by \in [Market!Ticks -> SUBSET Market!Workers]

\* A tick taken is either in the hands of the one worker about to print it or printed.
TicksHeld ==
  /\ \A w \in Market!Workers :
       /\ market_at[w] = "print" =>
            tick_of[w] \in 1 .. current_tick /\ printed_by[tick_of[w]] = {}
       /\ market_at[w] # "print" => tick_of[w] = 0
  /\ \A w, v \in Market!Workers :
       market_at[w] = "print" /\ market_at[v] = "print" /\ tick_of[w] = tick_of[v] => w = v
  /\ \A k \in Market!Ticks :
       /\ k > current_tick => printed_by[k] = {}
       /\ k <= current_tick =>
            \/ \E w \in Market!Workers : printed_by[k] = {w}
            \/ \E w \in Market!Workers : market_at[w] = "print" /\ tick_of[w] = k

\* A worker leaves when no tick is left; main leaves with the workers it could start.
MarketEnds ==
  /\ \A w \in Market!Workers : market_at[w] = "none" <=> w > spawned
  /\ \A w \in Market!Workers : market_at[w] = "done" => current_tick = TOTAL_TICKS
  /\ market_main # "spawn" /\ ret = 0 => spawned = MARKET_WORKERS
  /\ market_main = "returned" => \A w \in 1 .. spawned : market_at[w] = "done"

MarketInv == MarketTypes /\ TicksHeld /\ MarketEnds

LEMMA MarketNumbers ==
  /\ MARKET_WORKERS \in Nat \ {0} /\ TOTAL_TICKS \in Nat
  /\ Market!Workers = 1 .. MARKET_WORKERS /\ Market!Ticks = 1 .. TOTAL_TICKS
BY MarketUsable DEF Market!MarketAssumption, Market!Workers, Market!Ticks

LEMMA MarketInitially == Market!Init => MarketInv
<1> SUFFICES ASSUME Market!Init PROVE MarketInv
  OBVIOUS
<1> USE MarketNumbers DEF Market!Init
<1>1. MarketTypes
  BY DEF MarketTypes, Market_at
<1>2. TicksHeld
  BY DEF TicksHeld
<1>3. MarketEnds
  BY DEF MarketEnds
<1> QED BY <1>1, <1>2, <1>3 DEF MarketInv

LEMMA TickTaken ==
  ASSUME MarketInv, NEW w \in Market!Workers, Market!TakeTick(w)
  PROVE  MarketInv'
<1> USE MarketNumbers DEF MarketInv
<1>1. /\ market_at[w] = "lock" /\ current_tick < TOTAL_TICKS
      /\ current_tick' = current_tick + 1
      /\ tick_of' = [tick_of EXCEPT ![w] = current_tick + 1]
      /\ market_at' = [market_at EXCEPT ![w] = "print"]
      /\ spawned' = spawned /\ market_main' = market_main /\ ret' = ret
      /\ printed_by' = printed_by
  BY DEF Market!TakeTick
<1>2. MarketTypes'
  BY <1>1 DEF MarketTypes, Market_at
<1>3. /\ market_at'[w] = "print" /\ tick_of'[w] = current_tick + 1
      /\ \A v \in Market!Workers : v # w =>
           market_at'[v] = market_at[v] /\ tick_of'[v] = tick_of[v]
      /\ current_tick \in Nat /\ current_tick + 1 \in Market!Ticks
  BY <1>1 DEF MarketTypes
<1>4. /\ printed_by[current_tick + 1] = {}
      /\ \A v \in Market!Workers : market_at[v] = "print" => tick_of[v] <= current_tick
  BY <1>3 DEF TicksHeld
<1>5. TicksHeld'
  <2>1. ASSUME NEW v \in Market!Workers
        PROVE  /\ market_at'[v] = "print" =>
                    tick_of'[v] \in 1 .. current_tick' /\ printed_by'[tick_of'[v]] = {}
               /\ market_at'[v] # "print" => tick_of'[v] = 0
    <3>1. /\ market_at[v] = "print" =>
               tick_of[v] \in 1 .. current_tick /\ printed_by[tick_of[v]] = {}
          /\ market_at[v] # "print" => tick_of[v] = 0
      BY DEF TicksHeld
    <3>2. CASE v = w
      <4>1. tick_of'[v] = current_tick + 1 /\ market_at'[v] = "print"
        BY <3>2, <1>3
      <4>2. current_tick + 1 \in 1 .. current_tick' /\ printed_by'[current_tick + 1] = {}
        BY <1>1, <1>3, <1>4
      <4> QED BY <4>1, <4>2
    <3>3. CASE v # w
      <4>1. tick_of'[v] = tick_of[v] /\ market_at'[v] = market_at[v]
        BY <3>3, <1>3
      <4>2. tick_of[v] \in 1 .. current_tick => tick_of[v] \in 1 .. current_tick'
        BY <1>1, <1>3
      <4> QED BY <3>1, <4>1, <4>2, <1>1
    <3> QED BY <3>2, <3>3
  <2>2. \A u, v \in Market!Workers :
          market_at'[u] = "print" /\ market_at'[v] = "print" /\ tick_of'[u] = tick_of'[v] => u = v
    <3>1. \A v \in Market!Workers : v # w /\ market_at'[v] = "print" => tick_of'[v] # tick_of'[w]
      BY <1>3, <1>4
    <3> QED BY <3>1, <1>3 DEF TicksHeld
  <2>3. ASSUME NEW k \in Market!Ticks
        PROVE  /\ k > current_tick' => printed_by'[k] = {}
               /\ k <= current_tick' =>
                    \/ \E u \in Market!Workers : printed_by'[k] = {u}
                    \/ \E u \in Market!Workers : market_at'[u] = "print" /\ tick_of'[u] = k
    <3>1. CASE k = current_tick + 1
      BY <3>1, <1>1, <1>3
    <3>2. CASE k > current_tick + 1
      BY <3>2, <1>1, <1>3 DEF TicksHeld
    <3>3. CASE k <= current_tick
      <4>1. \A u \in Market!Workers : market_at[u] = "print" => u # w
        BY <1>1
      <4> QED BY <3>3, <4>1, <1>1, <1>3 DEF TicksHeld
    <3> QED BY <3>1, <3>2, <3>3, <1>3
  <2> QED BY <2>1, <2>2, <2>3 DEF TicksHeld
<1>6. MarketEnds'
  <2>1. \A v \in Market!Workers : market_at[v] # "done"
    BY <1>1, <1>3 DEF MarketEnds
  <2>2. w <= spawned /\ w \in 1 .. spawned /\ spawned \in Nat
    BY <1>1 DEF MarketEnds, MarketTypes
  <2>3. market_main # "returned"
    BY <1>1, <2>2 DEF MarketEnds
  <2>4. \A v \in Market!Workers : market_at'[v] = "none" <=> v > spawned'
    BY <1>1, <1>3 DEF MarketEnds
  <2> QED BY <1>1, <1>3, <2>1, <2>3, <2>4 DEF MarketEnds
<1> QED BY <1>2, <1>5, <1>6

LEMMA TickPrinted ==
  ASSUME MarketInv, NEW w \in Market!Workers, Market!PrintTick(w)
  PROVE  MarketInv'
<1> USE MarketNumbers DEF MarketInv
<1> DEFINE t == tick_of[w]
<1>1. /\ market_at[w] = "print"
      /\ printed_by' = [printed_by EXCEPT ![t] = printed_by[t] \cup {w}]
      /\ tick_of' = [tick_of EXCEPT ![w] = 0]
      /\ market_at' = [market_at EXCEPT ![w] = "lock"]
      /\ spawned' = spawned /\ market_main' = market_main /\ ret' = ret
      /\ current_tick' = current_tick
  BY DEF Market!PrintTick
<1>2. t \in 1 .. current_tick /\ t \in Market!Ticks /\ printed_by[t] = {}
      /\ current_tick \in Nat /\ current_tick <= TOTAL_TICKS
  BY <1>1 DEF TicksHeld, MarketTypes
<1> HIDE DEF t
<1>3. MarketTypes'
  BY <1>1, <1>2 DEF MarketTypes, Market_at
<1>4. /\ market_at'[w] = "lock" /\ tick_of'[w] = 0 /\ tick_of[w] = t
      /\ \A v \in Market!Workers : v # w =>
           market_at'[v] = market_at[v] /\ tick_of'[v] = tick_of[v]
      /\ printed_by'[t] = {w} /\ \A k \in Market!Ticks : k # t => printed_by'[k] = printed_by[k]
  BY <1>1, <1>2 DEF MarketTypes, t
<1>5. \A v \in Market!Workers : v # w /\ market_at[v] = "print" =>
        tick_of[v] # t /\ tick_of[v] \in Market!Ticks
  BY <1>1, <1>2, <1>4 DEF TicksHeld
<1>6. TicksHeld'
  <2>1. ASSUME NEW v \in Market!Workers
        PROVE  /\ market_at'[v] = "print" =>
                    tick_of'[v] \in 1 .. current_tick' /\ printed_by'[tick_of'[v]] = {}
               /\ market_at'[v] # "print" => tick_of'[v] = 0
    <3>1. /\ market_at[v] = "print" =>
               tick_of[v] \in 1 .. current_tick /\ printed_by[tick_of[v]] = {}
          /\ market_at[v] # "print" => tick_of[v] = 0
      BY DEF TicksHeld
    <3>2. CASE v = w
      BY <3>2, <1>4
    <3>3. CASE v # w
      <4>1. tick_of'[v] = tick_of[v] /\ market_at'[v] = market_at[v]
        BY <3>3, <1>4
      <4>2. market_at[v] = "print" => printed_by'[tick_of[v]] = printed_by[tick_of[v]]
        BY <3>3, <1>4, <1>5
      <4> QED BY <3>1, <4>1, <4>2, <1>1
    <3> QED BY <3>2, <3>3
  <2>2. \A u, v \in Market!Workers :
          market_at'[u] = "print" /\ market_at'[v] = "print" /\ tick_of'[u] = tick_of'[v] => u = v
    BY <1>4 DEF TicksHeld
  <2>3. ASSUME NEW k \in Market!Ticks
        PROVE  /\ k > current_tick' => printed_by'[k] = {}
               /\ k <= current_tick' =>
                    \/ \E u \in Market!Workers : printed_by'[k] = {u}
                    \/ \E u \in Market!Workers : market_at'[u] = "print" /\ tick_of'[u] = k
    <3>1. CASE k = t
      BY <3>1, <1>1, <1>2, <1>4
    <3>2. CASE k # t
      <4>1. \A u \in Market!Workers : market_at[u] = "print" /\ tick_of[u] = k => u # w
        BY <3>2, <1>4
      <4> QED BY <3>2, <4>1, <1>1, <1>4 DEF TicksHeld
    <3> QED BY <3>1, <3>2
  <2> QED BY <2>1, <2>2, <2>3 DEF TicksHeld
<1>7. MarketEnds'
  <2>1. w \in 1 .. spawned
    BY <1>1 DEF MarketEnds, MarketTypes
  <2>2. market_main # "returned"
    BY <1>1, <2>1 DEF MarketEnds
  <2>3. \A v \in Market!Workers : market_at'[v] = "none" <=> v > spawned'
    BY <1>1, <1>4 DEF MarketEnds
  <2> QED BY <1>1, <1>4, <2>2, <2>3 DEF MarketEnds
<1> QED BY <1>3, <1>6, <1>7

LEMMA TicksHeldStill ==
  ASSUME TicksHeld, current_tick' = current_tick, tick_of' = tick_of, printed_by' = printed_by,
         \A w \in Market!Workers : market_at'[w] = "print" <=> market_at[w] = "print"
  PROVE  TicksHeld'
<1> DEFINE prints(w) == market_at[w] = "print"
           printed(w) == market_at'[w] = "print"
<1>1. \A w \in Market!Workers : printed(w) <=> prints(w)
  OBVIOUS
<1>2. TicksHeld <=>
        /\ \A w \in Market!Workers :
             /\ prints(w) => tick_of[w] \in 1 .. current_tick /\ printed_by[tick_of[w]] = {}
             /\ ~prints(w) => tick_of[w] = 0
        /\ \A w, v \in Market!Workers : prints(w) /\ prints(v) /\ tick_of[w] = tick_of[v] => w = v
        /\ \A k \in Market!Ticks :
             /\ k > current_tick => printed_by[k] = {}
             /\ k <= current_tick =>
                  \/ \E w \in Market!Workers : printed_by[k] = {w}
                  \/ \E w \in Market!Workers : prints(w) /\ tick_of[w] = k
  BY DEF TicksHeld
<1>3. TicksHeld' <=>
        /\ \A w \in Market!Workers :
             /\ printed(w) => tick_of[w] \in 1 .. current_tick /\ printed_by[tick_of[w]] = {}
             /\ ~printed(w) => tick_of[w] = 0
        /\ \A w, v \in Market!Workers : printed(w) /\ printed(v) /\ tick_of[w] = tick_of[v] => w = v
        /\ \A k \in Market!Ticks :
             /\ k > current_tick => printed_by[k] = {}
             /\ k <= current_tick =>
                  \/ \E w \in Market!Workers : printed_by[k] = {w}
                  \/ \E w \in Market!Workers : printed(w) /\ tick_of[w] = k
  BY DEF TicksHeld
<1> HIDE DEF prints, printed
<1> QED BY <1>1, <1>2, <1>3

LEMMA MarketOthers ==
  ASSUME MarketInv,
         \/ Market!Spawn \/ Market!SpawnFails \/ Market!AllSpawned \/ Market!join_all
         \/ \E w \in Market!Workers : Market!NoWork(w)
  PROVE  MarketInv'
<1> USE MarketNumbers DEF MarketInv
<1>1. CASE \E w \in Market!Workers : Market!NoWork(w)
  <2>1. PICK w \in Market!Workers : Market!NoWork(w)
    BY <1>1
  <2>2. /\ market_at[w] = "lock" /\ current_tick >= TOTAL_TICKS
        /\ market_at' = [market_at EXCEPT ![w] = "done"]
        /\ current_tick' = current_tick /\ tick_of' = tick_of /\ spawned' = spawned
        /\ market_main' = market_main /\ ret' = ret /\ printed_by' = printed_by
    BY <2>1 DEF Market!NoWork
  <2>3. /\ market_at'[w] = "done" /\ current_tick = TOTAL_TICKS
        /\ \A v \in Market!Workers : v # w => market_at'[v] = market_at[v]
    BY <2>2 DEF MarketTypes
  <2>4. MarketTypes'
    BY <2>2 DEF MarketTypes, Market_at
  <2>5. \A v \in Market!Workers : market_at'[v] = "print" <=> market_at[v] = "print"
    BY <2>2, <2>3
  <2>6. TicksHeld'
    BY <2>2, <2>5, TicksHeldStill
  <2>7. MarketEnds'
    BY <2>2, <2>3 DEF MarketEnds, MarketTypes
  <2> QED BY <2>4, <2>6, <2>7
<1>2. CASE Market!Spawn
  <2> DEFINE w == spawned + 1
  <2>1. /\ market_main = "spawn" /\ spawned < MARKET_WORKERS /\ spawned' = w
        /\ market_at' = [market_at EXCEPT ![w] = "lock"]
        /\ current_tick' = current_tick /\ tick_of' = tick_of
        /\ market_main' = market_main /\ ret' = ret /\ printed_by' = printed_by
    BY <1>2 DEF Market!Spawn
  <2>2. w \in Market!Workers /\ w > spawned /\ spawned \in Nat
    BY <2>1 DEF MarketTypes
  <2>3. market_at[w] = "none"
    BY <2>2 DEF MarketEnds
  <2>4. \A v : v \in Market!Workers => (v > w <=> v > spawned /\ v # w)
    BY <2>2
  <2>5. \A v \in 1 .. spawned : v # w /\ v \in Market!Workers
    BY <2>1, <2>2
  <2> HIDE DEF w
  <2>6. /\ market_at'[w] = "lock"
        /\ \A v \in Market!Workers : v # w => market_at'[v] = market_at[v]
    BY <2>1, <2>2 DEF MarketTypes
  <2>7. MarketTypes'
    BY <2>1, <2>2 DEF MarketTypes, Market_at
  <2>8. \A v \in Market!Workers : market_at'[v] = "print" <=> market_at[v] = "print"
    BY <2>3, <2>6
  <2>9. TicksHeld'
    BY <2>1, <2>8, TicksHeldStill DEF MarketInv
  <2>10. MarketEnds'
    BY <2>1, <2>3, <2>4, <2>6 DEF MarketEnds
  <2> QED BY <2>7, <2>9, <2>10
<1>3. CASE Market!SpawnFails
  BY <1>3 DEF Market!SpawnFails, MarketTypes, TicksHeld, MarketEnds
<1>4. CASE Market!AllSpawned
  BY <1>4 DEF Market!AllSpawned, MarketTypes, TicksHeld, MarketEnds
<1>5. CASE Market!join_all
  <2>1. /\ \A w \in 1 .. spawned : market_at[w] = "done"
        /\ market_main' = "returned" /\ current_tick' = current_tick /\ tick_of' = tick_of
        /\ market_at' = market_at /\ spawned' = spawned /\ ret' = ret
        /\ printed_by' = printed_by /\ market_main = "join"
    BY <1>5 DEF Market!join_all
  <2>2. MarketTypes' /\ TicksHeld'
    BY <2>1, TicksHeldStill DEF MarketTypes
  <2>3. MarketEnds'
    BY <2>1 DEF MarketEnds
  <2> QED BY <2>2, <2>3
<1> QED BY <1>1, <1>2, <1>3, <1>4, <1>5

LEMMA MarketInductive ==
  ASSUME MarketInv, Market!Next \/ UNCHANGED market_vars
  PROVE  MarketInv'
<1>1. CASE UNCHANGED market_vars
  BY <1>1 DEF market_vars, MarketInv, MarketTypes, TicksHeld, MarketEnds
<1>2. CASE Market!Next
  BY <1>2, TickTaken, TickPrinted, MarketOthers
     DEF Market!Next, Market!MainStep, Market!worker_loop
<1> QED BY <1>1, <1>2

LEMMA SameCard ==
  \A S : Market!Cardinality(S) = Cardinality(S) /\ Jobs!Cardinality(S) = Cardinality(S)
BY DEF Market!Cardinality, Jobs!Cardinality, Cardinality

LEMMA TicksFollow == MarketInv => Market!TicksOnce
<1> SUFFICES ASSUME MarketInv PROVE Market!TicksOnce
  OBVIOUS
<1> USE MarketNumbers DEF MarketInv
<1>1. ASSUME NEW k \in Market!Ticks
      PROVE  Cardinality(printed_by[k]) + Cardinality({w \in Market!Workers : tick_of[w] = k})
               = IF k <= current_tick THEN 1 ELSE 0
  <2> DEFINE H == {w \in Market!Workers : tick_of[w] = k}
  <2>1. k \in Nat /\ k # 0 /\ current_tick \in Nat
    BY DEF MarketTypes
  <2>2. \A w \in Market!Workers : tick_of[w] = k =>
          market_at[w] = "print" /\ k <= current_tick /\ printed_by[k] = {}
    BY <2>1 DEF TicksHeld
  <2>3. \A w, v \in H : w = v
    BY <2>2 DEF TicksHeld
  <2>4. CASE k > current_tick
    <3>1. \A w \in Market!Workers : tick_of[w] # k
      BY <2>1, <2>2, <2>4
    <3>2. H = {} /\ printed_by[k] = {}
      BY <3>1, <2>4 DEF TicksHeld
    <3>3. Cardinality(H) = 0 /\ Cardinality(printed_by[k]) = 0
      BY <3>2, FS_EmptySet
    <3>4. ~(k <= current_tick)
      BY <2>1, <2>4
    <3> HIDE DEF H
    <3>5. Cardinality(printed_by[k]) + Cardinality(H) = 0
      BY <3>3
    <3> QED BY <3>4, <3>5 DEF H
  <2>5. CASE k <= current_tick /\ \E w \in Market!Workers : printed_by[k] = {w}
    <3>1. PICK w \in Market!Workers : printed_by[k] = {w}
      BY <2>5
    <3>2. H = {}
      BY <2>2, <3>1
    <3>3. Cardinality(printed_by[k]) = 1 /\ Cardinality(H) = 0
      BY <3>1, <3>2, FS_EmptySet, FS_Singleton
    <3> QED BY <3>3, <2>5
  <2>6. CASE /\ k <= current_tick
             /\ \E w \in Market!Workers : market_at[w] = "print" /\ tick_of[w] = k
    <3>1. PICK w \in Market!Workers : tick_of[w] = k
      BY <2>6
    <3>2. printed_by[k] = {} /\ H = {w}
      BY <2>2, <2>3, <3>1
    <3>3. Cardinality(printed_by[k]) = 0 /\ Cardinality(H) = 1
      BY <3>2, FS_EmptySet, FS_Singleton
    <3> QED BY <3>3, <2>6
  <2>7. k > current_tick \/ k <= current_tick
    BY <2>1
  <2> QED BY <2>4, <2>5, <2>6, <2>7 DEF TicksHeld
<1>2. ASSUME market_main = "returned", ~(spawned = 0 /\ ret = 1), NEW k \in Market!Ticks
      PROVE  printed_by[k] # {}
  <2>1. spawned \in Nat /\ spawned # 0 /\ spawned <= MARKET_WORKERS
    BY <1>2 DEF MarketTypes, MarketEnds
  <2>2. 1 \in 1 .. spawned /\ 1 \in Market!Workers
    BY <2>1
  <2>3. current_tick = TOTAL_TICKS
    BY <1>2, <2>2 DEF MarketEnds
  <2>4. \A w \in Market!Workers : market_at[w] # "print"
    <3>1. \A w \in Market!Workers : ~(w > spawned) => w \in 1 .. spawned
      BY <2>1
    <3> QED BY <3>1, <1>2 DEF MarketEnds
  <2>5. ~(k > current_tick)
    BY <2>3
  <2>6. k <= current_tick
    BY <2>3
  <2>7. CASE \E w \in Market!Workers : printed_by[k] = {w}
    BY <2>7
  <2> QED BY <2>4, <2>6, <2>7 DEF TicksHeld
<1>3. market_main = "returned" =>
        \/ \A k \in Market!Ticks : printed_by[k] # {}
        \/ spawned = 0 /\ ret = 1
  BY <1>2
<1> QED BY <1>1, <1>3, SameCard DEF Market!TicksOnce
-----------------------------------------------------------------------------
(* Day 34 in C++: the futures of the job system *)

Job_places == {"none", "check", "wait", "run", "returned"}
Job_main_places ==
  {"construct", "enqueue", "notify", "notify_all", "join", "returned", "terminated"}

\* How many tasks have left the queue.
Left == enqueued - Len(job_queue)

JobTypes ==
  /\ job_queue \in Seq(Nat) /\ stop \in BOOLEAN
  /\ job_worker \in [Jobs!Workers -> Job_places] /\ task \in [Jobs!Workers -> Nat]
  /\ job_main \in Job_main_places
  /\ enqueued \in 0 .. JOBS /\ got \in Nat /\ promised \in [Jobs!Tasks -> Nat]

\* The queue holds the last tasks in order; of the tasks before, those that one worker
\* holds have no value yet, and all others have theirs.
TasksPlaced ==
  /\ Len(job_queue) <= enqueued
  /\ \A j \in 1 .. Len(job_queue) : job_queue[j] = Left + j
  /\ \A w \in Jobs!Workers :
       /\ job_worker[w] = "run" => task[w] \in 1 .. Left
       /\ job_worker[w] # "run" => task[w] = 0
  /\ \A w, v \in Jobs!Workers : task[w] = task[v] /\ task[w] # 0 => w = v
  /\ \A k \in Jobs!Tasks :
       /\ k > Left => promised[k] = 0
       /\ k <= Left /\ (\E w \in Jobs!Workers : task[w] = k) => promised[k] = 0
       /\ k <= Left /\ (\A w \in Jobs!Workers : task[w] # k) => promised[k] = 1

\* Workers leave a stopped pool with an empty queue, to which nothing is added any more.
JobEnds ==
  /\ stop <=> job_main \in {"notify_all", "join", "returned"}
  /\ stop => enqueued = JOBS
  /\ job_main \notin {"construct", "terminated"} => JOB_THREADS > 0
  /\ \A w \in Jobs!Workers : job_worker[w] = "returned" => stop /\ job_queue = <<>>
  /\ job_main = "returned" => \A w \in Jobs!Workers : job_worker[w] = "returned"
  /\ job_main \in {"construct", "terminated"} => enqueued = 0

JobInv == JobTypes /\ TasksPlaced /\ JobEnds

LEMMA JobNumbers ==
  /\ JOB_THREADS \in Nat /\ JOBS \in Nat
  /\ Jobs!Workers = 1 .. JOB_THREADS /\ Jobs!Tasks = 1 .. JOBS
BY JobsUsable DEF Jobs!JobAssumption, Jobs!Workers, Jobs!Tasks

LEMMA JobsInitially == Jobs!Init => JobInv
<1> SUFFICES ASSUME Jobs!Init PROVE JobInv
  OBVIOUS
<1> USE JobNumbers DEF Jobs!Init
<1>1. JobTypes
  <2>1. job_queue \in Seq(Nat) /\ enqueued \in 0 .. JOBS
    OBVIOUS
  <2>2. job_worker \in [Jobs!Workers -> Job_places] /\ task \in [Jobs!Workers -> Nat]
    BY DEF Job_places
  <2>3. promised \in [Jobs!Tasks -> Nat] /\ got \in Nat
    OBVIOUS
  <2>4. stop \in BOOLEAN
    OBVIOUS
  <2>5. job_main \in Job_main_places
    BY DEF Job_main_places
  <2> QED BY <2>1, <2>2, <2>3, <2>4, <2>5 DEF JobTypes
<1>2. TasksPlaced
  BY DEF TasksPlaced, Left
<1>3. JobEnds
  BY DEF JobEnds
<1> QED BY <1>1, <1>2, <1>3 DEF JobInv

\* Where a worker goes matters only when it takes a task, runs one or leaves.
LEMMA WorkersMove ==
  ASSUME JobInv,
         NEW here \in [Jobs!Workers -> Job_places], job_worker' = here,
         \A w \in Jobs!Workers :
           \/ here[w] = job_worker[w]
           \/ here[w] \in {"check", "wait"} /\ job_worker[w] \notin {"run", "returned"}
           \/ here[w] = "returned" /\ job_worker[w] # "run" /\ stop /\ job_queue = <<>>,
         job_queue' = job_queue, task' = task, enqueued' = enqueued,
         promised' = promised, got' \in Nat
  PROVE  /\ stop' \in BOOLEAN /\ job_main' \in Job_main_places => JobTypes'
         /\ TasksPlaced'
         /\ stop' = stop => \A w \in Jobs!Workers :
              job_worker'[w] = "returned" => stop' /\ job_queue' = <<>>
<1> USE JobNumbers
<1>1. stop' \in BOOLEAN /\ job_main' \in Job_main_places => JobTypes'
  BY DEF JobInv, JobTypes
<1>2. \A w \in Jobs!Workers : job_worker'[w] = "run" <=> job_worker[w] = "run"
  OBVIOUS
<1>3. Left' = Left
  BY DEF Left
<1>4. TasksPlaced'
  BY <1>2, <1>3 DEF JobInv, TasksPlaced
<1>5. \A w \in Jobs!Workers :
        job_worker'[w] = "returned" => stop /\ job_queue = <<>>
  BY DEF JobInv, JobEnds
<1> QED BY <1>1, <1>4, <1>5

LEMMA JobTaken ==
  ASSUME JobInv, NEW w \in Jobs!Workers, Jobs!Take(w)
  PROVE  JobInv'
<1> USE JobNumbers
<1> DEFINE t == Left + 1
<1>1. /\ job_worker[w] = "check" /\ job_queue # <<>>
      /\ task' = [task EXCEPT ![w] = Head(job_queue)]
      /\ job_queue' = Tail(job_queue)
      /\ job_worker' = [job_worker EXCEPT ![w] = "run"]
      /\ stop' = stop /\ job_main' = job_main /\ enqueued' = enqueued /\ got' = got
      /\ promised' = promised
  BY DEF Jobs!Take, Jobs!SetWorker
<1>2. /\ job_queue \in Seq(Nat) /\ Len(job_queue) \in Nat /\ Len(job_queue) > 0
      /\ enqueued \in Nat /\ Len(job_queue) <= enqueued /\ enqueued <= JOBS /\ Left \in Nat
  BY <1>1 DEF JobInv, JobTypes, TasksPlaced, Left
<1>3. /\ Head(job_queue) = job_queue[1] /\ Len(job_queue') = Len(job_queue) - 1
      /\ job_queue' \in Seq(Nat)
      /\ \A j \in 1 .. Len(job_queue) - 1 : job_queue'[j] = job_queue[j + 1]
  BY <1>1, <1>2
<1>4. /\ Left' = t /\ Head(job_queue) = t /\ t \in Jobs!Tasks /\ t \in Nat
  <2>1. job_queue[1] = Left + 1
    BY <1>2 DEF JobInv, TasksPlaced
  <2> QED BY <2>1, <1>1, <1>2, <1>3 DEF Left
<1>5. /\ task'[w] = t /\ task[w] = 0
      /\ \A v \in Jobs!Workers : v # w =>
           task'[v] = task[v] /\ job_worker'[v] = job_worker[v]
      /\ job_worker'[w] = "run"
      /\ \A v \in Jobs!Workers : task[v] \in Nat /\ task[v] <= Left
  BY <1>1, <1>2, <1>4 DEF JobInv, JobTypes, TasksPlaced
<1>6. JobTypes'
  BY <1>1, <1>3, <1>4 DEF JobInv, JobTypes, Job_places
<1>7. TasksPlaced'
  <2>1. \A j \in 1 .. Len(job_queue') : job_queue'[j] = Left' + j
    <3>1. ASSUME NEW j \in 1 .. Len(job_queue) - 1 PROVE job_queue[j + 1] = Left + (j + 1)
      BY <1>2 DEF JobInv, TasksPlaced
    <3> QED BY <3>1, <1>2, <1>3, <1>4
  <2>2. Len(job_queue') <= enqueued'
    BY <1>1, <1>2, <1>3
  <2> HIDE DEF t
  <2>3. \A v \in Jobs!Workers :
          /\ job_worker'[v] = "run" => task'[v] \in 1 .. Left'
          /\ job_worker'[v] # "run" => task'[v] = 0
    <3>1. Left' = Left + 1
      BY <1>4 DEF t
    <3>2. t \in 1 .. Left'
      BY <1>2, <1>4, <3>1
    <3>3. ASSUME NEW v \in Jobs!Workers
          PROVE  /\ job_worker'[v] = "run" => task'[v] \in 1 .. Left'
                 /\ job_worker'[v] # "run" => task'[v] = 0
      <4>1. CASE v = w
        BY <4>1, <3>2, <1>5
      <4>2. CASE v # w
        <5>1. task'[v] = task[v] /\ job_worker'[v] = job_worker[v]
          BY <4>2, <1>5
        <5>2. job_worker[v] = "run" => task[v] \in 1 .. Left'
          BY <3>1, <1>2 DEF JobInv, TasksPlaced
        <5> QED BY <5>1, <5>2 DEF JobInv, TasksPlaced
      <4> QED BY <4>1, <4>2
    <3> QED BY <3>3
  <2>4. \A u, v \in Jobs!Workers : task'[u] = task'[v] /\ task'[u] # 0 => u = v
    <3>1. \A v \in Jobs!Workers : task[v] # t
      BY <1>2, <1>5 DEF t
    <3> QED BY <3>1, <1>5 DEF JobInv, TasksPlaced
  <2>5. ASSUME NEW k \in Jobs!Tasks
        PROVE  /\ k > Left' => promised'[k] = 0
               /\ k <= Left' /\ (\E v \in Jobs!Workers : task'[v] = k) => promised'[k] = 0
               /\ k <= Left' /\ (\A v \in Jobs!Workers : task'[v] # k) => promised'[k] = 1
    <3>1. promised'[k] = promised[k] /\ k \in Nat /\ k # 0 /\ Left' = Left + 1
      BY <1>1, <1>4 DEF t
    <3>2. CASE k = t
      BY <3>1, <3>2, <1>2, <1>5 DEF JobInv, TasksPlaced, t
    <3>3. CASE k # t
      <4>1. \A v \in Jobs!Workers : task'[v] = k <=> task[v] = k
        BY <3>1, <3>3, <1>5
      <4>2. (k > Left' => k > Left) /\ (k <= Left' => k <= Left)
        BY <3>1, <3>3, <1>2 DEF t
      <4> QED BY <3>1, <4>1, <4>2 DEF JobInv, TasksPlaced
    <3> QED BY <3>2, <3>3
  <2> QED BY <2>1, <2>2, <2>3, <2>4, <2>5 DEF TasksPlaced
<1>8. JobEnds'
  BY <1>1, <1>2, <1>5 DEF JobInv, JobEnds
<1> QED BY <1>6, <1>7, <1>8 DEF JobInv

LEMMA JobRun ==
  ASSUME JobInv, NEW w \in Jobs!Workers, Jobs!Run(w)
  PROVE  JobInv'
<1> USE JobNumbers
<1> DEFINE t == task[w]
<1>1. /\ job_worker[w] = "run"
      /\ promised' = [promised EXCEPT ![t] = promised[t] + 1]
      /\ task' = [task EXCEPT ![w] = 0]
      /\ job_worker' = [job_worker EXCEPT ![w] = "check"]
      /\ job_queue' = job_queue /\ stop' = stop /\ job_main' = job_main
      /\ enqueued' = enqueued /\ got' = got
  BY DEF Jobs!Run, Jobs!SetWorker, Jobs!pool
<1>2. /\ Len(job_queue) \in Nat /\ Len(job_queue) <= enqueued /\ enqueued <= JOBS
      /\ Left \in Nat /\ Left <= JOBS /\ Left' = Left
  BY <1>1 DEF JobInv, JobTypes, TasksPlaced, Left
<1>3. t \in 1 .. Left /\ t \in Jobs!Tasks /\ t # 0 /\ promised[t] = 0
  BY <1>1, <1>2 DEF JobInv, TasksPlaced
<1> HIDE DEF t
<1>4. /\ promised'[t] = 1 /\ \A k \in Jobs!Tasks : k # t => promised'[k] = promised[k]
      /\ task'[w] = 0 /\ job_worker'[w] = "check" /\ task[w] = t
      /\ \A v \in Jobs!Workers : v # w =>
           task'[v] = task[v] /\ job_worker'[v] = job_worker[v]
  BY <1>1, <1>3 DEF JobInv, JobTypes, t
<1>5. \A v \in Jobs!Workers : task[v] = t => v = w
  BY <1>3, <1>4 DEF JobInv, TasksPlaced
<1>6. JobTypes'
  BY <1>1, <1>3 DEF JobInv, JobTypes, Job_places
<1>7. TasksPlaced'
  <2>1. ASSUME NEW k \in Jobs!Tasks
        PROVE  /\ k > Left' => promised'[k] = 0
               /\ k <= Left' /\ (\E v \in Jobs!Workers : task'[v] = k) => promised'[k] = 0
               /\ k <= Left' /\ (\A v \in Jobs!Workers : task'[v] # k) => promised'[k] = 1
    <3>1. k \in Nat /\ k # 0
      OBVIOUS
    <3>2. CASE k = t
      <4>1. \A v \in Jobs!Workers : task'[v] # k
        BY <3>1, <3>2, <1>4, <1>5
      <4> QED BY <3>2, <4>1, <1>2, <1>3, <1>4
    <3>3. CASE k # t
      <4>1. \A v \in Jobs!Workers : task'[v] = k <=> task[v] = k
        BY <3>1, <3>3, <1>4
      <4> QED BY <3>3, <4>1, <1>2, <1>4 DEF JobInv, TasksPlaced
    <3> QED BY <3>2, <3>3
  <2>2. \A v \in Jobs!Workers :
          /\ job_worker'[v] = "run" => task'[v] \in 1 .. Left'
          /\ job_worker'[v] # "run" => task'[v] = 0
    BY <1>2, <1>4 DEF JobInv, TasksPlaced
  <2>3. \A u, v \in Jobs!Workers : task'[u] = task'[v] /\ task'[u] # 0 => u = v
    BY <1>4 DEF JobInv, TasksPlaced
  <2> QED BY <2>1, <2>2, <2>3, <1>1, <1>2 DEF JobInv, TasksPlaced
<1>8. JobEnds'
  BY <1>1, <1>4 DEF JobInv, JobEnds
<1> QED BY <1>6, <1>7, <1>8 DEF JobInv

LEMMA JobEnqueued ==
  ASSUME JobInv, Jobs!enqueue
  PROVE  JobInv'
<1> USE JobNumbers
<1>1. /\ job_main = "enqueue" /\ enqueued < JOBS /\ ~stop
  BY DEF Jobs!enqueue, JobInv, JobEnds
<1>2. /\ job_main' = "notify" /\ job_queue' = Append(job_queue, enqueued + 1)
      /\ enqueued' = enqueued + 1 /\ stop' = stop /\ job_worker' = job_worker
      /\ task' = task /\ got' = got /\ promised' = promised
  BY <1>1 DEF Jobs!enqueue
<1>3. /\ job_queue \in Seq(Nat) /\ Len(job_queue) \in Nat /\ enqueued \in Nat
      /\ Len(job_queue) <= enqueued /\ Left \in Nat
  BY DEF JobInv, JobTypes, TasksPlaced, Left
<1>4. /\ job_queue' \in Seq(Nat) /\ Len(job_queue') = Len(job_queue) + 1
      /\ \A j \in 1 .. Len(job_queue) : job_queue'[j] = job_queue[j]
      /\ job_queue'[Len(job_queue) + 1] = enqueued + 1
  BY <1>2, <1>3
<1>5. Left' = Left /\ Left + (Len(job_queue) + 1) = enqueued + 1
  BY <1>2, <1>3, <1>4 DEF Left
<1>6. JobTypes'
  BY <1>1, <1>2, <1>3, <1>4 DEF JobInv, JobTypes, Job_main_places
<1>7. TasksPlaced'
  <2>1. ASSUME NEW j \in 1 .. Len(job_queue') PROVE job_queue'[j] = Left' + j
    <3>1. j \in 1 .. Len(job_queue) \/ j = Len(job_queue) + 1
      BY <1>3, <1>4
    <3> QED BY <3>1, <1>4, <1>5 DEF JobInv, TasksPlaced
  <2>2. Len(job_queue') <= enqueued'
    BY <1>2, <1>3, <1>4
  <2> QED BY <2>1, <2>2, <1>2, <1>5 DEF JobInv, TasksPlaced
<1>8. JobEnds'
  BY <1>1, <1>2 DEF JobInv, JobEnds
<1> QED BY <1>6, <1>7, <1>8 DEF JobInv

LEMMA JobOthers ==
  ASSUME JobInv,
         \/ Jobs!Construct \/ Jobs!ConstructThrows \/ Jobs!notify_one \/ Jobs!get
         \/ Jobs!Stop \/ Jobs!notify_all \/ Jobs!Join
         \/ \E w \in Jobs!Workers : Jobs!Wait(w) \/ Jobs!Return(w) \/ Jobs!Spurious(w)
  PROVE  JobInv'
<1> USE JobNumbers
<1>0. /\ job_worker \in [Jobs!Workers -> Job_places] /\ got \in Nat /\ stop \in BOOLEAN
      /\ job_main \in Job_main_places
  BY DEF JobInv, JobTypes
<1>1. CASE \E w \in Jobs!Workers : Jobs!Wait(w) \/ Jobs!Return(w) \/ Jobs!Spurious(w)
  <2>1. PICK w \in Jobs!Workers : Jobs!Wait(w) \/ Jobs!Return(w) \/ Jobs!Spurious(w)
    BY <1>1
  <2>2. PICK l \in Job_places :
          /\ job_worker' = [job_worker EXCEPT ![w] = l]
          /\ \/ l \in {"check", "wait"} /\ job_worker[w] \notin {"run", "returned"}
             \/ l = "returned" /\ job_worker[w] # "run" /\ stop /\ job_queue = <<>>
    BY <2>1 DEF Jobs!Wait, Jobs!Return, Jobs!Spurious, Jobs!SetWorker, Job_places
  <2>3. /\ job_queue' = job_queue /\ task' = task /\ enqueued' = enqueued /\ got' = got
        /\ promised' = promised /\ stop' = stop /\ job_main' = job_main
    BY <2>1 DEF Jobs!Wait, Jobs!Return, Jobs!Spurious, Jobs!pool
  <2>4. /\ job_worker' \in [Jobs!Workers -> Job_places]
        /\ job_worker'[w] = l /\ \A v \in Jobs!Workers : v # w => job_worker'[v] = job_worker[v]
    BY <1>0, <2>2
  <2>5. JobTypes' /\ TasksPlaced' /\ \A v \in Jobs!Workers :
              job_worker'[v] = "returned" => stop' /\ job_queue' = <<>>
    BY <1>0, <2>2, <2>3, <2>4, WorkersMove
  <2>6. job_main = "returned" => job_worker'[w] = "returned"
    BY <2>2, <2>4 DEF JobInv, JobEnds
  <2>7. JobEnds'
    BY <2>3, <2>4, <2>5, <2>6 DEF JobInv, JobEnds
  <2> QED BY <2>5, <2>7 DEF JobInv
<1>2. CASE Jobs!Construct
  <2>1. PICK w \in Jobs!Workers :
          /\ job_worker[w] = "none" /\ job_worker' = [job_worker EXCEPT ![w] = "check"]
          /\ job_main' = IF w = JOB_THREADS THEN "enqueue" ELSE "construct"
    BY <1>2 DEF Jobs!Construct, Jobs!SetWorker
  <2>2. /\ job_queue' = job_queue /\ task' = task /\ enqueued' = enqueued /\ got' = got
        /\ promised' = promised /\ stop' = stop /\ job_main = "construct"
        /\ job_main' \in {"construct", "enqueue"} /\ JOB_THREADS > 0
    BY <1>2, <2>1 DEF Jobs!Construct, Jobs!pool
  <2>3. /\ job_worker' \in [Jobs!Workers -> Job_places]
        /\ job_worker'[w] = "check" /\ \A v \in Jobs!Workers : v # w => job_worker'[v] = job_worker[v]
    BY <1>0, <2>1 DEF Job_places
  <2>4. JobTypes' /\ TasksPlaced' /\ \A v \in Jobs!Workers :
              job_worker'[v] = "returned" => stop' /\ job_queue' = <<>>
    BY <1>0, <2>1, <2>2, <2>3, WorkersMove DEF Job_main_places
  <2>5. JobEnds'
    BY <2>2, <2>4 DEF JobInv, JobEnds
  <2> QED BY <2>4, <2>5 DEF JobInv
<1>3. CASE Jobs!notify_one
  <2>1. /\ job_queue' = job_queue /\ task' = task /\ enqueued' = enqueued /\ got' = got
        /\ promised' = promised /\ stop' = stop /\ job_main = "notify" /\ job_main' = "enqueue"
    BY <1>3 DEF Jobs!notify_one, Jobs!pool
  <2>2. /\ job_worker' \in [Jobs!Workers -> Job_places]
        /\ \A v \in Jobs!Workers :
             \/ job_worker'[v] = job_worker[v]
             \/ job_worker'[v] = "check" /\ job_worker[v] = "wait"
    BY <1>0, <1>3 DEF Jobs!notify_one, Jobs!Waiting, Jobs!SetWorker, Job_places
  <2>3. JobTypes' /\ TasksPlaced' /\ \A v \in Jobs!Workers :
              job_worker'[v] = "returned" => stop' /\ job_queue' = <<>>
    BY <1>0, <2>1, <2>2, WorkersMove DEF Job_main_places
  <2>4. JobEnds'
    BY <2>1, <2>3 DEF JobInv, JobEnds
  <2> QED BY <2>3, <2>4 DEF JobInv
<1>4. CASE Jobs!notify_all
  <2>1. /\ job_queue' = job_queue /\ task' = task /\ enqueued' = enqueued /\ got' = got
        /\ promised' = promised /\ stop' = stop /\ job_main = "notify_all" /\ job_main' = "join"
        /\ job_worker' = [w \in Jobs!Workers |-> IF w \in Jobs!Waiting THEN "check" ELSE job_worker[w]]
    BY <1>4 DEF Jobs!notify_all, Jobs!pool
  <2>2. /\ job_worker' \in [Jobs!Workers -> Job_places]
        /\ \A v \in Jobs!Workers :
             \/ job_worker'[v] = job_worker[v]
             \/ job_worker'[v] = "check" /\ job_worker[v] = "wait"
    BY <1>0, <2>1 DEF Jobs!Waiting, Job_places
  <2>3. JobTypes' /\ TasksPlaced' /\ \A v \in Jobs!Workers :
              job_worker'[v] = "returned" => stop' /\ job_queue' = <<>>
    BY <1>0, <2>1, <2>2, WorkersMove DEF Job_main_places
  <2>4. JobEnds'
    BY <2>1, <2>3 DEF JobInv, JobEnds
  <2> QED BY <2>3, <2>4 DEF JobInv
<1>5. CASE Jobs!ConstructThrows \/ Jobs!get \/ Jobs!Stop \/ Jobs!Join
  <2>1. /\ job_queue' = job_queue /\ task' = task /\ enqueued' = enqueued
        /\ promised' = promised /\ job_worker' = job_worker
        /\ stop' \in BOOLEAN /\ job_main' \in Job_main_places /\ got' \in Nat
    <3>1. CASE Jobs!ConstructThrows
      BY <3>1, <1>0 DEF Jobs!ConstructThrows, Jobs!pool, Job_main_places
    <3>2. CASE Jobs!get
      BY <3>2, <1>0 DEF Jobs!get, Jobs!pool, Job_main_places
    <3>3. CASE Jobs!Stop
      BY <3>3, <1>0 DEF Jobs!Stop, Job_main_places
    <3>4. CASE Jobs!Join
      BY <3>4, <1>0 DEF Jobs!Join, Jobs!pool, Job_main_places
    <3> QED BY <1>5, <3>1, <3>2, <3>3, <3>4
  <2>2. JobTypes' /\ TasksPlaced'
    BY <1>0, <2>1, WorkersMove
  <2>3. JobEnds'
    <3>1. CASE Jobs!ConstructThrows
      BY <3>1, <2>1 DEF Jobs!ConstructThrows, Jobs!pool, JobInv, JobEnds
    <3>2. CASE Jobs!get
      BY <3>2, <2>1 DEF Jobs!get, Jobs!pool, JobInv, JobEnds
    <3>3. CASE Jobs!Stop
      BY <3>3, <2>1 DEF Jobs!Stop, JobInv, JobEnds
    <3>4. CASE Jobs!Join
      BY <3>4, <2>1 DEF Jobs!Join, Jobs!pool, JobInv, JobEnds
    <3> QED BY <1>5, <3>1, <3>2, <3>3, <3>4
  <2> QED BY <2>2, <2>3 DEF JobInv
<1> QED BY <1>1, <1>2, <1>3, <1>4, <1>5

LEMMA JobInductive ==
  ASSUME JobInv, Jobs!Next \/ UNCHANGED job_vars
  PROVE  JobInv'
<1>1. CASE UNCHANGED job_vars
  BY <1>1 DEF job_vars, JobInv, JobTypes, TasksPlaced, JobEnds, Left
<1>2. CASE Jobs!Next
  BY <1>2, JobTaken, JobRun, JobEnqueued, JobOthers DEF Jobs!Next, Jobs!MainStep, Jobs!Loop
<1> QED BY <1>1, <1>2

LEMMA FuturesFollow == JobInv => Jobs!FuturesKept
<1> SUFFICES ASSUME JobInv PROVE Jobs!FuturesKept
  OBVIOUS
<1> USE JobNumbers
<1>1. /\ Len(job_queue) \in Nat /\ enqueued \in Nat /\ Left \in Nat /\ Left <= enqueued
      /\ Len(job_queue) <= enqueued /\ DOMAIN job_queue = 1 .. Len(job_queue)
      /\ enqueued <= JOBS /\ Left + Len(job_queue) = enqueued
  BY DEF JobInv, JobTypes, TasksPlaced, Left
<1>2. ASSUME NEW k \in 1 .. enqueued
      PROVE  promised[k] + Cardinality({j \in DOMAIN job_queue : job_queue[j] = k})
               + Cardinality({w \in Jobs!Workers : task[w] = k}) = 1
  <2> DEFINE Q == {j \in DOMAIN job_queue : job_queue[j] = k}
             H == {w \in Jobs!Workers : task[w] = k}
  <2>1. k \in Nat /\ k # 0 /\ k \in Jobs!Tasks /\ (k <= Left \/ k > Left)
    BY <1>1
  <2>2. \A j \in DOMAIN job_queue : job_queue[j] = Left + j
    BY <1>1 DEF JobInv, TasksPlaced
  <2>3. \A w \in Jobs!Workers : task[w] # 0 => task[w] <= Left
    BY <1>1 DEF JobInv, JobTypes, TasksPlaced
  <2>4. CASE k > Left
    <3>1. k - Left \in DOMAIN job_queue /\ Left + (k - Left) = k
      BY <2>1, <2>4, <1>1
    <3>2. \A j \in DOMAIN job_queue : Left + j = k => j = k - Left
      BY <1>1, <2>1
    <3>3. Q = {k - Left}
      BY <3>1, <3>2, <2>2
    <3>4. H = {}
      BY <2>1, <2>3, <2>4, <1>1
    <3>5. Cardinality(Q) = 1 /\ Cardinality(H) = 0 /\ promised[k] = 0
      BY <3>3, <3>4, <2>1, <2>4, FS_EmptySet, FS_Singleton DEF JobInv, TasksPlaced
    <3> QED BY <3>5
  <2>5. CASE k <= Left /\ H = {}
    <3>1. Q = {}
      BY <2>1, <2>2, <2>5, <1>1
    <3>2. promised[k] = 1
      BY <2>1, <2>5 DEF JobInv, TasksPlaced
    <3>3. Cardinality(Q) = 0 /\ Cardinality(H) = 0
      BY <3>1, <2>5, FS_EmptySet
    <3> QED BY <3>2, <3>3
  <2>6. CASE k <= Left /\ H # {}
    <3>1. PICK w \in Jobs!Workers : task[w] = k
      BY <2>6
    <3>2. Q = {}
      BY <2>1, <2>2, <2>6, <1>1
    <3>3. H = {w}
      BY <2>1, <3>1 DEF JobInv, TasksPlaced
    <3>4. promised[k] = 0
      BY <2>1, <2>6, <3>1 DEF JobInv, TasksPlaced
    <3>5. Cardinality(Q) = 0 /\ Cardinality(H) = 1
      BY <3>2, <3>3, FS_EmptySet, FS_Singleton
    <3> QED BY <3>4, <3>5
  <2> QED BY <2>1, <2>4, <2>5, <2>6
<1>3. ASSUME job_main = "returned" PROVE \A k \in Jobs!Tasks : promised[k] = 1
  <2>1. /\ stop /\ enqueued = JOBS /\ 1 \in Jobs!Workers
        /\ \A w \in Jobs!Workers : job_worker[w] = "returned"
    BY <1>3 DEF JobInv, JobEnds
  <2>2. job_queue = <<>> /\ Left = JOBS
    BY <2>1, <1>1 DEF JobInv, JobEnds, Left
  <2>3. \A w \in Jobs!Workers : task[w] = 0
    BY <2>1 DEF JobInv, TasksPlaced
  <2> QED BY <2>2, <2>3 DEF JobInv, TasksPlaced
<1>4. stop => job_main \in {"notify_all", "join", "returned"}
  BY DEF JobInv, JobEnds
<1>5. \A k \in 1 .. (IF job_main = "terminated" THEN 0 ELSE enqueued) :
        promised[k] + Cardinality({j \in DOMAIN job_queue : job_queue[j] = k})
          + Cardinality({w \in Jobs!Workers : task[w] = k}) = 1
  <2>1. CASE job_main = "terminated"
    <3>1. \A k \in 1 .. 0 : FALSE
      OBVIOUS
    <3> QED BY <2>1, <3>1, Zenon
  <2>2. CASE job_main # "terminated"
    BY <2>2, <1>2, Zenon
  <2> QED BY <2>1, <2>2
<1> QED BY <1>3, <1>4, <1>5, SameCard DEF Jobs!FuturesKept

-----------------------------------------------------------------------------
(* Day 37 in C: the single actor *)

\* The first position whose slot the actor may still read, the first that is not
\* published, the first that is not written, and the number of messages handled.
Low == IF actor \in {"read", "release"} THEN mail_head - 1 ELSE mail_head
Published == IF sender \in {"write", "publish"} THEN mail_tail - 1 ELSE mail_tail
Written == IF sender = "write" THEN mail_tail - 1 ELSE mail_tail
Handed == IF actor \in {"read", "release", "handle"} THEN mail_head - 1 ELSE mail_head

MailTypes ==
  /\ data \in [Single!Slots -> Nat] /\ sequence \in [Single!Slots -> Nat]
  /\ mail_head \in Nat /\ mail_tail \in Nat /\ message \in 0 .. NUM_MESSAGES
  /\ sender \in {"make", "push", "write", "publish", "returned"}
  /\ actor \in {"pop", "read", "release", "handle", "returned"}
  /\ raw_msg \in Nat /\ handled \in Seq(Nat) /\ refused \in SUBSET (1 .. message)
  /\ actor \in {"read", "release", "handle"} => mail_head > 0
  /\ sender \in {"write", "publish"} => mail_tail > 0

\* The sequence numbers of the CAPACITY slots from Low on tell published from free.
Cells ==
  /\ mail_head <= Published /\ mail_tail <= Low + MAILBOX_CAPACITY
  /\ \A p \in Nat : Low <= p /\ p < Published => sequence[p % MAILBOX_CAPACITY] = p + 1
  /\ \A p \in Nat : Published <= p /\ p < Low + MAILBOX_CAPACITY =>
       sequence[p % MAILBOX_CAPACITY] = p

\* acc are the messages that got a position, in the order made: all but those refused
\* and the one about to be pushed.
Letters(acc) ==
  /\ Len(acc) = mail_tail
  /\ \A j, k \in 1 .. mail_tail : j < k => acc[j] < acc[k]
  /\ \A k \in 1 .. mail_tail : acc[k] \in 1 .. message /\ acc[k] \notin refused
  /\ \A m \in 1 .. message : \/ m \in refused \/ \E k \in 1 .. mail_tail : acc[k] = m
                             \/ sender = "push" /\ m = message
  /\ sender = "push" =>
       message > 0 /\ message \notin refused /\ \A k \in 1 .. mail_tail : acc[k] < message
  /\ sender \in {"write", "publish"} => acc[mail_tail] = message
  /\ \A p \in Nat : Low <= p /\ p < Written => data[p % MAILBOX_CAPACITY] = acc[p + 1]
  /\ actor \in {"release", "handle"} => raw_msg = acc[mail_head]
  /\ Len(handled) = Handed /\ \A k \in 1 .. Handed : handled[k] = acc[k]

\* What is on the heap.
HeapIs ==
  \A b : b \in heap <=> \/ \E m \in Single!Unhandled : b = <<"msg", m>>
                        \/ \E m \in Single!Unhandled : m # NUM_MESSAGES /\ b = <<"payload", m>>

MailInv == MailTypes /\ Cells /\ (\E acc \in Seq(Nat) : Letters(acc)) /\ HeapIs

LEMMA MailNumbers ==
  /\ MAILBOX_CAPACITY \in Nat /\ MAILBOX_CAPACITY \in Nat \ {0} /\ MAILBOX_CAPACITY >= 2
  /\ NUM_MESSAGES \in Nat /\ NUM_MESSAGES > 0
  /\ Single!Slots = 0 .. MAILBOX_CAPACITY - 1
BY MailboxUsable DEF Single!MailboxAssumption, Single!Slots

\* Positions less than CAPACITY apart have slots of their own.
LEMMA MailSlots ==
  ASSUME NEW p \in Nat
  PROVE  /\ p % MAILBOX_CAPACITY \in Single!Slots
         /\ \A q \in Nat : /\ p # q /\ p < q + MAILBOX_CAPACITY /\ q < p + MAILBOX_CAPACITY
                             => p % MAILBOX_CAPACITY # q % MAILBOX_CAPACITY
<1>1. p % MAILBOX_CAPACITY \in Single!Slots
  BY MailNumbers, RemainderRange
<1>2. ASSUME NEW q \in Nat, p # q, p < q + MAILBOX_CAPACITY, q < p + MAILBOX_CAPACITY
      PROVE  p % MAILBOX_CAPACITY # q % MAILBOX_CAPACITY
  BY <1>2, MailNumbers, SameRemainder
<1> QED BY <1>1, <1>2

LEMMA MailInitially == Single!Init => MailInv
<1> SUFFICES ASSUME Single!Init PROVE MailInv
  OBVIOUS
<1> USE MailNumbers DEF Single!Init
<1>1. MailTypes
  BY DEF MailTypes
<1>2. Low = 0 /\ Published = 0 /\ Written = 0 /\ Handed = 0
  BY DEF Low, Published, Written, Handed
<1>3. Cells
  <2>1. \A p \in Nat : p < MAILBOX_CAPACITY => p % MAILBOX_CAPACITY = p /\ p \in Single!Slots
    OBVIOUS
  <2> QED BY <2>1, <1>2 DEF Cells
<1>4. Letters(<<>>) /\ <<>> \in Seq(Nat)
  BY <1>2 DEF Letters
<1>5. HeapIs
  BY DEF HeapIs, Single!Unhandled
<1> QED BY <1>1, <1>3, <1>4, <1>5 DEF MailInv

LEMMA MailMade ==
  ASSUME MailInv, Single!Make
  PROVE  MailInv'
<1> USE MailNumbers
<1>1. /\ sender = "make" /\ message < NUM_MESSAGES /\ message' = message + 1
      /\ heap' = heap \cup {<<"msg", message + 1>>}
                   \cup (IF message + 1 = NUM_MESSAGES THEN {} ELSE {<<"payload", message + 1>>})
      /\ sender' = "push" /\ data' = data /\ sequence' = sequence /\ mail_head' = mail_head
      /\ mail_tail' = mail_tail /\ actor' = actor /\ raw_msg' = raw_msg
      /\ handled' = handled /\ refused' = refused
  BY DEF Single!Make, Single!mailbox, Single!IsPill
<1>2. Low' = Low /\ Published' = Published /\ Written' = Written /\ Handed' = Handed
  BY <1>1 DEF Low, Published, Written, Handed
<1>3. MailTypes'
  BY <1>1 DEF MailInv, MailTypes
<1>4. Cells'
  BY <1>1, <1>2 DEF MailInv, Cells
<1>5. PICK acc \in Seq(Nat) : Letters(acc)
  BY DEF MailInv
<1>6. /\ message \in Nat /\ mail_tail \in Nat /\ refused \in SUBSET (1 .. message)
      /\ 1 .. message' = 1 .. message \cup {message + 1} /\ message + 1 \notin refused
      /\ \A k \in 1 .. mail_tail : acc[k] < message + 1 /\ acc[k] \in 1 .. message
  <2>1. message \in Nat /\ mail_tail \in Nat /\ refused \in SUBSET (1 .. message)
    BY DEF MailInv, MailTypes
  <2>2. 1 .. message' = 1 .. message \cup {message + 1} /\ message + 1 \notin 1 .. message
    BY <1>1, <2>1
  <2>3. \A k \in 1 .. mail_tail : acc[k] \in 1 .. message
    BY <1>5 DEF Letters
  <2>4. \A x \in 1 .. message : x < message + 1
    BY <2>1
  <2> QED BY <2>1, <2>2, <2>3, <2>4
<1>7. Letters(acc)'
  BY <1>1, <1>2, <1>5, <1>6 DEF Letters
<1>8. \A k \in 1 .. Len(handled) : handled[k] # message + 1
  <2>1. Handed \in Nat /\ Handed <= mail_tail
    BY DEF MailInv, MailTypes, Cells, Handed, Published
  <2>2. \A k \in 1 .. Handed : k \in 1 .. mail_tail
    BY <2>1, <1>6
  <2> QED BY <2>2, <1>5, <1>6 DEF Letters
<1>9. \A m : m \in Single!Unhandled' <=> m \in Single!Unhandled \/ m = message + 1
  BY <1>1, <1>6, <1>8 DEF Single!Unhandled
<1>10. HeapIs'
  <2> DEFINE U == Single!Unhandled
             V == Single!Unhandled'
             n == message + 1
  <2>1. \A b : b \in heap' <=> \/ b \in heap \/ b = <<"msg", n>>
                               \/ n # NUM_MESSAGES /\ b = <<"payload", n>>
    BY <1>1
  <2>2. \A m : m \in V <=> m \in U \/ m = n
    BY <1>9
  <2>3. \A b : b \in heap <=> \/ \E m \in U : b = <<"msg", m>>
                              \/ \E m \in U : m # NUM_MESSAGES /\ b = <<"payload", m>>
    BY DEF MailInv, HeapIs
  <2> HIDE DEF U, V, n
  <2>4. \A b : b \in heap' <=> \/ \E m \in V : b = <<"msg", m>>
                               \/ \E m \in V : m # NUM_MESSAGES /\ b = <<"payload", m>>
    BY <2>1, <2>2, <2>3
  <2> QED BY <2>4 DEF HeapIs, V
<1> QED BY <1>3, <1>4, <1>5, <1>7, <1>10 DEF MailInv

\* A step that neither makes nor handles a message leaves the heap alone.
LEMMA HeapKept ==
  ASSUME HeapIs, heap' = heap, message' = message, handled' = handled
  PROVE  HeapIs'
BY DEF HeapIs, Single!Unhandled

LEMMA MailClaimed ==
  ASSUME MailInv, Single!PushClaim
  PROVE  MailInv'
<1> USE MailNumbers
<1>1. /\ sender = "push" /\ sequence[mail_tail % MAILBOX_CAPACITY] = mail_tail
      /\ mail_tail' = mail_tail + 1 /\ sender' = "write"
      /\ data' = data /\ sequence' = sequence /\ mail_head' = mail_head /\ message' = message
      /\ actor' = actor /\ raw_msg' = raw_msg /\ heap' = heap
      /\ handled' = handled /\ refused' = refused
  BY DEF Single!PushClaim
<1>2. /\ Low' = Low /\ Published' = Published /\ Written' = Written /\ Handed' = Handed
      /\ Published = mail_tail /\ Written = mail_tail
      /\ mail_tail \in Nat /\ mail_head \in Nat /\ Low \in Nat /\ Low <= mail_tail
      /\ Handed \in Nat /\ Handed <= mail_tail
  BY <1>1 DEF Low, Published, Written, Handed, MailInv, MailTypes, Cells
<1>3. MailTypes'
  <2>1. MailTypes
    BY DEF MailInv
  <2>2. mail_tail' \in Nat /\ mail_tail' > 0
    BY <1>1, <1>2
  <2> QED BY <2>1, <2>2, <1>1 DEF MailTypes
<1>4. mail_tail < Low + MAILBOX_CAPACITY
  <2> SUFFICES ASSUME mail_tail = Low + MAILBOX_CAPACITY PROVE FALSE
    BY <1>2 DEF MailInv, Cells
  <2>1. mail_tail % MAILBOX_CAPACITY = Low % MAILBOX_CAPACITY
    BY <1>2, NextLapRemainder
  <2>2. sequence[Low % MAILBOX_CAPACITY] = Low + 1
    <3>1. Low \in Nat /\ Low <= Low /\ Low < Published
      BY <1>2
    <3> QED BY <3>1 DEF MailInv, Cells
  <2> QED BY <1>1, <1>2, <2>1, <2>2
<1>5. Cells'
  BY <1>1, <1>2, <1>4 DEF MailInv, Cells
<1>6. PICK acc \in Seq(Nat) : Letters(acc)
  BY DEF MailInv
<1> PICK new \in Seq(Nat) : new = Append(acc, message)
  <2>1. message \in Nat
    BY DEF MailInv, MailTypes
  <2>2. Append(acc, message) \in Seq(Nat)
    BY <2>1
  <2> QED BY <2>2
<1>7. /\ new \in Seq(Nat) /\ Len(new) = mail_tail + 1 /\ new[mail_tail + 1] = message
      /\ \A k \in 1 .. mail_tail : new[k] = acc[k]
      /\ message \in Nat /\ Len(acc) = mail_tail
  <2>1. message \in Nat /\ Len(acc) = mail_tail
    BY <1>6 DEF Letters, MailInv, MailTypes
  <2> QED BY <2>1, <1>2
<1>8. /\ 1 .. mail_tail' = 1 .. mail_tail \cup {mail_tail + 1}
      /\ message > 0 /\ message \in 1 .. message /\ message \notin refused
      /\ \A k \in 1 .. mail_tail : acc[k] < message
      /\ \A k \in 1 .. mail_tail : k < mail_tail + 1 /\ ~(mail_tail + 1 < k)
  BY <1>1, <1>2, <1>6, <1>7 DEF Letters
<1>9. Letters(new)'
  <2>1. \A j, k \in 1 .. mail_tail' : j < k => new[j] < new[k]
    BY <1>2, <1>6, <1>7, <1>8 DEF Letters
  <2>2. \A k \in 1 .. mail_tail' : new[k] \in 1 .. message' /\ new[k] \notin refused'
    BY <1>1, <1>6, <1>7, <1>8 DEF Letters
  <2>3. \A m \in 1 .. message' : m \in refused' \/ \E k \in 1 .. mail_tail' : new[k] = m
    <3>1. \A m \in 1 .. message : \/ m \in refused \/ \E k \in 1 .. mail_tail : acc[k] = m
                                  \/ m = message
      BY <1>6 DEF Letters
    <3>2. mail_tail + 1 \in 1 .. mail_tail' /\ \A k \in 1 .. mail_tail : k \in 1 .. mail_tail'
      BY <1>8
    <3> QED BY <3>1, <3>2, <1>1, <1>7
  <2>4. \A p \in Nat : Low' <= p /\ p < Written' => data'[p % MAILBOX_CAPACITY] = new[p + 1]
    <3>1. ASSUME NEW p \in Nat, Low <= p, p < Written
          PROVE  data[p % MAILBOX_CAPACITY] = new[p + 1]
      <4>1. p + 1 \in 1 .. mail_tail
        BY <3>1, <1>2
      <4> QED BY <3>1, <4>1, <1>6, <1>7 DEF Letters
    <3> QED BY <3>1, <1>1, <1>2
  <2>5. actor' \in {"release", "handle"} => raw_msg' = new[mail_head']
    <3>1. actor \in {"release", "handle"} => mail_head \in 1 .. mail_tail
      BY <1>2 DEF MailInv, MailTypes, Cells
    <3> QED BY <3>1, <1>1, <1>6, <1>7 DEF Letters
  <2>6. Len(handled') = Handed' /\ \A k \in 1 .. Handed' : handled'[k] = new[k]
    <3>1. \A k \in 1 .. Handed : k \in 1 .. mail_tail
      BY <1>2
    <3> QED BY <3>1, <1>1, <1>2, <1>6, <1>7 DEF Letters
  <2>7. Len(new) = mail_tail' /\ new[mail_tail'] = message'
    BY <1>1, <1>7
  <2>8. sender' # "push"
    BY <1>1
  <2> QED BY <2>1, <2>2, <2>3, <2>4, <2>5, <2>6, <2>7, <2>8 DEF Letters
<1>10. HeapIs'
  BY <1>1, HeapKept DEF MailInv
<1> QED BY <1>3, <1>5, <1>7, <1>9, <1>10 DEF MailInv

LEMMA MailRefused ==
  ASSUME MailInv, Single!PushFull \/ Single!Join
  PROVE  MailInv'
<1> USE MailNumbers
<1>1. /\ \/ sender = "push" /\ sender' = "make" /\ refused' = refused \cup {message}
         \/ sender = "make" /\ sender' = "returned" /\ refused' = refused
      /\ mail_tail' = mail_tail
      /\ data' = data /\ sequence' = sequence /\ mail_head' = mail_head /\ message' = message
      /\ actor' = actor /\ raw_msg' = raw_msg /\ heap' = heap /\ handled' = handled
  BY DEF Single!PushFull, Single!Join, Single!mailbox
<1>2. Low' = Low /\ Published' = Published /\ Written' = Written /\ Handed' = Handed
  BY <1>1 DEF Low, Published, Written, Handed
<1>3. PICK acc \in Seq(Nat) : Letters(acc)
  BY DEF MailInv
<1>4. /\ message \in Nat /\ mail_tail \in Nat
      /\ sender = "push" => message \in 1 .. message /\ \A k \in 1 .. mail_tail : acc[k] # message
  BY <1>3 DEF MailInv, MailTypes, Letters
<1>5. MailTypes'
  BY <1>1, <1>4 DEF MailInv, MailTypes
<1>6. Cells'
  BY <1>1, <1>2 DEF MailInv, Cells
<1>7. Letters(acc)'
  BY <1>1, <1>2, <1>3, <1>4 DEF Letters
<1>8. HeapIs'
  BY <1>1, HeapKept DEF MailInv
<1> QED BY <1>3, <1>5, <1>6, <1>7, <1>8 DEF MailInv

LEMMA MailWritten ==
  ASSUME MailInv, Single!PushWrite
  PROVE  MailInv'
<1> USE MailNumbers
<1> DEFINE t == mail_tail - 1
           s == t % MAILBOX_CAPACITY
<1>1. /\ sender = "write" /\ data' = [data EXCEPT ![s] = message] /\ sender' = "publish"
      /\ mail_tail' = mail_tail /\ sequence' = sequence /\ mail_head' = mail_head
      /\ message' = message /\ actor' = actor /\ raw_msg' = raw_msg /\ heap' = heap
      /\ handled' = handled /\ refused' = refused
  BY DEF Single!PushWrite
<1>2. /\ Low' = Low /\ Published' = Published /\ Written' = t + 1 /\ Handed' = Handed
      /\ Published = t /\ Written = t /\ t + 1 = mail_tail
      /\ t \in Nat /\ mail_tail \in Nat /\ mail_head \in Nat /\ Low \in Nat /\ Low <= t
      /\ mail_tail <= Low + MAILBOX_CAPACITY
  BY <1>1 DEF Low, Published, Written, Handed, MailInv, MailTypes, Cells
<1>3. s \in Single!Slots
  BY <1>2, MailSlots
<1> HIDE DEF t
<1>4. /\ data'[s] = message /\ \A x \in Single!Slots : x # s => data'[x] = data[x]
      /\ data' \in [Single!Slots -> Nat]
  BY <1>1, <1>3 DEF MailInv, MailTypes
<1>5. PICK acc \in Seq(Nat) : Letters(acc)
  BY DEF MailInv
<1>6. MailTypes'
  BY <1>1, <1>4 DEF MailInv, MailTypes
<1>7. Cells'
  BY <1>1, <1>2 DEF MailInv, Cells
<1>8. Letters(acc)'
  <2>1. ASSUME NEW p \in Nat, Low <= p, p < t + 1
        PROVE  data'[p % MAILBOX_CAPACITY] = acc[p + 1]
    <3>1. CASE p = t
      BY <3>1, <1>1, <1>2, <1>4, <1>5 DEF Letters
    <3>2. CASE p # t
      <4>1. p < t /\ p < t + MAILBOX_CAPACITY /\ t < p + MAILBOX_CAPACITY
        BY <3>2, <2>1, <1>2
      <4>2. p % MAILBOX_CAPACITY \in Single!Slots /\ p % MAILBOX_CAPACITY # s
        BY <4>1, <3>2, <1>2, MailSlots
      <4>3. data[p % MAILBOX_CAPACITY] = acc[p + 1]
        BY <4>1, <2>1, <1>2, <1>5 DEF Letters
      <4> QED BY <4>2, <4>3, <1>4
    <3> QED BY <3>1, <3>2
  <2> QED BY <2>1, <1>1, <1>2, <1>5 DEF Letters
<1>9. HeapIs'
  BY <1>1, HeapKept DEF MailInv
<1> QED BY <1>5, <1>6, <1>7, <1>8, <1>9 DEF MailInv

LEMMA MailPublished ==
  ASSUME MailInv, Single!PushPublish
  PROVE  MailInv'
<1> USE MailNumbers
<1> DEFINE t == mail_tail - 1
           s == t % MAILBOX_CAPACITY
<1>1. /\ sender = "publish" /\ sequence' = [sequence EXCEPT ![s] = mail_tail] /\ sender' = "make"
      /\ mail_tail' = mail_tail /\ data' = data /\ mail_head' = mail_head
      /\ message' = message /\ actor' = actor /\ raw_msg' = raw_msg /\ heap' = heap
      /\ handled' = handled /\ refused' = refused
  BY DEF Single!PushPublish
<1>2. /\ Low' = Low /\ Published' = t + 1 /\ Written' = Written /\ Handed' = Handed
      /\ Published = t /\ t + 1 = mail_tail
      /\ t \in Nat /\ mail_tail \in Nat /\ mail_head \in Nat /\ Low \in Nat /\ Low <= t
      /\ mail_tail <= Low + MAILBOX_CAPACITY /\ mail_head <= t
  BY <1>1 DEF Low, Published, Written, Handed, MailInv, MailTypes, Cells
<1>3. s \in Single!Slots
  BY <1>2, MailSlots
<1> HIDE DEF t
<1>4. /\ sequence'[s] = t + 1 /\ \A x \in Single!Slots : x # s => sequence'[x] = sequence[x]
      /\ sequence' \in [Single!Slots -> Nat]
  BY <1>1, <1>2, <1>3 DEF MailInv, MailTypes
<1>5. PICK acc \in Seq(Nat) : Letters(acc)
  BY DEF MailInv
<1>6. MailTypes'
  BY <1>1, <1>4 DEF MailInv, MailTypes
<1>7. Cells'
  <2>1. ASSUME NEW p \in Nat, Low <= p, p < Low + MAILBOX_CAPACITY
        PROVE  /\ p < t + 1 => sequence'[p % MAILBOX_CAPACITY] = p + 1
               /\ t + 1 <= p => sequence'[p % MAILBOX_CAPACITY] = p
    <3>1. CASE p = t
      BY <3>1, <1>2, <1>4
    <3>2. CASE p # t
      <4>1. /\ p < t + MAILBOX_CAPACITY /\ t < p + MAILBOX_CAPACITY
            /\ p < t + 1 => p < t
            /\ t + 1 <= p => t <= p
        BY <3>2, <2>1, <1>2
      <4>2. p % MAILBOX_CAPACITY \in Single!Slots /\ p % MAILBOX_CAPACITY # s
        BY <4>1, <3>2, <1>2, MailSlots
      <4>3. /\ p < t => sequence[p % MAILBOX_CAPACITY] = p + 1
            /\ t <= p => sequence[p % MAILBOX_CAPACITY] = p
        BY <2>1, <1>2 DEF MailInv, Cells
      <4> QED BY <4>1, <4>2, <4>3, <1>4
    <3> QED BY <3>1, <3>2
  <2>2. \A p \in Nat : p < t + 1 => p < Low + MAILBOX_CAPACITY
    BY <1>2
  <2>3. \A p \in Nat : t + 1 <= p /\ p < Low + MAILBOX_CAPACITY => Low <= p
    BY <1>2
  <2>4. mail_head' <= t + 1 /\ mail_tail' <= Low + MAILBOX_CAPACITY
    BY <1>1, <1>2
  <2>5. \A p \in Nat : Low' <= p /\ p < Published' =>
          sequence'[p % MAILBOX_CAPACITY] = p + 1
    BY <2>1, <2>2, <1>2
  <2>6. \A p \in Nat : Published' <= p /\ p < Low' + MAILBOX_CAPACITY =>
          sequence'[p % MAILBOX_CAPACITY] = p
    BY <2>1, <2>3, <1>2
  <2> QED BY <2>4, <2>5, <2>6, <1>2 DEF Cells
<1>8. Letters(acc)'
  BY <1>1, <1>2, <1>5 DEF Letters
<1>9. HeapIs'
  BY <1>1, HeapKept DEF MailInv
<1> QED BY <1>5, <1>6, <1>7, <1>8, <1>9 DEF MailInv

LEMMA MailPopped ==
  ASSUME MailInv, Single!PopClaim
  PROVE  MailInv'
<1> USE MailNumbers
<1>1. /\ actor = "pop" /\ sequence[mail_head % MAILBOX_CAPACITY] = mail_head + 1
      /\ mail_head' = mail_head + 1 /\ actor' = "read"
      /\ mail_tail' = mail_tail /\ data' = data /\ sequence' = sequence
      /\ message' = message /\ sender' = sender /\ raw_msg' = raw_msg /\ heap' = heap
      /\ handled' = handled /\ refused' = refused
  BY DEF Single!PopClaim
<1>2. /\ Low' = Low /\ Published' = Published /\ Written' = Written /\ Handed' = Handed
      /\ Low = mail_head /\ Published \in Nat /\ mail_head \in Nat /\ mail_head <= Published
  BY <1>1 DEF Low, Published, Written, Handed, MailInv, MailTypes, Cells
<1>3. mail_head + 1 <= Published
  <2> SUFFICES ASSUME mail_head = Published PROVE FALSE
    BY <1>2
  <2>1. mail_head < Low + MAILBOX_CAPACITY /\ Published <= mail_head
    BY <1>2
  <2>2. sequence[mail_head % MAILBOX_CAPACITY] = mail_head
    BY <2>1, <1>2 DEF MailInv, Cells
  <2> QED BY <2>2, <1>1, <1>2
<1>4. PICK acc \in Seq(Nat) : Letters(acc)
  BY DEF MailInv
<1>5. MailTypes'
  BY <1>1 DEF MailInv, MailTypes
<1>6. Cells'
  BY <1>1, <1>2, <1>3 DEF MailInv, Cells
<1>7. Letters(acc)'
  BY <1>1, <1>2, <1>4 DEF Letters
<1>8. HeapIs'
  BY <1>1, HeapKept DEF MailInv
<1> QED BY <1>4, <1>5, <1>6, <1>7, <1>8 DEF MailInv

LEMMA MailRead ==
  ASSUME MailInv, Single!PopRead
  PROVE  MailInv'
<1> USE MailNumbers
<1>1. /\ actor = "read" /\ raw_msg' = data[(mail_head - 1) % MAILBOX_CAPACITY]
      /\ actor' = "release" /\ mail_head' = mail_head
      /\ mail_tail' = mail_tail /\ data' = data /\ sequence' = sequence
      /\ message' = message /\ sender' = sender /\ heap' = heap
      /\ handled' = handled /\ refused' = refused
  BY DEF Single!PopRead, Single!mailbox
<1>2. /\ Low' = Low /\ Published' = Published /\ Written' = Written /\ Handed' = Handed
      /\ Low = mail_head - 1 /\ Low \in Nat /\ mail_head \in Nat /\ mail_head <= Published
      /\ Published <= Written /\ Written \in Nat /\ Published \in Nat
  BY <1>1 DEF Low, Published, Written, Handed, MailInv, MailTypes, Cells
<1>3. PICK acc \in Seq(Nat) : Letters(acc)
  BY DEF MailInv
<1>4. raw_msg' = acc[mail_head] /\ raw_msg' \in Nat
  <2>1. Low <= Low /\ Low < Written /\ Low + 1 = mail_head
    BY <1>2
  <2>2. data[Low % MAILBOX_CAPACITY] = acc[Low + 1]
    BY <2>1, <1>2, <1>3 DEF Letters
  <2>3. Low % MAILBOX_CAPACITY \in Single!Slots
    BY <1>2, MailSlots
  <2>4. raw_msg' = data[Low % MAILBOX_CAPACITY]
    BY <1>1, <1>2
  <2> QED BY <2>1, <2>2, <2>3, <2>4 DEF MailInv, MailTypes
<1>5. MailTypes'
  BY <1>1, <1>4 DEF MailInv, MailTypes
<1>6. Cells'
  BY <1>1, <1>2 DEF MailInv, Cells
<1>7. Letters(acc)'
  BY <1>1, <1>2, <1>3, <1>4 DEF Letters
<1>8. HeapIs'
  BY <1>1, HeapKept DEF MailInv
<1> QED BY <1>3, <1>5, <1>6, <1>7, <1>8 DEF MailInv

LEMMA MailReleased ==
  ASSUME MailInv, Single!PopRelease
  PROVE  MailInv'
<1> USE MailNumbers
<1> DEFINE h == mail_head - 1
           s == h % MAILBOX_CAPACITY
<1>1. /\ actor = "release" /\ actor' = "handle" /\ mail_head' = mail_head
      /\ sequence' = [sequence EXCEPT ![s] = h + MAILBOX_CAPACITY]
      /\ mail_tail' = mail_tail /\ data' = data /\ raw_msg' = raw_msg
      /\ message' = message /\ sender' = sender /\ heap' = heap
      /\ handled' = handled /\ refused' = refused
  BY DEF Single!PopRelease
<1>2. /\ Low' = h + 1 /\ Published' = Published /\ Written' = Written /\ Handed' = Handed
      /\ Low = h /\ h \in Nat /\ mail_head = h + 1 /\ mail_head <= Published
      /\ Published \in Nat /\ mail_tail \in Nat /\ Published <= h + MAILBOX_CAPACITY
      /\ mail_tail <= h + MAILBOX_CAPACITY
  BY <1>1 DEF Low, Published, Written, Handed, MailInv, MailTypes, Cells
<1>3. s \in Single!Slots /\ (h + MAILBOX_CAPACITY) % MAILBOX_CAPACITY = s
  BY <1>2, MailSlots, NextLapRemainder
<1> HIDE DEF h
<1>4. /\ sequence'[s] = h + MAILBOX_CAPACITY
      /\ \A x \in Single!Slots : x # s => sequence'[x] = sequence[x]
      /\ sequence' \in [Single!Slots -> Nat]
  BY <1>1, <1>2, <1>3 DEF MailInv, MailTypes
<1>5. PICK acc \in Seq(Nat) : Letters(acc)
  BY DEF MailInv
<1>6. MailTypes'
  BY <1>1, <1>4 DEF MailInv, MailTypes
<1>7. Cells'
  <2>1. ASSUME NEW p \in Nat, h + 1 <= p, p < h + 1 + MAILBOX_CAPACITY
        PROVE  /\ p < Published => sequence'[p % MAILBOX_CAPACITY] = p + 1
               /\ Published <= p => sequence'[p % MAILBOX_CAPACITY] = p
    <3>1. CASE p = h + MAILBOX_CAPACITY
      BY <3>1, <1>2, <1>3, <1>4
    <3>2. CASE p # h + MAILBOX_CAPACITY
      <4>1. p < h + MAILBOX_CAPACITY /\ h <= p /\ h < p + MAILBOX_CAPACITY /\ p # h
        BY <3>2, <2>1, <1>2
      <4>2. p % MAILBOX_CAPACITY \in Single!Slots /\ p % MAILBOX_CAPACITY # s
        BY <4>1, <1>2, MailSlots
      <4>3. /\ p < Published => sequence[p % MAILBOX_CAPACITY] = p + 1
            /\ Published <= p => sequence[p % MAILBOX_CAPACITY] = p
        BY <4>1, <2>1, <1>2 DEF MailInv, Cells
      <4> QED BY <4>2, <4>3, <1>4
    <3> QED BY <3>1, <3>2
  <2>2. \A p \in Nat : p < Published => p < h + 1 + MAILBOX_CAPACITY
    BY <1>2
  <2>3. \A p \in Nat : Published <= p => h + 1 <= p
    BY <1>2
  <2>4. mail_head' <= Published' /\ mail_tail' <= Low' + MAILBOX_CAPACITY
    BY <1>1, <1>2
  <2>5. \A p \in Nat : Low' <= p /\ p < Published' =>
          sequence'[p % MAILBOX_CAPACITY] = p + 1
    BY <2>1, <2>2, <1>2
  <2>6. \A p \in Nat : Published' <= p /\ p < Low' + MAILBOX_CAPACITY =>
          sequence'[p % MAILBOX_CAPACITY] = p
    BY <2>1, <2>3, <1>2
  <2> QED BY <2>4, <2>5, <2>6 DEF Cells
<1>8. Letters(acc)'
  <2>1. \A p \in Nat : h + 1 <= p => h <= p
    BY <1>2
  <2> QED BY <2>1, <1>1, <1>2, <1>5 DEF Letters
<1>9. HeapIs'
  BY <1>1, HeapKept DEF MailInv
<1> QED BY <1>5, <1>6, <1>7, <1>8, <1>9 DEF MailInv

LEMMA MailHandled ==
  ASSUME MailInv, Single!Handle
  PROVE  MailInv'
<1> USE MailNumbers
<1>1. /\ actor = "handle" /\ handled' = Append(handled, raw_msg)
      /\ heap' = heap \ {<<"msg", raw_msg>>, <<"payload", raw_msg>>}
      /\ actor' \in {"pop", "returned"} /\ mail_head' = mail_head
      /\ mail_tail' = mail_tail /\ data' = data /\ raw_msg' = raw_msg /\ sequence' = sequence
      /\ message' = message /\ sender' = sender /\ refused' = refused
  BY DEF Single!Handle, Single!mailbox
<1>2. /\ Low' = Low /\ Published' = Published /\ Written' = Written /\ Handed' = mail_head
      /\ Handed = mail_head - 1 /\ mail_head \in Nat /\ mail_head > 0 /\ mail_head <= mail_tail
      /\ mail_tail \in Nat
  BY <1>1 DEF Low, Published, Written, Handed, MailInv, MailTypes, Cells
<1>3. PICK acc \in Seq(Nat) : Letters(acc)
  BY DEF MailInv
<1>4. /\ handled \in Seq(Nat) /\ raw_msg \in Nat /\ Len(handled) = mail_head - 1
      /\ raw_msg = acc[mail_head]
  BY <1>1, <1>2, <1>3 DEF MailInv, MailTypes, Letters
<1>5. /\ handled' \in Seq(Nat) /\ Len(handled') = mail_head /\ handled'[mail_head] = raw_msg
      /\ \A k \in 1 .. mail_head - 1 : handled'[k] = handled[k]
      /\ 1 .. mail_head = 1 .. mail_head - 1 \cup {mail_head}
  BY <1>1, <1>2, <1>4
<1>6. MailTypes'
  BY <1>1, <1>5 DEF MailInv, MailTypes
<1>7. Cells'
  BY <1>1, <1>2 DEF MailInv, Cells
<1>8. Letters(acc)'
  <2>1. \A k \in 1 .. mail_head : handled'[k] = acc[k]
    BY <1>2, <1>3, <1>4, <1>5 DEF Letters
  <2> QED BY <2>1, <1>1, <1>2, <1>3, <1>5 DEF Letters
<1>9. \A m : m \in Single!Unhandled' <=> m \in Single!Unhandled /\ m # raw_msg
  BY <1>1, <1>4, <1>5 DEF Single!Unhandled
<1>10. HeapIs'
  <2> DEFINE U == Single!Unhandled
             V == Single!Unhandled'
  <2>1. \A b : b \in heap' <=> b \in heap /\ b # <<"msg", raw_msg>> /\ b # <<"payload", raw_msg>>
    BY <1>1
  <2>2. \A m : m \in V <=> m \in U /\ m # raw_msg
    BY <1>9
  <2>3. \A b : b \in heap <=> \/ \E m \in U : b = <<"msg", m>>
                              \/ \E m \in U : m # NUM_MESSAGES /\ b = <<"payload", m>>
    BY DEF MailInv, HeapIs
  <2> HIDE DEF U, V
  <2>4. \A b : b \in heap' <=> \/ \E m \in V : b = <<"msg", m>>
                               \/ \E m \in V : m # NUM_MESSAGES /\ b = <<"payload", m>>
    BY <2>1, <2>2, <2>3
  <2> QED BY <2>4 DEF HeapIs, V
<1> QED BY <1>3, <1>6, <1>7, <1>8, <1>10 DEF MailInv

LEMMA MailInductive ==
  ASSUME MailInv, Single!Next \/ UNCHANGED single_vars
  PROVE  MailInv'
<1>1. CASE UNCHANGED single_vars
  <2>1. /\ Low' = Low /\ Published' = Published /\ Written' = Written /\ Handed' = Handed
        /\ Single!Unhandled' = Single!Unhandled
    BY <1>1 DEF single_vars, Low, Published, Written, Handed, Single!Unhandled
  <2>2. MailTypes' /\ Cells' /\ HeapIs'
    BY <1>1, <2>1 DEF single_vars, MailInv, MailTypes, Cells, HeapIs
  <2>3. \A acc \in Seq(Nat) : Letters(acc) => Letters(acc)'
    BY <1>1, <2>1 DEF single_vars, Letters
  <2> QED BY <2>2, <2>3 DEF MailInv
<1>2. CASE Single!Next
  BY <1>2, MailMade, MailClaimed, MailRefused, MailWritten, MailPublished,
     MailPopped, MailRead, MailReleased, MailHandled
     DEF Single!Next, Single!MainStep, Single!ActorStep
<1> QED BY <1>1, <1>2

LEMMA MessagesFollow == MailInv => Single!MessagesOwned
<1> SUFFICES ASSUME MailInv PROVE Single!MessagesOwned
  OBVIOUS
<1> USE MailNumbers
<1>1. PICK acc \in Seq(Nat) : Letters(acc)
  BY DEF MailInv
<1> DEFINE n == Len(handled)
<1>2. /\ n = Handed /\ n \in Nat /\ n <= mail_tail /\ mail_tail \in Nat /\ message \in Nat
      /\ actor = "handle" => mail_head = n + 1 /\ mail_head \in 1 .. mail_tail
  BY <1>1 DEF Letters, MailInv, MailTypes, Cells, Handed, Published
<1>3. /\ \A k \in 1 .. n : k \in 1 .. mail_tail /\ handled[k] = acc[k]
      /\ \A k \in 1 .. mail_tail : acc[k] \in 1 .. message /\ acc[k] \notin refused /\ acc[k] \in Nat
      /\ \A j, k \in 1 .. mail_tail : j < k => acc[j] < acc[k]
  BY <1>1, <1>2 DEF Letters
<1> HIDE DEF n
<1>4. \A j, k \in 1 .. n : j < k => handled[j] < handled[k]
  BY <1>3
<1>5. ASSUME NEW k \in 1 .. n
      PROVE  /\ handled[k] \in 1 .. message \ refused
             /\ 1 .. handled[k] \cap Single!Unhandled \subseteq refused
  <2>1. handled[k] = acc[k] /\ k \in 1 .. mail_tail /\ acc[k] \in 1 .. message
        /\ acc[k] \notin refused
    BY <1>3
  <2>2. ASSUME NEW m \in 1 .. acc[k], m \notin refused
        PROVE  \E j \in 1 .. n : handled[j] = m
    <3>1. m \in 1 .. message /\ m \in Nat /\ m <= acc[k]
      BY <2>1, <1>2
    <3>2. ~(sender = "push" /\ m = message)
      BY <3>1, <2>1, <1>1, <1>2 DEF Letters
    <3>3. PICK j \in 1 .. mail_tail : acc[j] = m
      BY <3>1, <3>2, <2>2, <1>1 DEF Letters
    <3>4. j <= k
      BY <3>1, <3>3, <2>1, <1>2, <1>3
    <3>5. j \in 1 .. n
      BY <3>3, <3>4, <1>2
    <3> QED BY <3>3, <3>5, <1>3
  <2>3. \A m \in Single!Unhandled : \A j \in 1 .. n : handled[j] # m
    BY DEF Single!Unhandled, n
  <2> QED BY <2>1, <2>2, <2>3
<1>6. actor = "handle" => raw_msg \in Single!Unhandled
  <2> SUFFICES ASSUME actor = "handle" PROVE raw_msg \in Single!Unhandled
    OBVIOUS
  <2>1. raw_msg = acc[mail_head] /\ mail_head \in 1 .. mail_tail /\ mail_head = n + 1
    BY <1>1, <1>2 DEF Letters
  <2>2. \A k \in 1 .. n : k < mail_head /\ handled[k] < raw_msg /\ handled[k] \in Nat /\ raw_msg \in Nat
    <3> TAKE k \in 1 .. n
    <3>1. k < mail_head /\ k \in 1 .. mail_tail
      BY <2>1, <1>2
    <3> QED BY <3>1, <2>1, <1>2, <1>3
  <2>3. \A k \in 1 .. n : handled[k] # raw_msg
    BY <2>2
  <2> QED BY <2>1, <2>3, <1>3 DEF Single!Unhandled, n
<1>7. heap = {<<"msg", m>> : m \in Single!Unhandled}
               \cup {<<"payload", m>> : m \in {k \in Single!Unhandled : ~Single!IsPill(k)}}
  BY DEF MailInv, HeapIs, Single!IsPill
<1> QED BY <1>4, <1>5, <1>6, <1>7 DEF Single!MessagesOwned, n

-----------------------------------------------------------------------------
(* Day 36: the scripts of the NPCs *)

\* After an NPC's turn it is one action further, unless the script has ended.
Turns == IF tick < SCRIPT_LENGTH THEN tick + 1 ELSE tick

ScriptTypes ==
  /\ script \in {"ucontext", "generator"}
  /\ i \in 0 .. MAX_NPCS /\ running \in 0 .. MAX_NPCS /\ current_npc \in NPC!NPCs
  /\ tick \in Nat /\ any_active \in BOOLEAN
  /\ ctx \in [NPC!NPCs -> Nat] /\ done \in [NPC!NPCs -> BOOLEAN]
  /\ log \in Seq(NPC!NPCs \X Nat)

\* In round tick, the NPCs before i have had their turn; the one that runs is i.
InRound ==
  /\ running # MAX_NPCS => running = i /\ current_npc = i
  /\ \A n \in NPC!NPCs : n < i => ctx[n] = Turns
  /\ \A n \in NPC!NPCs : ~(n < i) => ctx[n] = tick
  /\ script = "ucontext" =>
       /\ tick < SCRIPT_LENGTH
       /\ \A n \in NPC!NPCs : done[n] <=> n < i /\ tick = SCRIPT_LENGTH - 1
  /\ script = "generator" =>
       /\ tick <= SCRIPT_LENGTH
       /\ \A n \in NPC!NPCs : done[n] <=> n < i /\ tick = SCRIPT_LENGTH
       /\ any_active <=> i > 0 /\ tick < SCRIPT_LENGTH

\* What was printed fills the rounds before this one and the turns of this one.
RoundsLogged ==
  /\ \A k \in 1 .. Len(log) : log[k] = <<(k - 1) % MAX_NPCS, (k - 1) \div MAX_NPCS + 1>>
  /\ tick < SCRIPT_LENGTH => Len(log) = MAX_NPCS * tick + i
  /\ tick = SCRIPT_LENGTH => Len(log) = MAX_NPCS * tick

ScriptInv == ScriptTypes /\ InRound /\ RoundsLogged

LEMMA ScriptNumbers ==
  /\ MAX_NPCS \in Nat \ {0} /\ SCRIPT_LENGTH \in Nat \ {0}
  /\ NPC!NPCs = 0 .. MAX_NPCS - 1 /\ NPC!Scheduler = MAX_NPCS
BY NPCsUsable DEF NPC!ScriptAssumption, NPC!NPCs, NPC!Scheduler

LEMMA NextLap ==
  ASSUME NEW m \in Nat, NEW x \in Nat
  PROVE  m * x \in Nat /\ m * (x + 1) = m * x + m
OBVIOUS

LEMMA QuotientIs ==
  ASSUME NEW a \in Nat, NEW m \in Nat \ {0}, NEW x \in Nat, NEW r \in 0 .. m - 1,
         a = m * x + r
  PROVE  a \div m = x
<1> DEFINE q == a \div m
<1>1. /\ q \in Int /\ a = m * q + (a % m)
      /\ a % m = r
  BY RemainderIs
<1> HIDE DEF q
<1>2. m * q \in Int /\ m * x \in Int /\ m * (q - x) = m * q - m * x
  BY <1>1
<1>3. m * (q - x) = 0
  BY <1>1, <1>2
<1>4. q - x = 0
  BY <1>3, <1>1, ShortLaps
<1> QED BY <1>1, <1>4 DEF q

LEMMA ScriptInitially == NPC!Init => ScriptInv
<1> SUFFICES ASSUME NPC!Init PROVE ScriptInv
  OBVIOUS
<1> USE ScriptNumbers DEF NPC!Init
<1>1. ScriptTypes
  <2>1. /\ log \in Seq(NPC!NPCs \X Nat) /\ 0 \in NPC!NPCs
        /\ ctx \in [NPC!NPCs -> Nat] /\ done \in [NPC!NPCs -> BOOLEAN]
    OBVIOUS
  <2>2. /\ script \in {"ucontext", "generator"} /\ any_active \in BOOLEAN
        /\ i = 0 /\ running = MAX_NPCS /\ current_npc = 0 /\ tick = 0
    OBVIOUS
  <2> QED BY <2>1, <2>2 DEF ScriptTypes
<1>2. InRound
  BY DEF InRound, Turns
<1>3. RoundsLogged
  BY DEF RoundsLogged
<1> QED BY <1>1, <1>2, <1>3 DEF ScriptInv

\* The next line of the log is that of NPC i in round tick.
LEMMA NextLine ==
  ASSUME ScriptInv, tick < SCRIPT_LENGTH, i < MAX_NPCS,
         log' = Append(log, <<i, tick + 1>>)
  PROVE  /\ log' \in Seq(NPC!NPCs \X Nat) /\ Len(log') = MAX_NPCS * tick + (i + 1)
         /\ \A k \in 1 .. Len(log') :
              log'[k] = <<(k - 1) % MAX_NPCS, (k - 1) \div MAX_NPCS + 1>>
<1> USE ScriptNumbers
<1>1. /\ i \in NPC!NPCs /\ i \in 0 .. MAX_NPCS - 1 /\ tick \in Nat
      /\ log \in Seq(NPC!NPCs \X Nat) /\ Len(log) = MAX_NPCS * tick + i
      /\ MAX_NPCS * tick \in Nat
  BY NextLap DEF ScriptInv, ScriptTypes, RoundsLogged
<1> DEFINE line == <<i, tick + 1>>
<1>2. line \in NPC!NPCs \X Nat
  BY <1>1
<1>3. Len(log) % MAX_NPCS = i /\ Len(log) \div MAX_NPCS = tick
  <2>1. Len(log) \in Nat /\ tick \in Int /\ MAX_NPCS \in Nat \ {0}
    BY <1>1
  <2> QED BY <1>1, <2>1, RemainderIs, QuotientIs
<1> HIDE DEF line
<1>4. log' = Append(log, line)
  BY DEF line
<1>5. /\ log' \in Seq(NPC!NPCs \X Nat) /\ Len(log') = Len(log) + 1
      /\ \A k \in 1 .. Len(log) : log'[k] = log[k]
      /\ log'[Len(log) + 1] = line
  <2> DEFINE S == NPC!NPCs \X Nat
  <2>1. line \in S /\ log \in Seq(S)
    BY <1>1, <1>2
  <2> HIDE DEF S
  <2>2. /\ Append(log, line) \in Seq(S) /\ Len(Append(log, line)) = Len(log) + 1
        /\ \A k \in 1 .. Len(log) : Append(log, line)[k] = log[k]
        /\ Append(log, line)[Len(log) + 1] = line
    BY <2>1
  <2> QED BY <2>2, <1>4 DEF S
<1>6. ASSUME NEW k \in 1 .. Len(log')
      PROVE  log'[k] = <<(k - 1) % MAX_NPCS, (k - 1) \div MAX_NPCS + 1>>
  <2>1. CASE k \in 1 .. Len(log)
    BY <2>1, <1>5 DEF ScriptInv, RoundsLogged
  <2>2. CASE k = Len(log) + 1
    <3>1. k - 1 = Len(log)
      BY <2>2, <1>1
    <3>2. log'[k] = <<i, tick + 1>>
      BY <2>2, <1>5 DEF line
    <3> QED BY <3>1, <3>2, <1>3
  <2>3. k \in 1 .. Len(log) \/ k = Len(log) + 1
    BY <1>5, <1>1
  <2> QED BY <2>1, <2>2, <2>3
<1>7. Len(log') = MAX_NPCS * tick + (i + 1)
  BY <1>1, <1>5
<1> QED BY <1>5, <1>6, <1>7

LEMMA Resumed ==
  ASSUME ScriptInv, NPC!Resume
  PROVE  ScriptInv'
<1> USE ScriptNumbers
<1>1. /\ i < MAX_NPCS /\ i \in NPC!NPCs /\ ~done[i]
  BY DEF ScriptInv, ScriptTypes, InRound, NPC!Resume
<1>2. /\ current_npc' = i /\ running' = i /\ i' = i /\ script' = script /\ ctx' = ctx
      /\ done' = done /\ any_active' = any_active /\ tick' = tick /\ log' = log
  BY <1>1 DEF NPC!Resume
<1>3. ScriptTypes'
  BY <1>1, <1>2 DEF ScriptInv, ScriptTypes
<1>4. InRound'
  BY <1>1, <1>2 DEF ScriptInv, InRound, Turns
<1>5. RoundsLogged'
  BY <1>2 DEF ScriptInv, RoundsLogged
<1> QED BY <1>3, <1>4, <1>5 DEF ScriptInv

LEMMA RoundBegun ==
  ASSUME ScriptInv, NPC!NextRound
  PROVE  ScriptInv'
<1> USE ScriptNumbers
<1>1. /\ running = MAX_NPCS /\ i = MAX_NPCS /\ ~NPC!Stops
      /\ i' = 0 /\ any_active' = FALSE /\ tick' = tick + 1
      /\ script' = script /\ ctx' = ctx /\ done' = done /\ current_npc' = current_npc
      /\ running' = running /\ log' = log
  BY DEF NPC!NextRound
<1>2. /\ tick \in Nat /\ tick < SCRIPT_LENGTH
      /\ script = "ucontext" => tick + 1 < SCRIPT_LENGTH
  BY <1>1 DEF ScriptInv, ScriptTypes, InRound, NPC!Stops, NPC!all_done
<1>3. /\ \A n \in NPC!NPCs : n < i /\ ~(n < i')
      /\ \A n \in NPC!NPCs : ctx[n] = tick + 1 /\ ~done[n]
  BY <1>1, <1>2 DEF ScriptInv, ScriptTypes, InRound, Turns
<1>4. ScriptTypes'
  <2>1. ScriptTypes
    BY DEF ScriptInv
  <2>2. i' \in 0 .. MAX_NPCS
    BY <1>1
  <2>3. tick' \in Nat
    BY <1>1, <1>2
  <2>4. any_active' \in BOOLEAN
    BY <1>1
  <2> QED BY <2>1, <2>2, <2>3, <2>4, <1>1 DEF ScriptTypes
<1>5. InRound'
  BY <1>1, <1>2, <1>3 DEF ScriptInv, ScriptTypes, InRound
<1>6. RoundsLogged'
  <2>1. MAX_NPCS * tick' = MAX_NPCS * tick + MAX_NPCS /\ MAX_NPCS * tick \in Nat
    BY <1>1, <1>2, NextLap
  <2>2. Len(log') = MAX_NPCS * tick' /\ i' = 0
    BY <2>1, <1>1, <1>2 DEF ScriptInv, RoundsLogged
  <2>3. MAX_NPCS * tick' \in Nat
    BY <2>1
  <2> QED BY <2>2, <2>3, <1>1 DEF ScriptInv, RoundsLogged
<1> QED BY <1>4, <1>5, <1>6 DEF ScriptInv

LEMMA ScriptActs ==
  ASSUME ScriptInv, NEW n \in NPC!NPCs, NPC!Act(n)
  PROVE  ScriptInv'
<1> USE ScriptNumbers
<1>1. /\ running = n /\ n # MAX_NPCS /\ script = "ucontext" /\ tick < SCRIPT_LENGTH
      /\ n = i /\ current_npc = i /\ i < MAX_NPCS /\ ctx[n] = tick
  BY DEF NPC!Act, ScriptInv, ScriptTypes, InRound
<1>2. /\ log' = Append(log, <<i, tick + 1>>)
      /\ ctx' = [ctx EXCEPT ![i] = tick + 1]
      /\ done' = [done EXCEPT ![i] = (tick + 1 = SCRIPT_LENGTH)]
      /\ running' = MAX_NPCS /\ i' = i + 1
      /\ script' = script /\ current_npc' = current_npc
      /\ any_active' = any_active /\ tick' = tick
  BY <1>1 DEF NPC!Act
<1>3. /\ tick \in Nat /\ i \in NPC!NPCs
      /\ ctx'[i] = tick + 1 /\ \A m \in NPC!NPCs : m # i => ctx'[m] = ctx[m]
      /\ (done'[i] <=> tick + 1 = SCRIPT_LENGTH)
      /\ \A m \in NPC!NPCs : m # i => done'[m] = done[m]
      /\ \A m \in NPC!NPCs : m < i' <=> m < i \/ m = i
  <2>1. tick \in Nat /\ i \in NPC!NPCs /\ ctx \in [NPC!NPCs -> Nat] /\ done \in [NPC!NPCs -> BOOLEAN]
    BY <1>1 DEF ScriptInv, ScriptTypes
  <2>2. ctx'[i] = tick + 1 /\ \A m \in NPC!NPCs : m # i => ctx'[m] = ctx[m]
    BY <2>1, <1>2
  <2>3. (done'[i] <=> tick + 1 = SCRIPT_LENGTH) /\ \A m \in NPC!NPCs : m # i => done'[m] = done[m]
    BY <2>1, <1>2
  <2>4. \A m \in NPC!NPCs : m < i' <=> m < i \/ m = i
    BY <2>1, <1>2
  <2> QED BY <2>1, <2>2, <2>3, <2>4
<1>4. ScriptTypes'
  BY <1>1, <1>2, <1>3, NextLine DEF ScriptInv, ScriptTypes
<1>5. InRound'
  BY <1>1, <1>2, <1>3 DEF ScriptInv, InRound, Turns
<1>6. RoundsLogged'
  <2>1. /\ Len(log') = MAX_NPCS * tick' + i'
        /\ \A k \in 1 .. Len(log') :
             log'[k] = <<(k - 1) % MAX_NPCS, (k - 1) \div MAX_NPCS + 1>>
    BY <1>1, <1>2, NextLine
  <2>2. tick' # SCRIPT_LENGTH
    BY <1>1, <1>2, <1>3
  <2> QED BY <2>1, <2>2 DEF RoundsLogged
<1> QED BY <1>4, <1>5, <1>6 DEF ScriptInv

LEMMA GeneratorSteps ==
  ASSUME ScriptInv, NEW n \in NPC!NPCs, NPC!next(n)
  PROVE  ScriptInv'
<1> USE ScriptNumbers
<1>1. /\ running = n /\ n # MAX_NPCS /\ script = "generator" /\ tick <= SCRIPT_LENGTH
      /\ n = i /\ current_npc = i /\ i < MAX_NPCS /\ ctx[n] = tick /\ tick \in Nat
      /\ i \in NPC!NPCs
  BY DEF NPC!next, ScriptInv, ScriptTypes, InRound
<1>2. /\ running' = MAX_NPCS /\ i' = i + 1
      /\ script' = script /\ current_npc' = current_npc /\ tick' = tick
      /\ \A m \in NPC!NPCs : m < i' <=> m < i \/ m = i
      /\ i' > 0 /\ i' \in 0 .. MAX_NPCS
  BY <1>1 DEF NPC!next, ScriptInv, ScriptTypes
<1>3. CASE tick < SCRIPT_LENGTH
  <2>1. /\ log' = Append(log, <<i, tick + 1>>)
        /\ ctx' = [ctx EXCEPT ![i] = tick + 1]
        /\ any_active' = TRUE /\ done' = done
    BY <1>1, <1>3 DEF NPC!next
  <2>2. ctx'[i] = tick + 1 /\ \A m \in NPC!NPCs : m # i => ctx'[m] = ctx[m]
    BY <1>1, <2>1 DEF ScriptInv, ScriptTypes
  <2>3. ScriptTypes'
    BY <1>1, <1>2, <1>3, <2>1, NextLine DEF ScriptInv, ScriptTypes
  <2>4. InRound'
    BY <1>1, <1>2, <1>3, <2>1, <2>2 DEF ScriptInv, InRound, Turns
  <2>5. RoundsLogged'
    <3>1. /\ Len(log') = MAX_NPCS * tick' + i'
          /\ \A k \in 1 .. Len(log') :
               log'[k] = <<(k - 1) % MAX_NPCS, (k - 1) \div MAX_NPCS + 1>>
      BY <1>1, <1>2, <1>3, <2>1, NextLine
    <3>2. tick' # SCRIPT_LENGTH
      BY <1>1, <1>2, <1>3
    <3> QED BY <3>1, <3>2 DEF RoundsLogged
  <2> QED BY <2>3, <2>4, <2>5 DEF ScriptInv
<1>4. CASE tick = SCRIPT_LENGTH
  <2>1. /\ done' = [done EXCEPT ![i] = TRUE]
        /\ log' = log /\ ctx' = ctx /\ any_active' = any_active
    BY <1>1, <1>4 DEF NPC!next
  <2>2. done'[i] /\ \A m \in NPC!NPCs : m # i => done'[m] = done[m]
    BY <1>1, <2>1 DEF ScriptInv, ScriptTypes
  <2>3. ScriptTypes'
    BY <1>1, <1>2, <2>1 DEF ScriptInv, ScriptTypes
  <2>4. InRound'
    BY <1>1, <1>2, <1>4, <2>1, <2>2 DEF ScriptInv, InRound, Turns
  <2>5. RoundsLogged'
    BY <1>1, <1>2, <1>4, <2>1 DEF ScriptInv, RoundsLogged
  <2> QED BY <2>3, <2>4, <2>5 DEF ScriptInv
<1> QED BY <1>1, <1>3, <1>4

LEMMA ScriptInductive ==
  ASSUME ScriptInv, NPC!Next \/ UNCHANGED npc_vars
  PROVE  ScriptInv'
<1>1. CASE UNCHANGED npc_vars
  BY <1>1 DEF npc_vars, ScriptInv, ScriptTypes, InRound, RoundsLogged, Turns
<1>2. CASE NPC!Next
  BY <1>2, Resumed, RoundBegun, ScriptActs, GeneratorSteps DEF NPC!Next
<1> QED BY <1>1, <1>2

LEMMA LockstepFollows == ScriptInv => NPC!InLockstep
<1> SUFFICES ASSUME ScriptInv PROVE NPC!InLockstep
  OBVIOUS
<1> USE ScriptNumbers
<1>1. ASSUME NPC!Ended
      PROVE  /\ Len(log) = MAX_NPCS * SCRIPT_LENGTH
             /\ tick = IF script = "ucontext" THEN SCRIPT_LENGTH - 1 ELSE SCRIPT_LENGTH
  <2>1. i = MAX_NPCS /\ NPC!Stops /\ tick \in Nat /\ script \in {"ucontext", "generator"}
    BY <1>1 DEF NPC!Ended, ScriptInv, ScriptTypes
  <2>2. CASE script = "ucontext"
    <3>1. 0 \in NPC!NPCs /\ done[0]
      BY <2>1, <2>2 DEF NPC!Stops, NPC!all_done
    <3>2. tick = SCRIPT_LENGTH - 1
      BY <3>1, <2>2 DEF ScriptInv, InRound
    <3>3. Len(log) = MAX_NPCS * tick + MAX_NPCS
      BY <2>1, <3>2 DEF ScriptInv, RoundsLogged
    <3>4. MAX_NPCS * (tick + 1) = MAX_NPCS * tick + MAX_NPCS /\ tick + 1 = SCRIPT_LENGTH
      BY <2>1, <3>2, NextLap
    <3> QED BY <2>2, <3>2, <3>3, <3>4
  <2>3. CASE script = "generator"
    <3>1. tick = SCRIPT_LENGTH
      BY <2>1, <2>3 DEF NPC!Stops, ScriptInv, InRound
    <3> QED BY <3>1, <2>3 DEF ScriptInv, RoundsLogged
  <2> QED BY <2>1, <2>2, <2>3
<1>2. \A k \in 1 .. Len(log) : log[k] = <<(k - 1) % MAX_NPCS, (k - 1) \div MAX_NPCS + 1>>
  BY DEF ScriptInv, RoundsLogged
<1> QED BY <1>1, <1>2 DEF NPC!InLockstep

-----------------------------------------------------------------------------
(* Day 35: the event loop *)

Kinds   == {"IN", "OUT", "RDHUP"}
Sockets == [state: {"new", "queued", "accepted", "closed"}, in: Nat, sent: Nat,
            end: {"open", "shut", "reset"}, out: Seq(Nat), got: Seq(Nat)]
Unread  == [fd: Fds \cup {Listen}, conn: Clients \cup {Listen}, events: SUBSET Kinds]

LoopTypes ==
  /\ peer \in [Clients -> Sockets]
  /\ buf \in [Clients -> [write_len: {0, RESPONSE}, write_pos: Nat]]
  /\ handlers \in [DOMAIN handlers -> [conn: Clients, watched: SUBSET Kinds]]
  /\ DOMAIN handlers \subseteq Fds
  /\ ready \subseteq DOMAIN handlers \cup {Listen}
  /\ events \in Seq(Unread)

\* One descriptor for each connection that is open in the server.
Connections ==
  /\ \A f \in DOMAIN handlers : peer[handlers[f].conn].state = "accepted"
  /\ \A f, g \in DOMAIN handlers : handlers[f].conn = handlers[g].conn => f = g

\* What an event says of its descriptor is still so when it is handled.
Current(e) ==
  e.fd # Listen =>
    /\ e.fd \in DOMAIN handlers /\ handlers[e.fd].conn = e.conn
    /\ "RDHUP" \in e.events => peer[e.conn].end # "open"
    /\ "IN" \in e.events /\ "RDHUP" \notin e.events =>
         peer[e.conn].in > 0 \/ peer[e.conn].end # "open"

EventsCurrent ==
  /\ \A k \in DOMAIN events : Current(events[k])
  /\ \A j, k \in DOMAIN events : j # k => events[j].fd # events[k].fd

\* The socket p and the buffer b of a client.
Untouched(p, b) == b.write_len = 0 /\ b.write_pos = 0 /\ p.got = <<>> /\ p.out = <<>>

Counted(r, s) ==
  /\ \A k \in DOMAIN r : r[k] = k
  /\ \A k \in DOMAIN s : s[k] = Len(r) + k

Answered(p, b) ==
  /\ p.in <= p.sent
  /\ p.in = p.sent \/ p.state \in {"new", "queued"} => Untouched(p, b)
  /\ Counted(p.got, p.out) /\ Len(p.got) + Len(p.out) <= RESPONSE
  /\ p.end # "reset" => Len(p.got) + Len(p.out) = b.write_pos
  /\ b.write_len > 0 /\ p.state = "closed" /\ p.end = "open" => b.write_pos = b.write_len

Buffers ==
  \A c \in Clients :
    /\ buf[c].write_pos <= buf[c].write_len /\ Len(peer[c].out) <= SNDBUF
    /\ peer[c].end = "reset" => peer[c].out = <<>>
    /\ peer[c].sent <= 1 => Answered(peer[c], buf[c])

LoopInv == LoopTypes /\ Connections /\ EventsCurrent /\ Buffers

LEMMA LoopNumbers ==
  /\ Fds \subseteq Nat /\ Listen \notin Fds /\ IsFiniteSet(Fds)
  /\ RESPONSE \in Nat /\ SNDBUF \in Nat
<1>1. Loop!IsFiniteSet(Fds) <=> IsFiniteSet(Fds)
  BY DEF Loop!IsFiniteSet, IsFiniteSet
<1> QED BY <1>1, ServerUsable DEF Loop!ServerAssumption

\* Min is defined for the sets it is used on.
LEMMA LeastExists ==
  ASSUME NEW S, S \subseteq Nat, S # {}
  PROVE  Loop!Min(S) \in S
<1>1. \E x \in S : \A y \in S : ~(<<y, x>> \in OpToRel(<, Nat))
  BY NatLessThanWellFounded, WFMin
<1>2. \A x, y \in Nat : <<y, x>> \in OpToRel(<, Nat) <=> y < x
  BY DEF OpToRel
<1>3. \E x \in S : \A y \in S : x <= y
  <2>1. PICK x \in S : \A y \in S : ~(<<y, x>> \in OpToRel(<, Nat))
    BY <1>1
  <2>2. \A y \in S : ~(y < x)
    BY <2>1, <1>2
  <2>3. \A y \in S : x <= y
    BY <2>2
  <2> QED BY <2>3
<1> QED BY <1>3 DEF Loop!Min

LEMMA LeastOfTwo ==
  ASSUME NEW a \in Nat, NEW b \in Nat
  PROVE  Loop!Min({a, b}) \in Nat /\ Loop!Min({a, b}) <= a /\ Loop!Min({a, b}) <= b
<1>1. \E x \in {a, b} : \A y \in {a, b} : x <= y
  OBVIOUS
<1> QED BY <1>1 DEF Loop!Min

LEMMA EventsTail ==
  ASSUME LoopTypes, EventsCurrent, events # <<>>
  PROVE  /\ Tail(events) \in Seq(Unread) /\ Head(events) \in Unread /\ Current(Head(events))
         /\ \A k \in DOMAIN Tail(events) :
              /\ k + 1 \in DOMAIN events /\ Tail(events)[k] = events[k + 1]
              /\ Tail(events)[k] \in Unread
              /\ Current(Tail(events)[k]) /\ Tail(events)[k].fd # Head(events).fd
         /\ \A j, k \in DOMAIN Tail(events) : j # k => Tail(events)[j].fd # Tail(events)[k].fd
<1>1. /\ Tail(events) \in Seq(Unread) /\ Head(events) = events[1] /\ 1 \in DOMAIN events
      /\ events[1] \in Unread
      /\ \A k \in DOMAIN Tail(events) :
           /\ k + 1 \in DOMAIN events /\ Tail(events)[k] = events[k + 1] /\ k + 1 # 1
           /\ Tail(events)[k] \in Unread
      /\ \A j, k \in DOMAIN Tail(events) : j # k => j + 1 # k + 1
  <2>1. events \in Seq(Unread)
    BY DEF LoopTypes
  <2>2. /\ Len(events) \in Nat /\ DOMAIN events = 1 .. Len(events) /\ Len(events) > 0
        /\ Head(events) = events[1] /\ DOMAIN Tail(events) = 1 .. Len(events) - 1
        /\ Tail(events) \in Seq(Unread)
        /\ \A k \in 1 .. Len(events) - 1 : Tail(events)[k] = events[k + 1]
        /\ \A k \in 1 .. Len(events) : events[k] \in Unread
    BY <2>1
  <2> QED BY <2>2
<1> QED BY <1>1 DEF EventsCurrent

LEMMA LoopInitially == Loop!Init => LoopInv
<1> SUFFICES ASSUME Loop!Init PROVE LoopInv
  OBVIOUS
<1> USE LoopNumbers DEF Loop!Init
<1>1. peer \in [Clients -> Sockets]
  BY DEF Sockets
<1>2. buf \in [Clients -> [write_len: {0, RESPONSE}, write_pos: Nat]]
  OBVIOUS
<1>3. DOMAIN handlers = {}
  OBVIOUS
<1>4. handlers \in [DOMAIN handlers -> [conn: Clients, watched: SUBSET Kinds]]
  BY <1>3
<1>5. LoopTypes
  BY <1>1, <1>2, <1>3, <1>4 DEF LoopTypes
<1>6. Connections /\ EventsCurrent
  BY <1>3 DEF Connections, EventsCurrent
<1>7. ASSUME NEW d \in Clients
      PROVE  /\ buf[d].write_pos = 0 /\ buf[d].write_len = 0 /\ peer[d].out = <<>>
             /\ peer[d].got = <<>> /\ peer[d].end = "open" /\ peer[d].in = 0 /\ peer[d].sent = 0
  OBVIOUS
<1>8. Buffers
  BY <1>7 DEF Buffers, Answered, Untouched, Counted
<1> QED BY <1>5, <1>6, <1>8 DEF LoopInv

\* What can happen to a socket without making an event out of date.
Harmless(d) ==
  /\ peer[d].end # "open" => peer'[d].end # "open"
  /\ peer[d].in > 0 => peer'[d].in > 0 \/ peer'[d].end # "open"

LEMMA StillCurrent ==
  ASSUME LoopTypes, NEW e \in Unread, Current(e),
         e.fd \in DOMAIN handlers => /\ e.fd \in DOMAIN handlers'
                                     /\ handlers'[e.fd].conn = handlers[e.fd].conn
                                     /\ Harmless(handlers[e.fd].conn)
  PROVE  Current(e)'
BY DEF Current, Harmless

\* What a client does to its own socket.
MayBecome(d, s) ==
  /\ s.state = peer[d].state \/ (peer[d].state = "new" /\ s.state = "queued")
  /\ peer[d].end # "open" => s.end # "open"
  /\ peer[d].in > 0 => s.in > 0 \/ s.end # "open"
  /\ Len(s.out) <= SNDBUF /\ (s.end = "reset" => s.out = <<>>)
  /\ s.sent <= 1 => Answered(s, buf[d])

LEMMA ClientActs ==
  ASSUME LoopInv, NEW d \in Clients, NEW s \in Sockets, MayBecome(d, s),
         peer' = [peer EXCEPT ![d] = s], UNCHANGED <<handlers, buf, events>>,
         ready' \subseteq DOMAIN handlers \cup {Listen}
  PROVE  LoopInv'
<1> USE DEF MayBecome
<1>1. /\ peer' \in [Clients -> Sockets] /\ peer'[d] = s
      /\ \A b \in Clients : b # d => peer'[b] = peer[b]
  BY DEF LoopInv, LoopTypes
<1>2. LoopTypes'
  BY <1>1 DEF LoopInv, LoopTypes
<1>3. Connections'
  <2>1. \A f \in DOMAIN handlers : handlers[f].conn \in Clients
    BY DEF LoopInv, LoopTypes
  <2> QED BY <1>1, <2>1 DEF LoopInv, Connections
<1>4. EventsCurrent'
  <2>1. \A b \in Clients : Harmless(b)
    BY <1>1 DEF Harmless
  <2>2. \A f \in DOMAIN handlers : Harmless(handlers[f].conn)
    BY <2>1 DEF LoopInv, LoopTypes
  <2>3. ASSUME NEW k \in DOMAIN events PROVE Current(events[k])'
    <3>1. events[k] \in Unread /\ Current(events[k])
      BY DEF LoopInv, LoopTypes, EventsCurrent
    <3> QED BY <3>1, <2>2, StillCurrent DEF LoopInv
  <2> QED BY <2>3 DEF LoopInv, EventsCurrent
<1>5. Buffers'
  BY <1>1 DEF LoopInv, Buffers
<1> QED BY <1>2, <1>3, <1>4, <1>5 DEF LoopInv

LEMMA SocketFields ==
  ASSUME NEW p \in Sockets
  PROVE  /\ p.in \in Nat /\ p.sent \in Nat /\ p.got \in Seq(Nat) /\ p.out \in Seq(Nat)
         /\ Len(p.got) \in Nat /\ Len(p.out) \in Nat
<1>1. p.in \in Nat /\ p.sent \in Nat /\ p.got \in Seq(Nat) /\ p.out \in Seq(Nat)
  BY DEF Sockets
<1>2. \A s \in Seq(Nat) : Len(s) \in Nat
  OBVIOUS
<1> QED BY <1>1, <1>2

\* The client reads the first of what is in the kernel's buffer.
LEMMA PassedOn ==
  ASSUME NEW r \in Seq(Nat), NEW s \in Seq(Nat), s # <<>>
  PROVE  /\ Append(r, Head(s)) \in Seq(Nat) /\ Tail(s) \in Seq(Nat)
         /\ Len(Append(r, Head(s))) + Len(Tail(s)) = Len(r) + Len(s)
         /\ Len(Tail(s)) <= Len(s)
         /\ Counted(r, s) => Counted(Append(r, Head(s)), Tail(s))
<1>1. /\ Len(s) \in Nat /\ Len(s) > 0 /\ DOMAIN s = 1 .. Len(s)
      /\ Head(s) \in Nat /\ Head(s) = s[1] /\ 1 \in DOMAIN s
      /\ Tail(s) \in Seq(Nat) /\ Len(Tail(s)) = Len(s) - 1
      /\ DOMAIN Tail(s) = 1 .. Len(s) - 1
      /\ \A k \in 1 .. Len(s) - 1 : k + 1 \in DOMAIN s /\ Tail(s)[k] = s[k + 1]
  OBVIOUS
<1> PICK h \in Nat : h = Head(s)
  BY <1>1
<1> PICK t : t = Append(r, h)
  OBVIOUS
<1>2. /\ Len(r) \in Nat /\ DOMAIN r = 1 .. Len(r) /\ t \in Seq(Nat) /\ Len(t) = Len(r) + 1
      /\ DOMAIN t = 1 .. Len(r) + 1 /\ t[Len(r) + 1] = h /\ \A k \in 1 .. Len(r) : t[k] = r[k]
  OBVIOUS
<1>3. Len(t) + Len(Tail(s)) = Len(r) + Len(s) /\ Len(Tail(s)) <= Len(s)
  BY <1>1, <1>2
<1>4. ASSUME Counted(r, s) PROVE Counted(t, Tail(s))
  <2>1. h = Len(r) + 1
    BY <1>1, <1>4 DEF Counted
  <2>2. \A k \in DOMAIN t : k \in DOMAIN r \/ k = Len(r) + 1
    BY <1>2
  <2>3. \A k \in DOMAIN t : t[k] = k
    BY <2>1, <2>2, <1>2, <1>4 DEF Counted
  <2>4. ASSUME NEW k \in 1 .. Len(s) - 1 PROVE Tail(s)[k] = Len(t) + k
    <3>1. Tail(s)[k] = Len(r) + (k + 1)
      BY <1>1, <1>4 DEF Counted
    <3> QED BY <3>1, <1>2
  <2> QED BY <2>3, <2>4, <1>1 DEF Counted
<1> QED BY <1>1, <1>2, <1>3, <1>4

LEMMA ClientConnects ==
  ASSUME LoopInv, NEW d \in Clients, Loop!Connect(d)
  PROVE  LoopInv'
<1> PICK p \in Sockets : p = peer[d]
  BY DEF LoopInv, LoopTypes
<1> DEFINE s == [p EXCEPT !.state = "queued"]
<1>1. /\ p.state = "new" /\ UNCHANGED <<handlers, buf, events>>
      /\ ready' = ready \cup {Listen} /\ peer' = [peer EXCEPT ![d] = s]
  BY DEF Loop!Connect
<1>2. /\ s \in Sockets /\ s.state = "queued" /\ s.in = p.in /\ s.sent = p.sent /\ s.end = p.end
      /\ s.out = p.out /\ s.got = p.got
  BY DEF Sockets
<1> HIDE DEF s
<1>3. /\ Len(p.out) <= SNDBUF /\ (p.end = "reset" => p.out = <<>>)
      /\ p.sent <= 1 => Answered(p, buf[d])
  BY DEF LoopInv, Buffers
<1>4. s.sent <= 1 => Answered(s, buf[d])
  BY <1>1, <1>2, <1>3 DEF Answered, Untouched
<1>5. ready' \subseteq DOMAIN handlers \cup {Listen}
  BY <1>1 DEF LoopInv, LoopTypes
<1>6. MayBecome(d, s)
  BY <1>1, <1>2, <1>3, <1>4 DEF MayBecome
<1> QED BY <1>1, <1>2, <1>5, <1>6, ClientActs

LEMMA ClientSends ==
  ASSUME LoopInv, NEW d \in Clients, Loop!Send(d)
  PROVE  LoopInv'
<1> PICK p \in Sockets : p = peer[d]
  BY DEF LoopInv, LoopTypes
<1> DEFINE s == [p EXCEPT !.in = p.in + 1, !.sent = p.sent + 1]
<1>1. /\ UNCHANGED <<handlers, buf, events>> /\ ready' = ready \cup Loop!FdOf(d)
      /\ peer' = [peer EXCEPT ![d] = s]
  BY DEF Loop!Send
<1>2. /\ s \in Sockets /\ s.state = p.state /\ s.in = p.in + 1 /\ s.sent = p.sent + 1
      /\ s.end = p.end /\ s.out = p.out /\ s.got = p.got /\ p.in \in Nat /\ p.sent \in Nat
  <2>1. p.in + 1 \in Nat /\ p.sent + 1 \in Nat /\ p.in \in Nat /\ p.sent \in Nat
    BY SocketFields
  <2> QED BY <2>1 DEF Sockets
<1> HIDE DEF s
<1>3. /\ Len(p.out) <= SNDBUF /\ (p.end = "reset" => p.out = <<>>)
      /\ p.sent <= 1 => Answered(p, buf[d])
  BY DEF LoopInv, Buffers
<1>4. s.sent <= 1 => Answered(s, buf[d])
  <2>1. p.in + 1 = p.sent + 1 <=> p.in = p.sent
    BY <1>2
  <2>2. p.in <= p.sent <=> p.in + 1 <= p.sent + 1
    BY <1>2
  <2>3. p.sent + 1 <= 1 => p.sent <= 1
    BY <1>2
  <2> QED BY <2>1, <2>2, <2>3, <1>2, <1>3 DEF Answered, Untouched
<1>5. ready' \subseteq DOMAIN handlers \cup {Listen}
  BY <1>1 DEF LoopInv, LoopTypes, Loop!FdOf, Loop!Registered
<1>6. p.in > 0 => s.in > 0
  BY <1>2
<1>7. MayBecome(d, s)
  BY <1>2, <1>3, <1>4, <1>6 DEF MayBecome
<1> QED BY <1>1, <1>2, <1>5, <1>7, ClientActs

LEMMA ClientHangsUp ==
  ASSUME LoopInv, NEW d \in Clients, Loop!HangUp(d)
  PROVE  LoopInv'
<1> PICK p \in Sockets : p = peer[d]
  BY DEF LoopInv, LoopTypes
<1>1. /\ p.end = "open" /\ UNCHANGED <<handlers, buf, events>> /\ ready' = ready \cup Loop!FdOf(d)
  BY DEF Loop!HangUp, Loop!Alive
<1>2. /\ Len(p.out) <= SNDBUF /\ (p.end = "reset" => p.out = <<>>)
      /\ p.sent <= 1 => Answered(p, buf[d])
  BY DEF LoopInv, Buffers
<1>3. ready' \subseteq DOMAIN handlers \cup {Listen}
  BY <1>1 DEF LoopInv, LoopTypes, Loop!FdOf, Loop!Registered
<1>4. p.in \in Nat /\ p.sent \in Nat /\ p.got \in Seq(Nat) /\ p.out \in Seq(Nat)
  BY SocketFields
<1>5. CASE peer' = [peer EXCEPT ![d].end = "shut"]
  <2> DEFINE s == [p EXCEPT !.end = "shut"]
  <2>1. peer' = [peer EXCEPT ![d] = s]
    BY <1>5
  <2>2. /\ s \in Sockets /\ s.state = p.state /\ s.in = p.in /\ s.sent = p.sent
        /\ s.end = "shut" /\ s.out = p.out /\ s.got = p.got
    BY DEF Sockets
  <2> HIDE DEF s
  <2>3. s.sent <= 1 => Answered(s, buf[d])
    BY <2>2, <1>1, <1>2 DEF Answered, Untouched
  <2>4. MayBecome(d, s)
    BY <2>2, <2>3, <1>1, <1>2 DEF MayBecome
  <2> QED BY <2>1, <2>2, <2>4, <1>1, <1>3, ClientActs
<1>6. CASE peer' = [peer EXCEPT ![d].end = "reset", ![d].in = 0, ![d].out = <<>>]
  <2> DEFINE s == [p EXCEPT !.end = "reset", !.in = 0, !.out = <<>>]
  <2>1. peer' = [peer EXCEPT ![d] = s]
    BY <1>6
  <2>2. /\ s \in Sockets /\ s.state = p.state /\ s.in = 0 /\ s.sent = p.sent
        /\ s.end = "reset" /\ s.out = <<>> /\ s.got = p.got
    <3>1. \A x \in Nat, y \in Seq(Nat) :
            LET u == [p EXCEPT !.end = "reset", !.in = x, !.out = y]
            IN  /\ u \in Sockets /\ u.state = p.state /\ u.in = x /\ u.sent = p.sent
                /\ u.end = "reset" /\ u.out = y /\ u.got = p.got
      BY DEF Sockets
    <3>2. <<>> \in Seq(Nat) /\ 0 \in Nat
      OBVIOUS
    <3> QED BY <3>1, <3>2
  <2> HIDE DEF s
  <2>3. s.sent <= 1 => Answered(s, buf[d])
    <3>1. 0 = p.sent /\ p.in <= p.sent => p.in = p.sent
      BY <1>4
    <3>2. Len(p.got) + Len(p.out) <= RESPONSE => Len(p.got) + 0 <= RESPONSE
      <4>1. \A a, b, n \in Nat : a + b <= n => a + 0 <= n
        OBVIOUS
      <4>2. Len(p.got) \in Nat /\ Len(p.out) \in Nat /\ RESPONSE \in Nat
        BY SocketFields, LoopNumbers
      <4> QED BY <4>1, <4>2
    <3>3. Len(<<>>) = 0 /\ DOMAIN <<>> = {} /\ 0 <= p.sent
      BY <1>4
    <3>4. Counted(p.got, p.out) => Counted(p.got, <<>>)
      BY <3>3 DEF Counted
    <3>5. p.sent <= 1 => /\ Answered(p, buf[d])
                         /\ p.in <= p.sent
      BY <1>2 DEF Answered
    <3>6. Untouched(p, buf[d]) => Untouched(s, buf[d])
      BY <2>2 DEF Untouched
    <3> QED BY <2>2, <3>1, <3>2, <3>3, <3>4, <3>5, <3>6 DEF Answered
  <2>4. Len(s.out) <= SNDBUF
    BY <2>2, LoopNumbers
  <2>5. MayBecome(d, s)
    BY <2>2, <2>3, <2>4, <1>1 DEF MayBecome
  <2> QED BY <2>1, <2>2, <2>5, <1>1, <1>3, ClientActs
<1> QED BY <1>5, <1>6 DEF Loop!HangUp

LEMMA ClientReceives ==
  ASSUME LoopInv, NEW d \in Clients, Loop!Receive(d)
  PROVE  LoopInv'
<1> PICK p \in Sockets : p = peer[d]
  BY DEF LoopInv, LoopTypes
<1> DEFINE s == [p EXCEPT !.got = Append(p.got, Head(p.out)), !.out = Tail(p.out)]
<1>1. /\ p.out # <<>> /\ UNCHANGED <<handlers, buf, events>>
      /\ ready' \subseteq ready \cup Loop!FdOf(d) /\ peer' = [peer EXCEPT ![d] = s]
  BY DEF Loop!Receive
<1> PICK r \in Seq(Nat), w \in Seq(Nat) :
       /\ r = Append(p.got, Head(p.out)) /\ w = Tail(p.out)
       /\ Len(r) + Len(w) = Len(p.got) + Len(p.out) /\ Len(w) <= Len(p.out)
       /\ Counted(p.got, p.out) => Counted(r, w)
  BY <1>1, SocketFields, PassedOn
<1>2. /\ s \in Sockets /\ s.state = p.state /\ s.in = p.in /\ s.sent = p.sent /\ s.end = p.end
      /\ s.out = w /\ s.got = r
  <2>1. s = [p EXCEPT !.got = r, !.out = w]
    OBVIOUS
  <2> HIDE DEF s
  <2> QED BY <2>1 DEF Sockets
<1> HIDE DEF s
<1>3. /\ Len(p.out) <= SNDBUF /\ p.end # "reset"
      /\ p.sent <= 1 => Answered(p, buf[d])
  BY <1>1 DEF LoopInv, Buffers
<1>4. Len(s.out) <= SNDBUF
  <2>1. Len(p.out) \in Nat /\ Len(w) \in Nat
    BY SocketFields
  <2> QED BY <2>1, <1>2, <1>3, LoopNumbers
<1>5. s.sent <= 1 => Answered(s, buf[d])
  <2>1. ~Untouched(p, buf[d])
    BY <1>1 DEF Untouched
  <2> QED BY <2>1, <1>2, <1>3 DEF Answered
<1>6. ready' \subseteq DOMAIN handlers \cup {Listen}
  BY <1>1 DEF LoopInv, LoopTypes, Loop!FdOf, Loop!Registered
<1>7. MayBecome(d, s)
  BY <1>2, <1>3, <1>4, <1>5 DEF MayBecome
<1> QED BY <1>1, <1>2, <1>6, <1>7, ClientActs

LEMMA EventsReported ==
  ASSUME LoopInv, Loop!epoll_wait
  PROVE  LoopInv'
<1> PICK r : r = Loop!Reported
  OBVIOUS
<1>1. /\ r \subseteq DOMAIN handlers \cup {Listen} /\ r \subseteq Fds \cup {Listen}
  BY DEF Loop!Reported, LoopInv, LoopTypes
<1>2. Loop!Cardinality(r) \in Nat
  <2>1. IsFiniteSet(r)
    <3>1. IsFiniteSet(Fds \cup {Listen})
      BY LoopNumbers, FS_AddElement
    <3> QED BY <3>1, <1>1, FS_Subset
  <2>2. Loop!Cardinality(r) = Cardinality(r)
    BY DEF Loop!Cardinality, Cardinality
  <2> QED BY <2>1, <2>2, FS_CardinalityType
<1> PICK n \in Nat : n = Loop!Cardinality(r)
  BY <1>2
<1>3. PICK order \in [1 .. n -> r] :
        /\ \A j, k \in 1 .. n : j # k => order[j] # order[k]
        /\ events' = [k \in 1 .. Len(order) |->
             IF order[k] = Listen THEN [fd |-> Listen, conn |-> Listen, events |-> {"IN"}]
             ELSE [fd |-> order[k], conn |-> handlers[order[k]].conn,
                   events |-> Loop!Mask(peer[handlers[order[k]].conn], handlers[order[k]].watched)]]
  BY DEF Loop!epoll_wait, Loop!SetToSeqs
<1>4. ready' = {} /\ UNCHANGED <<peer, handlers, buf>>
  BY DEF Loop!epoll_wait
<1>5. Len(order) = n
  <2>1. order \in Seq(r)
    OBVIOUS
  <2> QED OBVIOUS
<1>6. ASSUME NEW k \in 1 .. n
      PROVE  events'[k] \in Unread /\ events'[k].fd = order[k] /\ Current(events[k])'
  <2>1. order[k] \in r
    OBVIOUS
  <2>2. CASE order[k] = Listen
    <3>1. events'[k] = [fd |-> Listen, conn |-> Listen, events |-> {"IN"}]
      BY <1>3, <1>5, <2>2
    <3>2. [fd |-> Listen, conn |-> Listen, events |-> {"IN"}] \in Unread
      BY DEF Unread, Kinds
    <3> QED BY <3>1, <3>2, <2>2 DEF Current
  <2>3. CASE order[k] # Listen
    <3> PICK f \in DOMAIN handlers : f = order[k]
      BY <2>1, <2>3, <1>1
    <3> PICK d \in Clients : d = handlers[f].conn
      BY DEF LoopInv, LoopTypes
    <3> PICK m \in SUBSET Kinds : m = Loop!Mask(peer[d], handlers[f].watched)
      BY DEF Loop!Mask, Kinds
    <3>1. /\ "RDHUP" \in m => peer[d].end # "open"
          /\ "IN" \in m => peer[d].in > 0 \/ peer[d].end # "open"
      BY DEF Loop!Mask
    <3>2. events'[k] = [fd |-> f, conn |-> d, events |-> m]
      BY <1>3, <1>5, <2>3
    <3>3. f \in Fds
      BY DEF LoopInv, LoopTypes
    <3>4. events'[k] \in Unread
      BY <3>2, <3>3 DEF Unread
    <3>5. events'[k].fd = f /\ events'[k].conn = d /\ events'[k].events = m
      BY <3>2
    <3> QED BY <3>1, <3>4, <3>5, <1>4 DEF Current
  <2> QED BY <2>2, <2>3
<1>7. events' \in Seq(Unread) /\ DOMAIN events' = 1 .. n
  <2>1. DOMAIN events' = 1 .. n /\ events' \in [1 .. n -> Unread]
    BY <1>3, <1>5, <1>6
  <2> QED BY <2>1
<1>8. LoopTypes'
  BY <1>4, <1>7 DEF LoopInv, LoopTypes
<1>9. EventsCurrent'
  <2>1. ASSUME NEW k \in DOMAIN events' PROVE Current(events[k])'
    BY <2>1, <1>6, <1>7
  <2>2. ASSUME NEW j \in DOMAIN events', NEW k \in DOMAIN events', j # k
        PROVE  events'[j].fd # events'[k].fd
    BY <2>2, <1>3, <1>6, <1>7
  <2> QED BY <2>1, <2>2 DEF EventsCurrent
<1>10. Connections' /\ Buffers'
  BY <1>4 DEF LoopInv, Connections, Buffers
<1> QED BY <1>8, <1>9, <1>10 DEF LoopInv

\* A step that takes the first event off and does nothing else.
LEMMA EventSkipped ==
  ASSUME LoopInv, events # <<>>, events' = Tail(events), UNCHANGED <<peer, handlers, buf, ready>>
  PROVE  LoopInv'
<1>1. LoopTypes'
  BY EventsTail DEF LoopInv, LoopTypes
<1>2. EventsCurrent'
  <2>1. ASSUME NEW k \in DOMAIN events' PROVE Current(events[k])'
    <3>1. PICK e \in Unread : e = Tail(events)[k] /\ Current(e)
      BY <2>1, EventsTail DEF LoopInv
    <3>2. Current(e)'
      BY <3>1 DEF Current
    <3>3. events'[k] = e
      BY <3>1
    <3> QED BY <3>2, <3>3 DEF Current
  <2>2. \A j, k \in DOMAIN events' : j # k => events'[j].fd # events'[k].fd
    BY EventsTail DEF LoopInv
  <2> QED BY <2>1, <2>2 DEF EventsCurrent
<1>3. Connections' /\ Buffers'
  BY DEF LoopInv, Connections, Buffers
<1> QED BY <1>1, <1>2, <1>3 DEF LoopInv

LEMMA Accepts ==
  ASSUME LoopInv, Loop!AcceptLoop
  PROVE  LoopInv'
<1> USE DEF Loop!Registered
<1>1. events # <<>> /\ buf' = buf
  BY DEF Loop!AcceptLoop
<1>2. CASE events' = Tail(events) /\ UNCHANGED <<peer, handlers, ready>>
  BY <1>1, <1>2, EventSkipped
<1>3. ASSUME NEW d \in Clients, peer[d].state = "queued", NEW label \in {"accepted", "closed"},
             peer' = [peer EXCEPT ![d].state = label], events' = events,
             handlers' \in [DOMAIN handlers' -> [conn: Clients, watched: SUBSET Kinds]],
             DOMAIN handlers' \subseteq Fds,
             \A f \in DOMAIN handlers : f \in DOMAIN handlers' /\ handlers'[f] = handlers[f],
             \A f \in DOMAIN handlers' : f \notin DOMAIN handlers =>
               handlers'[f].conn = d /\ label = "accepted"
                 /\ \A g \in DOMAIN handlers' : g \notin DOMAIN handlers => f = g,
             ready' \subseteq DOMAIN handlers' \cup {Listen}
      PROVE  LoopInv'
  <2> PICK p \in Sockets : p = peer[d]
    BY DEF LoopInv, LoopTypes
  <2> PICK s : s = [p EXCEPT !.state = label]
    OBVIOUS
  <2>1. /\ s \in Sockets /\ s.state = label /\ s.in = p.in /\ s.sent = p.sent /\ s.end = p.end
        /\ s.out = p.out /\ s.got = p.got
    BY DEF Sockets
  <2>2. peer \in [Clients -> Sockets] /\ peer' = [peer EXCEPT ![d] = s]
    BY <1>3 DEF LoopInv, LoopTypes
  <2>3. /\ peer' \in [Clients -> Sockets] /\ peer'[d] = s
        /\ \A b \in Clients : b # d => peer'[b] = peer[b]
    BY <2>1, <2>2
  <2>4. LoopTypes'
    BY <1>1, <1>3, <2>3 DEF LoopInv, LoopTypes
  <2>5. \A f \in DOMAIN handlers : /\ handlers[f].conn \in Clients /\ handlers[f].conn # d
                                   /\ peer'[handlers[f].conn] = peer[handlers[f].conn]
    BY <1>3, <2>3 DEF LoopInv, LoopTypes, Connections
  <2>6. Connections'
    <3>1. \A f \in DOMAIN handlers' : peer'[handlers'[f].conn].state = "accepted"
      BY <1>3, <2>1, <2>3, <2>5 DEF LoopInv, Connections
    <3>2. \A f, g \in DOMAIN handlers' : handlers'[f].conn = handlers'[g].conn => f = g
      BY <1>3, <2>5 DEF LoopInv, Connections
    <3> QED BY <3>1, <3>2 DEF Connections
  <2>7. EventsCurrent'
    <3>1. \A f \in DOMAIN handlers : Harmless(handlers[f].conn)
      BY <2>5 DEF Harmless
    <3>2. ASSUME NEW k \in DOMAIN events PROVE Current(events[k])'
      <4>1. events[k] \in Unread /\ Current(events[k])
        BY DEF LoopInv, LoopTypes, EventsCurrent
      <4> PICK e \in Unread : e = events[k]
        BY <4>1
      <4>2. Current(e)'
        BY <4>1, <3>1, <1>3, StillCurrent DEF LoopInv
      <4> QED BY <4>2, <1>3 DEF Current
    <3> QED BY <3>2, <1>3 DEF LoopInv, EventsCurrent
  <2>8. Buffers'
    <3>1. /\ buf[d].write_pos <= buf[d].write_len /\ Len(p.out) <= SNDBUF
          /\ p.end = "reset" => p.out = <<>>
          /\ p.sent <= 1 => Answered(p, buf[d]) /\ Untouched(p, buf[d])
      BY <1>3 DEF LoopInv, Buffers, Answered
    <3>2. s.sent <= 1 => Answered(s, buf[d])
      <4>1. Untouched(p, buf[d]) => Untouched(s, buf[d]) /\ ~(buf[d].write_len > 0)
        BY <2>1 DEF Untouched
      <4> QED BY <4>1, <3>1, <2>1 DEF Answered
    <3> QED BY <3>1, <3>2, <1>1, <2>1, <2>3 DEF LoopInv, Buffers
  <2> QED BY <2>4, <2>6, <2>7, <2>8 DEF LoopInv
<1>4. ASSUME NEW d \in Loop!Queued, Loop!drop_client(d), events' = events
      PROVE  LoopInv'
  <2>1. /\ d \in Clients /\ peer[d].state = "queued" /\ handlers' = handlers /\ ready' = ready
        /\ peer' = [peer EXCEPT ![d].state = "closed"]
    BY <1>4 DEF Loop!Queued, Loop!drop_client
  <2>2. /\ handlers' \in [DOMAIN handlers' -> [conn: Clients, watched: SUBSET Kinds]]
        /\ DOMAIN handlers' \subseteq Fds /\ ready' \subseteq DOMAIN handlers' \cup {Listen}
    BY <2>1 DEF LoopInv, LoopTypes
  <2> QED BY <2>1, <2>2, <1>3, <1>4
<1>5. ASSUME NEW d \in Loop!Queued, ~(Fds \subseteq DOMAIN handlers), events' = events,
             Loop!register_handler(Loop!Min(Fds \ Loop!Registered), d)
      PROVE  LoopInv'
  <2> PICK fd \in Fds \ DOMAIN handlers : fd = Loop!Min(Fds \ Loop!Registered)
    <3>1. Fds \ DOMAIN handlers \subseteq Nat /\ Fds \ DOMAIN handlers # {}
      BY <1>5, LoopNumbers
    <3> QED BY <3>1, LeastExists
  <2>1. /\ d \in Clients /\ peer[d].state = "queued"
        /\ peer' = [peer EXCEPT ![d].state = "accepted"]
        /\ handlers' = [f \in DOMAIN handlers \cup {fd} |->
                         IF f = fd THEN [conn |-> d, watched |-> {"IN"}] ELSE handlers[f]]
        /\ ready' \subseteq ready \cup {fd}
    BY <1>5 DEF Loop!Queued, Loop!register_handler, Loop!Watch
  <2>2. [conn |-> d, watched |-> {"IN"}] \in [conn: Clients, watched: SUBSET Kinds]
    BY <2>1 DEF Kinds
  <2>3. /\ handlers' \in [DOMAIN handlers' -> [conn: Clients, watched: SUBSET Kinds]]
        /\ DOMAIN handlers' = DOMAIN handlers \cup {fd}
        /\ handlers'[fd].conn = d
        /\ \A f \in DOMAIN handlers : handlers'[f] = handlers[f]
    BY <2>1, <2>2 DEF LoopInv, LoopTypes
  <2>4. DOMAIN handlers' \subseteq Fds /\ ready' \subseteq DOMAIN handlers' \cup {Listen}
    BY <2>1, <2>3 DEF LoopInv, LoopTypes
  <2> QED BY <2>1, <2>3, <2>4, <1>3, <1>5
<1> QED BY <1>2, <1>4, <1>5 DEF Loop!AcceptLoop

LEMMA ConnCloses ==
  ASSUME LoopInv, events # <<>>, Head(events).fd \in DOMAIN handlers,
         peer[handlers[Head(events).fd].conn].end # "open", Loop!close_conn
  PROVE  LoopInv'
<1> PICK fd \in DOMAIN handlers : fd = Head(events).fd
  OBVIOUS
<1> PICK d \in Clients : d = handlers[fd].conn
  BY DEF LoopInv, LoopTypes
<1> PICK p \in Sockets : p = peer[d]
  BY DEF LoopInv, LoopTypes
<1> PICK s : s = [p EXCEPT !.state = "closed"]
  OBVIOUS
<1>1. /\ handlers' = [f \in DOMAIN handlers \ {fd} |-> handlers[f]] /\ ready' = ready \ {fd}
      /\ peer' = [peer EXCEPT ![d].state = "closed"]
      /\ events' = Tail(events) /\ buf' = buf
  BY DEF Loop!close_conn, Loop!Event, Loop!Conn, Loop!Registered, Loop!Restrict
<1>2. /\ s \in Sockets /\ s.state = "closed" /\ s.in = p.in /\ s.sent = p.sent /\ s.end = p.end
      /\ s.out = p.out /\ s.got = p.got /\ p.end # "open"
  BY DEF Sockets
<1>3. /\ peer' \in [Clients -> Sockets] /\ peer'[d] = s
      /\ \A b \in Clients : b # d => peer'[b] = peer[b]
  BY <1>1, <1>2 DEF LoopInv, LoopTypes
<1>4. /\ DOMAIN handlers' = DOMAIN handlers \ {fd}
      /\ \A f \in DOMAIN handlers' : handlers'[f] = handlers[f]
      /\ handlers' \in [DOMAIN handlers' -> [conn: Clients, watched: SUBSET Kinds]]
  BY <1>1 DEF LoopInv, LoopTypes
<1>5. LoopTypes'
  <2>1. DOMAIN handlers' \subseteq Fds /\ ready' \subseteq DOMAIN handlers' \cup {Listen}
    BY <1>1, <1>4 DEF LoopInv, LoopTypes
  <2>2. events' \in Seq(Unread)
    BY <1>1, EventsTail DEF LoopInv
  <2> QED BY <2>1, <2>2, <1>1, <1>3, <1>4 DEF LoopInv, LoopTypes
<1>6. \A f \in DOMAIN handlers' : handlers[f].conn \in Clients /\ handlers[f].conn # d
  BY <1>4 DEF LoopInv, LoopTypes, Connections
<1>7. Connections'
  BY <1>3, <1>4, <1>6 DEF LoopInv, Connections
<1>8. EventsCurrent'
  <2>1. ASSUME NEW k \in DOMAIN events' PROVE Current(events[k])'
    <3>1. PICK e \in Unread : e = Tail(events)[k] /\ Current(e) /\ e.fd # fd
      BY <2>1, <1>1, EventsTail DEF LoopInv
    <3>2. e.fd \in DOMAIN handlers => Harmless(handlers[e.fd].conn)
      <4> SUFFICES ASSUME e.fd \in DOMAIN handlers' PROVE Harmless(handlers[e.fd].conn)
        BY <3>1, <1>4
      <4> PICK b \in Clients : b = handlers[e.fd].conn /\ b # d
        BY <1>6
      <4>1. peer'[b] = peer[b]
        BY <1>3
      <4> QED BY <4>1 DEF Harmless
    <3>3. Current(e)'
      BY <3>1, <3>2, <1>4, StillCurrent DEF LoopInv
    <3>4. events'[k] = e
      BY <3>1, <1>1
    <3> QED BY <3>3, <3>4 DEF Current
  <2>2. \A j, k \in DOMAIN events' : j # k => events'[j].fd # events'[k].fd
    BY <1>1, EventsTail DEF LoopInv
  <2> QED BY <2>1, <2>2 DEF EventsCurrent
<1>9. Buffers'
  <2>1. /\ buf[d].write_pos <= buf[d].write_len /\ Len(p.out) <= SNDBUF
        /\ p.end = "reset" => p.out = <<>>
        /\ p.sent <= 1 => Answered(p, buf[d])
    BY DEF LoopInv, Buffers
  <2>2. s.sent <= 1 => Answered(s, buf[d])
    BY <2>1, <1>2 DEF Answered, Untouched
  <2> QED BY <2>1, <2>2, <1>1, <1>2, <1>3 DEF LoopInv, Buffers
<1> QED BY <1>5, <1>7, <1>8, <1>9 DEF LoopInv

LEMMA Reads ==
  ASSUME LoopInv, Loop!handle_read
  PROVE  LoopInv'
<1> PICK e \in Unread : e = Head(events) /\ Current(e)
  BY EventsTail DEF LoopInv, Loop!handle_read, Loop!Dispatch
<1>1. events # <<>> /\ e.fd \in DOMAIN handlers /\ "RDHUP" \notin e.events /\ "IN" \in e.events
  BY DEF Loop!handle_read, Loop!Dispatch, Loop!Event, Loop!Registered
<1> PICK fd \in DOMAIN handlers : fd = e.fd
  BY <1>1
<1> PICK d \in Clients : d = handlers[fd].conn
  BY DEF LoopInv, LoopTypes
<1> PICK p \in Sockets : p = peer[d]
  BY DEF LoopInv, LoopTypes
<1>2. CASE p.end # "open"
  <2>1. Loop!close_conn /\ peer[handlers[Head(events).fd].conn].end # "open"
    BY <1>2 DEF Loop!handle_read, Loop!Event, Loop!Conn
  <2> QED BY <2>1, <1>1, ConnCloses
<1>3. CASE p.end = "open"
  <2> PICK s : s = [p EXCEPT !.in = 0]
    OBVIOUS
  <2>1. /\ peer' = [peer EXCEPT ![d] = s]
        /\ buf' = [buf EXCEPT ![d] = [write_len |-> RESPONSE, write_pos |-> 0]]
        /\ handlers' = [f \in DOMAIN handlers \cup {fd} |->
                         IF f = fd THEN [conn |-> d, watched |-> {"IN", "OUT"}] ELSE handlers[f]]
        /\ ready' \subseteq ready \cup {fd}
        /\ \/ events' = Tail(events)
           \/ events' = [events EXCEPT ![1].events = {"OUT"}]
    BY <1>3 DEF Loop!handle_read, Loop!Event, Loop!Conn, Loop!Watch, Loop!Registered
  <2>2. /\ s \in Sockets /\ s.state = p.state /\ s.in = 0 /\ s.sent = p.sent /\ s.end = "open"
        /\ s.out = p.out /\ s.got = p.got
    BY <1>3 DEF Sockets
  <2>3. /\ peer' \in [Clients -> Sockets] /\ peer'[d] = s
        /\ \A b \in Clients : b # d => peer'[b] = peer[b]
    BY <2>1, <2>2 DEF LoopInv, LoopTypes
  <2>4. /\ buf' \in [Clients -> [write_len: {0, RESPONSE}, write_pos: Nat]]
        /\ buf'[d].write_len = RESPONSE /\ buf'[d].write_pos = 0
        /\ \A b \in Clients : b # d => buf'[b] = buf[b]
    <3>1. [write_len |-> RESPONSE, write_pos |-> 0] \in [write_len: {0, RESPONSE}, write_pos: Nat]
      OBVIOUS
    <3> QED BY <3>1, <2>1 DEF LoopInv, LoopTypes
  <2>5. /\ DOMAIN handlers' = DOMAIN handlers
        /\ \A f \in DOMAIN handlers : handlers'[f].conn = handlers[f].conn
        /\ handlers' \in [DOMAIN handlers' -> [conn: Clients, watched: SUBSET Kinds]]
    <3>1. [conn |-> d, watched |-> {"IN", "OUT"}] \in [conn: Clients, watched: SUBSET Kinds]
      BY DEF Kinds
    <3>2. DOMAIN handlers \cup {fd} = DOMAIN handlers
      OBVIOUS
    <3>3. \A f \in DOMAIN handlers : handlers[f] \in [conn: Clients, watched: SUBSET Kinds]
      BY DEF LoopInv, LoopTypes
    <3> QED BY <3>1, <3>2, <3>3, <2>1
  <2>6. \A f \in DOMAIN handlers :
          /\ handlers[f].conn \in Clients
          /\ f # fd => handlers[f].conn # d /\ Harmless(handlers[f].conn)
    <3> SUFFICES ASSUME NEW f \in DOMAIN handlers
                 PROVE  /\ handlers[f].conn \in Clients
                        /\ f # fd => handlers[f].conn # d /\ Harmless(handlers[f].conn)
      OBVIOUS
    <3> PICK b \in Clients : b = handlers[f].conn
      BY DEF LoopInv, LoopTypes
    <3>1. f # fd => b # d
      BY DEF LoopInv, Connections
    <3>2. f # fd => Harmless(b)
      BY <3>1, <2>3 DEF Harmless
    <3> QED BY <3>1, <3>2
  <2>7. Connections'
    <3>1. \A b \in Clients : peer'[b].state = peer[b].state
      BY <2>2, <2>3
    <3> QED BY <3>1, <2>5, <2>6 DEF LoopInv, Connections
  <2>8. events' \in Seq(Unread) /\ EventsCurrent'
    <3>1. CASE events' = Tail(events)
      <4>1. ASSUME NEW k \in DOMAIN events' PROVE Current(events[k])'
        <5>1. PICK g \in Unread : g = Tail(events)[k] /\ Current(g) /\ g.fd # fd
          BY <4>1, <3>1, EventsTail DEF LoopInv
        <5>2. Current(g)'
          BY <5>1, <2>5, <2>6, StillCurrent DEF LoopInv
        <5>3. events'[k] = g
          BY <5>1, <3>1
        <5> QED BY <5>2, <5>3 DEF Current
      <4>2. \A j, k \in DOMAIN events' : j # k => events'[j].fd # events'[k].fd
        BY <3>1, EventsTail DEF LoopInv
      <4>3. events' \in Seq(Unread)
        BY <1>1, <3>1, EventsTail DEF LoopInv
      <4> QED BY <4>1, <4>2, <4>3 DEF EventsCurrent
    <3>2. CASE events' = [events EXCEPT ![1].events = {"OUT"}]
      <4>1. events \in Seq(Unread) /\ 1 \in DOMAIN events /\ Head(events) = events[1]
        BY <1>1 DEF LoopInv, LoopTypes
      <4>2. PICK h : h = [e EXCEPT !.events = {"OUT"}]
        OBVIOUS
      <4>3. h \in Unread /\ h.fd = fd /\ h.conn = e.conn /\ h.events = {"OUT"}
        BY <4>2 DEF Unread, Kinds
      <4>4. events' = [events EXCEPT ![1] = h]
        BY <3>2, <4>1, <4>2
      <4>5. /\ DOMAIN events' = DOMAIN events /\ events'[1] = h
            /\ \A k \in DOMAIN events : k # 1 => events'[k] = events[k]
            /\ events' \in Seq(Unread)
        BY <4>1, <4>3, <4>4
      <4>6. fd # Listen
        BY LoopNumbers DEF LoopInv, LoopTypes
      <4>7. Current(h)'
        BY <4>3, <4>6, <1>1, <2>5 DEF Current
      <4>8. ASSUME NEW k \in DOMAIN events, k # 1 PROVE Current(events[k])'
        <5>1. PICK g \in Unread : g = events[k] /\ Current(g) /\ g.fd # fd
          BY <4>1, <4>8 DEF LoopInv, LoopTypes, EventsCurrent
        <5>2. Current(g)'
          BY <5>1, <2>5, <2>6, StillCurrent DEF LoopInv
        <5>3. events'[k] = g
          BY <5>1, <4>5, <4>8
        <5> QED BY <5>2, <5>3 DEF Current
      <4>9. \A k \in DOMAIN events' : Current(events[k])'
        <5>1. Current(events[1])'
          BY <4>5, <4>7 DEF Current
        <5> QED BY <5>1, <4>5, <4>8
      <4>10. \A j, k \in DOMAIN events' : j # k => events'[j].fd # events'[k].fd
        <5>1. \A k \in DOMAIN events : events'[k].fd = events[k].fd
          BY <4>1, <4>3, <4>5
        <5> QED BY <5>1, <4>5 DEF LoopInv, EventsCurrent
      <4> QED BY <4>5, <4>9, <4>10 DEF EventsCurrent
    <3> QED BY <3>1, <3>2, <2>1
  <2>9. LoopTypes'
    <3>1. DOMAIN handlers' \subseteq Fds /\ ready' \subseteq DOMAIN handlers' \cup {Listen}
      BY <2>1, <2>5 DEF LoopInv, LoopTypes
    <3> QED BY <3>1, <2>3, <2>4, <2>5, <2>8 DEF LoopTypes
  <2>10. Buffers'
    <3>1. /\ Len(p.out) <= SNDBUF /\ (p.sent <= 1 => Answered(p, buf[d]))
          /\ p.state = "accepted" /\ p.in \in Nat /\ p.sent \in Nat
      BY SocketFields DEF LoopInv, Buffers, Connections
    <3>2. p.in > 0
      <4>1. fd # Listen
        BY LoopNumbers DEF LoopInv, LoopTypes
      <4> QED BY <4>1, <1>1, <1>3 DEF Current
    <3>3. s.sent <= 1 => Answered(s, buf'[d])
      <4> SUFFICES ASSUME p.sent <= 1 PROVE Answered(s, buf'[d])
        BY <2>2
      <4>1. p.in = p.sent /\ s.in # s.sent /\ s.in <= s.sent
        <5>1. p.in <= p.sent
          BY <3>1 DEF Answered
        <5>2. \A a, b \in Nat : a <= b /\ b <= 1 /\ a > 0 => a = b /\ 0 # b /\ 0 <= b
          OBVIOUS
        <5>3. p.in = p.sent /\ 0 # p.sent /\ 0 <= p.sent
          BY <5>1, <5>2, <3>1, <3>2
        <5> QED BY <5>3, <2>2
      <4>2. s.got = <<>> /\ s.out = <<>>
        BY <4>1, <3>1, <2>2 DEF Answered, Untouched
      <4>3. Counted(<<>>, <<>>) /\ Len(<<>>) + Len(<<>>) = 0 /\ 0 <= RESPONSE
        BY LoopNumbers DEF Counted
      <4> QED BY <4>1, <4>2, <4>3, <3>1, <2>2, <2>4 DEF Answered
    <3>4. buf'[d].write_pos <= buf'[d].write_len
      BY <2>4, LoopNumbers
    <3>5. ASSUME NEW b \in Clients
          PROVE  /\ buf'[b].write_pos <= buf'[b].write_len /\ Len(peer'[b].out) <= SNDBUF
                 /\ peer'[b].end = "reset" => peer'[b].out = <<>>
                 /\ peer'[b].sent <= 1 => Answered(peer'[b], buf'[b])
      <4>1. CASE b = d
        BY <4>1, <3>1, <3>3, <3>4, <2>2, <2>3
      <4>2. CASE b # d
        BY <4>2, <2>3, <2>4 DEF LoopInv, Buffers
      <4> QED BY <4>1, <4>2
    <3> QED BY <3>5 DEF Buffers
  <2> QED BY <2>7, <2>8, <2>9, <2>10 DEF LoopInv
<1> QED BY <1>2, <1>3

LEMMA Joined ==
  ASSUME NEW s \in Seq(Nat), NEW w \in Seq(Nat)
  PROVE  /\ s \o w \in Seq(Nat) /\ Len(s \o w) = Len(s) + Len(w)
         /\ DOMAIN (s \o w) = 1 .. Len(s) + Len(w)
         /\ \A k \in 1 .. Len(s) + Len(w) :
              (s \o w)[k] = IF k <= Len(s) THEN s[k] ELSE w[k - Len(s)]
OBVIOUS

\* What is added to what the kernel holds goes on where it ends.
LEMMA Extended ==
  ASSUME NEW r \in Seq(Nat), NEW s \in Seq(Nat), NEW w \in Seq(Nat), NEW pos \in Nat,
         \A k \in 1 .. Len(w) : w[k] = pos + k, Counted(r, s), Len(r) + Len(s) = pos
  PROVE  Counted(r, s \o w)
<1>1. Len(r) \in Nat /\ Len(s) \in Nat /\ Len(w) \in Nat /\ DOMAIN s = 1 .. Len(s)
  OBVIOUS
<1>2. ASSUME NEW k \in 1 .. Len(s) + Len(w) PROVE (s \o w)[k] = Len(r) + k
  <2>1. (s \o w)[k] = IF k <= Len(s) THEN s[k] ELSE w[k - Len(s)]
    BY Joined
  <2>2. CASE k <= Len(s)
    <3>1. k \in DOMAIN s
      BY <1>1, <2>2
    <3> QED BY <2>1, <2>2, <3>1 DEF Counted
  <2>3. CASE ~(k <= Len(s))
    <3>1. k - Len(s) \in 1 .. Len(w) /\ k \in Nat
      BY <1>1, <2>3
    <3>2. (s \o w)[k] = pos + (k - Len(s))
      BY <2>1, <2>3, <3>1
    <3>3. \A x, y, z \in Nat : (x + y) + (z - y) = x + z
      OBVIOUS
    <3> QED BY <1>1, <3>1, <3>2, <3>3
  <2> QED BY <2>2, <2>3
<1>3. DOMAIN (s \o w) = 1 .. Len(s) + Len(w)
  BY Joined
<1> QED BY <1>2, <1>3 DEF Counted

LEMMA WrittenIs ==
  ASSUME NEW b, b.write_pos \in Nat, NEW n \in Nat
  PROVE  /\ Loop!Written(b, n) \in Seq(Nat) /\ Len(Loop!Written(b, n)) = n
         /\ \A k \in 1 .. n : Loop!Written(b, n)[k] = b.write_pos + k
<1> PICK w : w = Loop!Written(b, n)
  OBVIOUS
<1>1. w \in [1 .. n -> Nat] /\ \A k \in 1 .. n : w[k] = b.write_pos + k
  BY DEF Loop!Written
<1>2. w \in Seq(Nat) /\ Len(w) = n
  BY <1>1
<1> QED BY <1>1, <1>2

LEMMA Reassociated ==
  ASSUME NEW g \in Nat, NEW j \in Nat, NEW h \in Nat
  PROVE  g + (j + h) = (g + j) + h
OBVIOUS

\* What a write takes fits.
LEMMA TakenFits ==
  ASSUME NEW p \in Sockets, NEW b \in [write_len: {0, RESPONSE}, write_pos: Nat],
         b.write_pos <= b.write_len, Len(p.out) <= SNDBUF
  PROVE  /\ Loop!Taken(b, p) \in Nat
         /\ b.write_pos + Loop!Taken(b, p) <= b.write_len
         /\ Len(p.out) + Loop!Taken(b, p) <= SNDBUF
<1>1. /\ b.write_pos \in Nat /\ b.write_len \in Nat /\ Len(p.out) \in Nat /\ SNDBUF \in Nat
  BY SocketFields, LoopNumbers
<1>3. \A x, y \in Nat : x <= y => y - x \in Nat
  OBVIOUS
<1> PICK left \in Nat : left = b.write_len - b.write_pos
  BY <1>1, <1>3
<1> PICK room \in Nat : room = SNDBUF - Len(p.out)
  BY <1>1, <1>3
<1> PICK n \in Nat : n = Loop!Taken(b, p) /\ n <= left /\ n <= room
  <2>1. Loop!Taken(b, p) = Loop!Min({left, room})
    BY DEF Loop!Taken
  <2> QED BY <2>1, LeastOfTwo
<1>2. \A v, x, y, z \in Nat : v = y - x /\ z <= v /\ x <= y => x + z <= y
  OBVIOUS
<1> QED BY <1>1, <1>2

\* The socket p and the buffer b after a write.
WrittenTo(p, b) ==
  [p EXCEPT !.out = p.out \o Loop!Written(b, Loop!Taken(b, p)),
            !.state = IF b.write_pos + Loop!Taken(b, p) = b.write_len THEN "closed"
                      ELSE p.state]
WrittenOf(p, b) == [b EXCEPT !.write_pos = b.write_pos + Loop!Taken(b, p)]

\* What a write makes of the socket p and the buffer b of a connection.
LEMMA SocketWrites ==
  ASSUME NEW p \in Sockets, NEW b \in [write_len: {0, RESPONSE}, write_pos: Nat],
         b.write_pos <= b.write_len, Len(p.out) <= SNDBUF,
         p.state = "accepted", p.end # "reset", p.sent <= 1 => Answered(p, b),
         NEW s, s = WrittenTo(p, b), NEW z, z = WrittenOf(p, b)
  PROVE  /\ s \in Sockets /\ z \in [write_len: {0, RESPONSE}, write_pos: Nat]
         /\ s.in = p.in /\ s.end = p.end
         /\ b.write_pos + Loop!Taken(b, p) # b.write_len => s.state = "accepted"
         /\ z.write_pos <= z.write_len /\ Len(s.out) <= SNDBUF
         /\ s.sent <= 1 => Answered(s, z)
<1> PICK n \in Nat : n = Loop!Taken(b, p) /\ b.write_pos + n <= b.write_len
                                          /\ Len(p.out) + n <= SNDBUF
  BY TakenFits
<1> PICK o \in Seq(Nat) : o = p.out
  BY SocketFields
<1> PICK r \in Seq(Nat) : r = p.got
  BY SocketFields
<1> PICK w \in Seq(Nat) : w = Loop!Written(b, n) /\ Len(w) = n
                          /\ \A k \in 1 .. n : w[k] = b.write_pos + k
  BY WrittenIs
<1>3. o \o w \in Seq(Nat) /\ Len(o \o w) = Len(o) + Len(w)
  BY Joined
<1> PICK t \in Seq(Nat) : t = o \o w /\ Len(t) = Len(o) + n
  BY <1>3
<1>1. /\ s \in Sockets /\ z \in [write_len: {0, RESPONSE}, write_pos: Nat]
      /\ s.in = p.in /\ s.sent = p.sent /\ s.end = p.end /\ s.got = r /\ s.out = t
      /\ s.state = IF b.write_pos + n = b.write_len THEN "closed" ELSE p.state
      /\ z.write_len = b.write_len /\ z.write_pos = b.write_pos + n
  <2>1. s = [p EXCEPT !.out = t,
                      !.state = IF b.write_pos + n = b.write_len THEN "closed" ELSE p.state]
    BY DEF WrittenTo
  <2>2. z = [b EXCEPT !.write_pos = b.write_pos + n]
    BY DEF WrittenOf
  <2>3. /\ z \in [write_len: {0, RESPONSE}, write_pos: Nat]
        /\ z.write_len = b.write_len /\ z.write_pos = b.write_pos + n
    BY <2>2
  <2> QED BY <2>1, <2>3 DEF Sockets
<1>2. /\ Len(o) \in Nat /\ Len(r) \in Nat /\ Len(t) \in Nat
      /\ RESPONSE \in Nat /\ b.write_len <= RESPONSE /\ b.write_pos \in Nat /\ b.write_len \in Nat
  BY LoopNumbers
<1>4. ASSUME s.sent <= 1 PROVE Answered(s, z)
  <2>1. /\ Counted(r, o) /\ Len(r) + Len(o) = b.write_pos
        /\ p.in <= p.sent /\ (p.in = p.sent => Untouched(p, b))
    BY <1>1, <1>4 DEF Answered
  <2>2. Counted(r, t)
    BY <1>2, <2>1, Extended
  <2>3. Len(r) + Len(t) = b.write_pos + n /\ Len(r) + Len(t) <= RESPONSE
    <3>1. PICK g, j, k, l \in Nat : g = Len(r) /\ j = Len(o) /\ k = b.write_pos /\ l = b.write_len
      BY <1>2
    <3>2. g + j = k /\ k + n <= l /\ l <= RESPONSE /\ Len(t) = j + n
      BY <3>1, <1>2, <2>1
    <3>3. g + (j + n) = k + n
      <4>1. g + (j + n) = (g + j) + n
        BY Reassociated
      <4> QED BY <3>2, <4>1
    <3>4. k + n <= RESPONSE
      BY <3>2, <1>2
    <3> QED BY <3>1, <3>2, <3>3, <3>4
  <2>4. Untouched(p, b) => Untouched(s, z)
    <3> SUFFICES ASSUME Untouched(p, b) PROVE Untouched(s, z)
      OBVIOUS
    <3>1. b.write_len = 0 /\ b.write_pos = 0 /\ r = <<>> /\ o = <<>> /\ Len(o) = 0
      BY DEF Untouched
    <3>2. n = 0 /\ Len(t) = 0
      BY <3>1, <1>2
    <3>3. t = <<>>
      <4>1. \A q \in Seq(Nat) : Len(q) = 0 => q = <<>>
        OBVIOUS
      <4> QED BY <4>1, <3>2
    <3> QED BY <3>1, <3>2, <3>3, <1>1 DEF Untouched
  <2>5. s.state = "closed" => z.write_pos = z.write_len
    BY <1>1
  <2>6. s.state \notin {"new", "queued"}
    BY <1>1
  <2> QED BY <2>1, <2>2, <2>3, <2>4, <2>5, <2>6, <1>1 DEF Answered
<1> QED BY <1>1, <1>4

\* The same as one fact about p and b.
WritesFrom(p, b) ==
  /\ b.write_pos <= b.write_len /\ Len(p.out) <= SNDBUF
  /\ p.state = "accepted" /\ p.end # "reset" /\ (p.sent <= 1 => Answered(p, b))

WritesInto(p, b, s, z) ==
  /\ s \in Sockets /\ z \in [write_len: {0, RESPONSE}, write_pos: Nat]
  /\ s.in = p.in /\ s.end = p.end
  /\ b.write_pos + Loop!Taken(b, p) # b.write_len => s.state = "accepted"
  /\ z.write_pos <= z.write_len /\ Len(s.out) <= SNDBUF
  /\ s.sent <= 1 => Answered(s, z)

LEMMA Wrote ==
  ASSUME NEW p \in Sockets, NEW b \in [write_len: {0, RESPONSE}, write_pos: Nat],
         WritesFrom(p, b)
  PROVE  WritesInto(p, b, WrittenTo(p, b), WrittenOf(p, b))
<1> DEFINE s == WrittenTo(p, b)
           z == WrittenOf(p, b)
<1>1. /\ b.write_pos <= b.write_len /\ Len(p.out) <= SNDBUF
      /\ p.state = "accepted" /\ p.end # "reset" /\ (p.sent <= 1 => Answered(p, b))
  BY Zenon DEF WritesFrom
<1>2. /\ s \in Sockets /\ z \in [write_len: {0, RESPONSE}, write_pos: Nat]
      /\ s.in = p.in /\ s.end = p.end
      /\ b.write_pos + Loop!Taken(b, p) # b.write_len => s.state = "accepted"
      /\ z.write_pos <= z.write_len /\ Len(s.out) <= SNDBUF
      /\ s.sent <= 1 => Answered(s, z)
  <2>1. s = WrittenTo(p, b) /\ z = WrittenOf(p, b)
    OBVIOUS
  <2> HIDE DEF s, z
  <2> QED BY <1>1, <2>1, SocketWrites, Zenon
<1> QED BY <1>2, Zenon DEF WritesInto

LEMMA Writes ==
  ASSUME LoopInv, Loop!handle_write
  PROVE  LoopInv'
<1> PICK e \in Unread : e = Head(events)
  BY EventsTail DEF LoopInv, Loop!handle_write, Loop!Dispatch
<1>1. events # <<>> /\ e.fd \in DOMAIN handlers
  BY DEF Loop!handle_write, Loop!Dispatch, Loop!Event, Loop!Registered
<1> PICK fd \in DOMAIN handlers : fd = e.fd
  BY <1>1
<1> PICK d \in Clients : d = handlers[fd].conn
  BY DEF LoopInv, LoopTypes
<1> PICK p \in Sockets : p = peer[d]
  BY DEF LoopInv, LoopTypes
<1>2. CASE p.end = "reset"
  <2>1. Loop!close_conn /\ peer[handlers[Head(events).fd].conn].end # "open"
    BY <1>2 DEF Loop!handle_write, Loop!Event, Loop!Conn
  <2> QED BY <2>1, <1>1, ConnCloses
<1>3. CASE p.end # "reset"
  <2> PICK b \in [write_len: {0, RESPONSE}, write_pos: Nat] : b = buf[d]
    BY DEF LoopInv, LoopTypes
  <2> PICK n : n = Loop!Taken(b, p)
    OBVIOUS
  <2> DEFINE all == b.write_pos + n = b.write_len
  <2> PICK s : s = WrittenTo(p, b)
    OBVIOUS
  <2> PICK z : z = WrittenOf(p, b)
    OBVIOUS
  <2>1. /\ s \in Sockets /\ z \in [write_len: {0, RESPONSE}, write_pos: Nat]
        /\ s.in = p.in /\ s.end = p.end
        /\ ~all => s.state = "accepted"
        /\ z.write_pos <= z.write_len /\ Len(s.out) <= SNDBUF
        /\ s.sent <= 1 => Answered(s, z)
    <3>1. /\ b.write_pos <= b.write_len /\ Len(p.out) <= SNDBUF
          /\ p.state = "accepted" /\ (p.sent <= 1 => Answered(p, b))
      BY DEF LoopInv, Buffers, Connections
    <3>2. /\ s \in Sockets /\ z \in [write_len: {0, RESPONSE}, write_pos: Nat]
          /\ s.in = p.in /\ s.end = p.end
          /\ b.write_pos + Loop!Taken(b, p) # b.write_len => s.state = "accepted"
          /\ z.write_pos <= z.write_len /\ Len(s.out) <= SNDBUF
          /\ s.sent <= 1 => Answered(s, z)
      <4> HIDE DEF all
      <4>1. WritesFrom(p, b)
        BY <3>1, <1>3, Zenon DEF WritesFrom
      <4>2. WritesInto(p, b, WrittenTo(p, b), WrittenOf(p, b))
        BY <4>1, Wrote, Zenon
      <4>3. WritesInto(p, b, s, z)
        BY <4>2, Zenon
      <4> QED BY <4>3, Zenon DEF WritesInto
    <3> QED BY <3>2
  <2>2. /\ buf' = [buf EXCEPT ![d] = z]
        /\ peer' = [peer EXCEPT ![d] = s]
        /\ all => /\ handlers' = [f \in DOMAIN handlers \ {fd} |-> handlers[f]]
                  /\ ready' = ready \ {fd}
        /\ ~all => UNCHANGED <<handlers, ready>>
        /\ events' = Tail(events)
    <3>1. Loop!Event.fd = fd /\ Loop!Conn = d /\ Head(events) = e
      BY DEF Loop!Event, Loop!Conn
    <3>2. /\ buf' = [buf EXCEPT ![d].write_pos = @ + n]
          /\ peer' = [peer EXCEPT ![d].out = @ \o Loop!Written(b, n),
                                  ![d].state = IF b.write_pos + n = b.write_len THEN "closed" ELSE @]
          /\ IF b.write_pos + n = b.write_len
             THEN /\ handlers' = Loop!Restrict(handlers, DOMAIN handlers \ {fd})
                  /\ ready' = ready \ {fd}
             ELSE UNCHANGED <<handlers, ready>>
          /\ events' = Tail(events)
      BY <3>1, <1>3 DEF Loop!handle_write, Loop!Registered, Loop!Complete
    <3>3. peer' = [peer EXCEPT ![d] = s]
      BY <3>2 DEF WrittenTo, LoopInv, LoopTypes
    <3>4. buf' = [buf EXCEPT ![d] = z]
      BY <3>2 DEF WrittenOf, LoopInv, LoopTypes
    <3> QED BY <3>2, <3>3, <3>4 DEF Loop!Restrict, LoopInv, LoopTypes
  <2>4. /\ peer' \in [Clients -> Sockets] /\ peer'[d] = s
        /\ \A c \in Clients : c # d => peer'[c] = peer[c]
    BY <2>1, <2>2 DEF LoopInv, LoopTypes
  <2>5. /\ buf' \in [Clients -> [write_len: {0, RESPONSE}, write_pos: Nat]]
        /\ buf'[d] = z
        /\ \A c \in Clients : c # d => buf'[c] = buf[c]
    BY <2>1, <2>2 DEF LoopInv, LoopTypes
  <2>6. /\ DOMAIN handlers' \subseteq DOMAIN handlers
        /\ \A f \in DOMAIN handlers : f # fd \/ ~all => f \in DOMAIN handlers'
        /\ \A f \in DOMAIN handlers' : handlers'[f] = handlers[f] /\ (f # fd \/ ~all)
        /\ handlers' \in [DOMAIN handlers' -> [conn: Clients, watched: SUBSET Kinds]]
        /\ ready' \subseteq DOMAIN handlers' \cup {Listen}
    <3>1. CASE all
      BY <3>1, <2>2 DEF LoopInv, LoopTypes
    <3>2. CASE ~all
      BY <3>2, <2>2 DEF LoopInv, LoopTypes
    <3> QED BY <3>1, <3>2
  <2>7. \A f \in DOMAIN handlers :
          /\ handlers[f].conn \in Clients /\ Harmless(handlers[f].conn)
          /\ f # fd => handlers[f].conn # d
    <3> SUFFICES ASSUME NEW f \in DOMAIN handlers
                 PROVE  /\ handlers[f].conn \in Clients /\ Harmless(handlers[f].conn)
                        /\ f # fd => handlers[f].conn # d
      OBVIOUS
    <3> PICK c \in Clients : c = handlers[f].conn
      BY DEF LoopInv, LoopTypes
    <3>1. f # fd => c # d
      BY DEF LoopInv, Connections
    <3>2. Harmless(c)
      <4>1. CASE c = d
        BY <4>1, <2>1, <2>4 DEF Harmless
      <4>2. CASE c # d
        BY <4>2, <2>4 DEF Harmless
      <4> QED BY <4>1, <4>2
    <3> QED BY <3>1, <3>2
  <2>8. Connections'
    <3>1. \A f \in DOMAIN handlers' : peer'[handlers[f].conn].state = "accepted"
      <4> SUFFICES ASSUME NEW f \in DOMAIN handlers'
                   PROVE  peer'[handlers[f].conn].state = "accepted"
        OBVIOUS
      <4>1. f \in DOMAIN handlers /\ peer[handlers[f].conn].state = "accepted"
        BY <2>6 DEF LoopInv, Connections
      <4>2. CASE f = fd
        BY <4>1, <4>2, <2>1, <2>4, <2>6
      <4>3. CASE f # fd
        BY <4>1, <4>3, <2>4, <2>7
      <4> QED BY <4>2, <4>3
    <3> QED BY <3>1, <2>6 DEF LoopInv, Connections
  <2>9. EventsCurrent'
    <3>1. ASSUME NEW k \in DOMAIN events' PROVE Current(events[k])'
      <4>1. PICK g \in Unread : g = Tail(events)[k] /\ Current(g) /\ g.fd # fd
        BY <3>1, <1>1, <2>2, EventsTail DEF LoopInv
      <4>2. g.fd \in DOMAIN handlers => /\ g.fd \in DOMAIN handlers'
                                        /\ handlers'[g.fd].conn = handlers[g.fd].conn
                                        /\ Harmless(handlers[g.fd].conn)
        BY <4>1, <2>6, <2>7
      <4>3. Current(g)'
        BY <4>1, <4>2, StillCurrent DEF LoopInv
      <4>4. events'[k] = g
        BY <4>1, <2>2
      <4> QED BY <4>3, <4>4 DEF Current
    <3>2. \A j, k \in DOMAIN events' : j # k => events'[j].fd # events'[k].fd
      BY <1>1, <2>2, EventsTail DEF LoopInv
    <3> QED BY <3>1, <3>2 DEF EventsCurrent
  <2>10. LoopTypes'
    <3>1. DOMAIN handlers' \subseteq Fds
      BY <2>6 DEF LoopInv, LoopTypes
    <3>2. events' \in Seq(Unread)
      BY <1>1, <2>2, EventsTail DEF LoopInv
    <3> QED BY <3>1, <3>2, <2>4, <2>5, <2>6 DEF LoopTypes
  <2>11. Buffers'
    <3>1. ASSUME NEW c \in Clients
          PROVE  /\ buf'[c].write_pos <= buf'[c].write_len /\ Len(peer'[c].out) <= SNDBUF
                 /\ peer'[c].end = "reset" => peer'[c].out = <<>>
                 /\ peer'[c].sent <= 1 => Answered(peer'[c], buf'[c])
      <4>1. CASE c = d
        BY <4>1, <2>1, <2>4, <2>5, <1>3
      <4>2. CASE c # d
        BY <4>2, <2>4, <2>5 DEF LoopInv, Buffers
      <4> QED BY <4>1, <4>2
    <3> QED BY <3>1 DEF Buffers
  <2> QED BY <2>8, <2>9, <2>10, <2>11 DEF LoopInv
<1> QED BY <1>2, <1>3

LEMMA ErrorsHandled ==
  ASSUME LoopInv, Loop!handle_error
  PROVE  LoopInv'
<1>1. events # <<>> /\ Head(events).fd # Listen
  BY DEF Loop!handle_error, Loop!Event
<1> PICK e \in Unread : e = Head(events) /\ Current(e)
  BY <1>1, EventsTail DEF LoopInv
<1>2. CASE e.fd \in DOMAIN handlers
  <2>1. Loop!close_conn /\ "RDHUP" \in e.events
    BY <1>2 DEF Loop!handle_error, Loop!Event, Loop!Registered
  <2>2. peer[handlers[e.fd].conn].end # "open"
    BY <1>1, <2>1 DEF Current
  <2> QED BY <1>1, <1>2, <2>1, <2>2, ConnCloses
<1>3. CASE e.fd \notin DOMAIN handlers
  <2>1. events' = Tail(events) /\ UNCHANGED <<peer, handlers, buf, ready>>
    BY <1>3 DEF Loop!handle_error, Loop!Event, Loop!Registered
  <2> QED BY <1>1, <2>1, EventSkipped
<1> QED BY <1>2, <1>3

LEMMA LoopInductive == LoopInv /\ (Loop!Next \/ UNCHANGED loop_vars) => LoopInv'
<1> SUFFICES ASSUME LoopInv, Loop!Next \/ UNCHANGED loop_vars PROVE LoopInv'
  OBVIOUS
<1>1. CASE Loop!Server
  <2>1. \/ Loop!epoll_wait \/ Loop!AcceptLoop \/ Loop!handle_error
        \/ Loop!handle_read \/ Loop!handle_write
    BY <1>1 DEF Loop!Server
  <2> QED BY <2>1, EventsReported, Accepts, ErrorsHandled, Reads, Writes
<1>2. ASSUME NEW d \in Clients,
             Loop!Connect(d) \/ Loop!Send(d) \/ Loop!HangUp(d) \/ Loop!Receive(d)
      PROVE  LoopInv'
  BY <1>2, ClientConnects, ClientSends, ClientHangsUp, ClientReceives
<1>3. CASE UNCHANGED loop_vars
  BY <1>3 DEF loop_vars, LoopInv, LoopTypes, Connections, EventsCurrent, Current, Buffers,
              Answered, Untouched
<1> QED BY <1>1, <1>2, <1>3 DEF Loop!Next

\* What a client has read and what the kernel holds for it are the start of the response.
LEMMA EventsFollow == LoopInv => Loop!NoStaleEvent /\ Loop!WholeRequestsAnswered
<1> SUFFICES ASSUME LoopInv PROVE Loop!NoStaleEvent /\ Loop!WholeRequestsAnswered
  OBVIOUS
<1>1. Loop!NoStaleEvent
  BY DEF LoopInv, EventsCurrent, Current, Loop!NoStaleEvent, Loop!Registered
<1>2. ASSUME NEW d \in Clients, peer[d].sent <= 1
      PROVE  /\ Loop!IsResponsePrefix(Loop!Stream(d))
             /\ buf[d].write_len > 0 /\ peer[d].state = "closed" /\ peer[d].end = "open"
                  => Len(Loop!Stream(d)) = RESPONSE
  <2> PICK p \in Sockets : p = peer[d]
    BY DEF LoopInv, LoopTypes
  <2> PICK b \in [write_len: {0, RESPONSE}, write_pos: Nat] : b = buf[d]
    BY DEF LoopInv, LoopTypes
  <2> PICK r \in Seq(Nat) : r = p.got
    BY SocketFields
  <2> PICK o \in Seq(Nat) : o = p.out
    BY SocketFields
  <2> PICK t : t = r \o o
    OBVIOUS
  <2>1. /\ t \in Seq(Nat) /\ Len(t) = Len(r) + Len(o) /\ DOMAIN t = 1 .. Len(r) + Len(o)
        /\ \A k \in 1 .. Len(r) + Len(o) : t[k] = IF k <= Len(r) THEN r[k] ELSE o[k - Len(r)]
    <3>1. /\ r \o o \in Seq(Nat) /\ Len(r \o o) = Len(r) + Len(o)
          /\ DOMAIN (r \o o) = 1 .. Len(r) + Len(o)
          /\ \A k \in 1 .. Len(r) + Len(o) :
               (r \o o)[k] = IF k <= Len(r) THEN r[k] ELSE o[k - Len(r)]
      BY Joined
    <3> QED BY <3>1
  <2>2. /\ Counted(r, o) /\ Len(r) + Len(o) <= RESPONSE
        /\ p.end # "reset" => Len(r) + Len(o) = b.write_pos
        /\ b.write_len > 0 /\ p.state = "closed" /\ p.end = "open" => b.write_pos = b.write_len
    BY <1>2 DEF LoopInv, Buffers, Answered
  <2>3. ASSUME NEW k \in 1 .. Len(r) + Len(o) PROVE t[k] = k
    <3>1. Len(r) \in Nat /\ Len(o) \in Nat /\ DOMAIN r = 1 .. Len(r) /\ DOMAIN o = 1 .. Len(o)
          /\ k \in Nat
      OBVIOUS
    <3>2. CASE k <= Len(r)
      <4>1. k \in DOMAIN r
        BY <3>1, <3>2
      <4> QED BY <4>1, <3>2, <2>1, <2>2 DEF Counted
    <3>3. CASE ~(k <= Len(r))
      <4>1. k - Len(r) \in DOMAIN o
        <5>1. \A x, y, z \in Nat : x \in 1 .. y + z /\ ~(x <= y) => x - y \in 1 .. z
          OBVIOUS
        <5> QED BY <5>1, <3>1, <3>3
      <4>2. t[k] = Len(r) + (k - Len(r))
        BY <4>1, <3>3, <2>1, <2>2 DEF Counted
      <4> QED BY <4>2, <3>1
    <3> QED BY <3>2, <3>3
  <2>4. Loop!Stream(d) = t
    BY DEF Loop!Stream
  <2>5. Loop!IsResponsePrefix(t)
    BY <2>1, <2>2, <2>3 DEF Loop!IsResponsePrefix
  <2>6. b.write_len > 0 => b.write_len = RESPONSE
    OBVIOUS
  <2>7. b.write_len > 0 /\ p.state = "closed" /\ p.end = "open" => Len(t) = RESPONSE
    BY <2>1, <2>2, <2>6
  <2> QED BY <2>4, <2>5, <2>7
<1>3. Loop!WholeRequestsAnswered
  BY <1>2 DEF Loop!WholeRequestsAnswered
<1> QED BY <1>1, <1>3

-----------------------------------------------------------------------------
(* All of them: a behaviour runs one program, and the others stay as they began. *)

HandedInv ==
  Inv /\ ActorInv /\ PipeInv /\ MarketInv /\ JobInv /\ MailInv /\ ScriptInv /\ LoopInv

LEMMA HandedInitially == MCInit => HandedInv
BY InitInv, ActorsInitially, PipeInitially, MarketInitially, JobsInitially, MailInitially,
   ScriptInitially, LoopInitially DEF MCInit, HandedInv

\* A step is one of each program or leaves its variables alone.
LEMMA ProgramSteps ==
  ASSUME [MCNext]_allvars
  PROVE  /\ [Next]_vars /\ (Actor!Next \/ UNCHANGED actor_vars)
         /\ (Pipeline!Next \/ UNCHANGED pipeline_vars) /\ (Market!Next \/ UNCHANGED market_vars)
         /\ (Jobs!Next \/ UNCHANGED job_vars) /\ (Single!Next \/ UNCHANGED single_vars)
         /\ (NPC!Next \/ UNCHANGED npc_vars) /\ (Loop!Next \/ UNCHANGED loop_vars)
<1>1. CASE UNCHANGED allvars
  BY <1>1 DEF allvars
<1>2. CASE Runs("pool", Next)
  BY <1>2 DEF Runs
<1>3. CASE Runs("actors", Actor!Next)
  BY <1>3 DEF Runs
<1>4. CASE Runs("pipeline", Pipeline!Next)
  BY <1>4 DEF Runs
<1>5. CASE Runs("market", Market!Next)
  BY <1>5 DEF Runs
<1>6. CASE Runs("jobs", Jobs!Next)
  BY <1>6 DEF Runs
<1>7. CASE Runs("mailbox", Single!Next)
  BY <1>7 DEF Runs
<1>8. CASE Runs("server", Loop!Next)
  BY <1>8 DEF Runs
<1>9. CASE Runs("npcs", NPC!Next)
  BY <1>9 DEF Runs
<1> QED BY <1>1, <1>2, <1>3, <1>4, <1>5, <1>6, <1>7, <1>8, <1>9 DEF MCNext

LEMMA HandedStep == HandedInv /\ [MCNext]_allvars => HandedInv'
<1> SUFFICES ASSUME HandedInv, [MCNext]_allvars PROVE HandedInv'
  OBVIOUS
<1>1. Inv'
  BY ProgramSteps, InvStep DEF HandedInv
<1>2. ActorInv' /\ PipeInv' /\ MarketInv'
  BY ProgramSteps, ActorsInductive, PipeInductive, MarketInductive DEF HandedInv
<1>3. JobInv' /\ MailInv' /\ ScriptInv' /\ LoopInv'
  BY ProgramSteps, JobInductive, MailInductive, ScriptInductive, LoopInductive DEF HandedInv
<1> QED BY <1>1, <1>2, <1>3 DEF HandedInv

\* The inductive invariants of the eight programs.
THEOREM HandedInvariance == MCSpec => []HandedInv
BY HandedInitially, HandedStep, PTL DEF MCSpec

\* Whatever is handed over arrives once and in order, for any number of producers,
\* workers, slots, orders, frames, ticks, tasks, messages and NPCs: see HandedOverOnce.
THEOREM EverythingHandedOver == MCSpec => []HandedOverOnce
<1>1. HandedInv => HandedOverOnce
  BY OrdersFollow, FramesFollow, TicksFollow, FuturesFollow, MessagesFollow, LockstepFollows
     DEF HandedInv, HandedOverOnce, Inv
<1> QED BY <1>1, HandedInvariance, PTL

\* The server handles no event of a connection that is gone and answers whole requests in
\* full, for any number of clients and descriptors and any sizes: see EventsHandled.
THEOREM EventsHandledProperly == MCSpec => []EventsHandled
<1>1. HandedInv => EventsHandled
  BY EventsFollow DEF HandedInv, EventsHandled
<1> QED BY <1>1, HandedInvariance, PTL

=============================================================================
