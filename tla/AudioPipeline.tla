--------------------------- MODULE AudioPipeline ----------------------------
(***************************************************************************)
(* The pipeline of Day 38: a producer of frames, a filter and a consumer,  *)
(* joined by two bounded queues on which they block, stopped by a poison   *)
(* pill that travels through both.  AudioPipeLine.c signals inside the     *)
(* lock, AudioPipeline.cpp after it has released it: there the notify is a *)
(* step of its own, and what it may find has changed.  main starts the     *)
(* three threads and joins them.                                           *)
(***************************************************************************)
EXTENDS Naturals, Sequences

CONSTANTS QUEUE_CAP, TOTAL_FRAMES

PipelineAssumption == QUEUE_CAP \in Nat \ {0} /\ TOTAL_FRAMES \in Nat

VARIABLES lang,       \* the program: "c" or "cpp"
          queue,      \* the two AudioQueues
          at,         \* where each stage is
          frame,      \* the frame a stage has in hand
          consumed    \* history: what stage3_consumer counted

vars == <<lang, queue, at, frame, consumed>>

\* Stage i pops from queue i - 1 and pushes to queue i.
Stages == 1 .. 3
Queues == 1 .. 2

\* n stands for the samples, gains for how often they were multiplied
Frame(n, gains) == [n |-> n, gains |-> gains, is_last |-> FALSE]
PoisonPill == [n |-> 0, gains |-> 0, is_last |-> TRUE]

\* stage1_producer: frame i of its loop, and the pill after the last
Produced(i) == IF i <= TOTAL_FRAMES THEN Frame(i, 0) ELSE PoisonPill

Init ==
  /\ lang \in {"c", "cpp"}
  /\ queue = [j \in Queues |->
       [buffer |-> [s \in 0 .. QUEUE_CAP - 1 |-> PoisonPill], head |-> 0, tail |-> 0, count |-> 0]]
  /\ at = [i \in Stages |-> IF i = 1 THEN "push" ELSE "pop"]
  /\ frame = [i \in Stages |-> Produced(1)]
  /\ consumed = <<>>

\* What a signal on not_empty (not_full) of queue j makes of its one waiter.
WakePopper(j, where) == IF where[j + 1] = "wait_not_empty" THEN [where EXCEPT ![j + 1] = "pop"] ELSE where
WakePusher(j, where) == IF where[j] = "wait_not_full" THEN [where EXCEPT ![j] = "push"] ELSE where

\* The loop of stage i goes on behind its push; the producer makes its next frame.
AfterPush(i) ==
  /\ frame' = IF i = 1 /\ ~frame[1].is_last
              THEN [frame EXCEPT ![1] = Produced(frame[1].n + 1)] ELSE frame
  /\ at' = LET next == [at EXCEPT ![i] = IF frame[i].is_last THEN "done"
                                         ELSE IF i = 1 THEN "push" ELSE "pop"]
           IN  WakePopper(i, next)

\* ... and behind its pop, with f in hand: the filter applies the gain.
AfterPop(i, f) ==
  /\ frame' = [frame EXCEPT ![i] = IF f.is_last \/ i = 3 THEN f ELSE [f EXCEPT !.gains = @ + 1]]
  /\ consumed' = IF i = 3 /\ ~f.is_last THEN Append(consumed, f) ELSE consumed
  /\ at' = LET next == [at EXCEPT ![i] = IF i = 2 THEN "push"
                                         ELSE IF f.is_last THEN "done" ELSE "pop"]
           IN  WakePusher(i - 1, next)

-----------------------------------------------------------------------------
(* queue_push, BoundedPipelineQueue::push *)

PushWaits(i) ==
  /\ at[i] = "push"
  /\ queue[i].count = QUEUE_CAP
  /\ at' = [at EXCEPT ![i] = "wait_not_full"]
  /\ UNCHANGED <<lang, queue, frame, consumed>>

Put(i) ==
  /\ at[i] = "push"
  /\ queue[i].count < QUEUE_CAP
  /\ queue' = [queue EXCEPT ![i] =
       [buffer |-> [@.buffer EXCEPT ![queue[i].tail] = frame[i]],
        head |-> @.head, tail |-> (@.tail + 1) % QUEUE_CAP, count |-> @.count + 1]]

queue_push(i) == lang = "c" /\ Put(i) /\ AfterPush(i) /\ UNCHANGED <<lang, consumed>>

push(i) ==
  /\ lang = "cpp" /\ Put(i)
  /\ at' = [at EXCEPT ![i] = "notify_not_empty"]
  /\ UNCHANGED <<lang, frame, consumed>>

push_notify(i) ==
  at[i] = "notify_not_empty" /\ AfterPush(i) /\ UNCHANGED <<lang, queue, consumed>>

-----------------------------------------------------------------------------
(* queue_pop, BoundedPipelineQueue::pop *)

PopWaits(i) ==
  /\ at[i] = "pop"
  /\ queue[i - 1].count = 0
  /\ at' = [at EXCEPT ![i] = "wait_not_empty"]
  /\ UNCHANGED <<lang, queue, frame, consumed>>

Front(j) == queue[j].buffer[queue[j].head]

Get(i) ==
  /\ at[i] = "pop"
  /\ queue[i - 1].count > 0
  /\ queue' = [queue EXCEPT ![i - 1].head = (@ + 1) % QUEUE_CAP, ![i - 1].count = @ - 1]

queue_pop(i) == lang = "c" /\ Get(i) /\ AfterPop(i, Front(i - 1)) /\ UNCHANGED lang

pop(i) ==
  /\ lang = "cpp" /\ Get(i)
  /\ frame' = [frame EXCEPT ![i] = Front(i - 1)]
  /\ at' = [at EXCEPT ![i] = "notify_not_full"]
  /\ UNCHANGED <<lang, consumed>>

pop_notify(i) ==
  at[i] = "notify_not_full" /\ AfterPop(i, frame[i]) /\ UNCHANGED <<lang, queue>>

-----------------------------------------------------------------------------
stage1_producer == PushWaits(1) \/ queue_push(1) \/ push(1) \/ push_notify(1)
stage3_consumer == PopWaits(3) \/ queue_pop(3) \/ pop(3) \/ pop_notify(3)
stage2_filter ==
  \/ PopWaits(2) \/ queue_pop(2) \/ pop(2) \/ pop_notify(2)
  \/ PushWaits(2) \/ queue_push(2) \/ push(2) \/ push_notify(2)

\* pthread_cond_wait may return unsignalled; both programs test again.
SpuriousWakeup(i) ==
  /\ at[i] \in {"wait_not_full", "wait_not_empty"}
  /\ at' = [at EXCEPT ![i] = IF @ = "wait_not_full" THEN "push" ELSE "pop"]
  /\ UNCHANGED <<lang, queue, frame, consumed>>

Next == stage1_producer \/ stage2_filter \/ stage3_consumer \/ \E i \in Stages : SpuriousWakeup(i)

-----------------------------------------------------------------------------
\* main's joins return.
Ended == \A i \in Stages : at[i] = "done"

Contents(j) == [k \in 1 .. queue[j].count |-> queue[j].buffer[(queue[j].head + k - 1) % QUEUE_CAP]]
InHand(i)   == IF at[i] \in {"push", "wait_not_full", "notify_not_full"} THEN <<frame[i]>> ELSE <<>>

\* Frames from the newest stage's hand to the consumer's count, oldest first.
InFlight == consumed \o InHand(3) \o Contents(2) \o InHand(2) \o Contents(1) \o InHand(1)

\* No frame is lost, doubled or overtaken between the stages, and exactly those past
\* the filter had the gain applied, once; the pill comes last.
FramesInOrder ==
  /\ \A k \in 1 .. Len(InFlight) :
       LET f == InFlight[k] IN IF f.is_last THEN k = TOTAL_FRAMES + 1 ELSE f.n = k
  /\ \A k \in 1 .. Len(consumed) : consumed[k].gains = 1
  /\ Ended => Len(consumed) = TOTAL_FRAMES
=============================================================================
