---------------------------- MODULE AudioBuffer -----------------------------
(***************************************************************************)
(* Day 22, AudioBuffer.c and AudioBuffer.cpp: a sound driver's callback    *)
(* pulls blocks of samples out of a lock-free ring that a background       *)
(* thread fills.  The callback never waits: what the ring does not have    *)
(* yet is played as silence.  The C producer makes two seconds of sound;   *)
(* the C++ one goes on until it is told to stop.                           *)
(***************************************************************************)
EXTENDS Integers, Sequences, FiniteSets

CONSTANTS CAPACITY,     \* slots of the ring (8192)
          SAMPLES,      \* SAMPLE_RATE * 2, the sound asked for (88200)
          BLOCK,        \* frames a callback pulls (256; SAMPLES is no multiple)
          Silence,      \* the 0.0f that fills an underrun
          Raw           \* a slot that holds no object

AudioAssumption ==
  /\ CAPACITY \in Nat \ {0} /\ SAMPLES \in Nat \ {0} /\ BLOCK \in Nat \ {0}
  /\ {Silence, Raw} \cap Nat = {} /\ Silence # Raw

VARIABLES lang,         \* the program that runs: "C" or "Cpp"
          slots, head, tail,
          running,      \* the C++ flag that stops the producer
          producer,     \* [at, sample]: its step and the sample it offers
          callback,     \* the callback's step
          heard         \* the frames the driver got, in order

vars == <<lang, slots, head, tail, running, producer, callback, heard>>

RingInit ==
  /\ slots = [i \in 0 .. CAPACITY - 1 |-> Raw] /\ head = 0 /\ tail = 0

Init ==
  /\ RingInit
  /\ lang \in {"C", "Cpp"} /\ running = TRUE
  /\ producer = [at |-> "loop", sample |-> 0]
  /\ callback = "pull" /\ heard = <<>>

\* The C loop counts its samples; the C++ loop reads the flag before each one.
Loop ==
  /\ producer.at = "loop"
  /\ producer' = [producer EXCEPT !.at =
       IF (IF lang = "C" THEN producer.sample < SAMPLES ELSE running) THEN "offer" ELSE "ended"]
  /\ UNCHANGED <<lang, slots, head, tail, running, callback, heard>>

\* Slip: a faulty form of Room; not part of Next.
RoomPastCapacity == tail - head <= CAPACITY

Room == tail - head < CAPACITY

\* ring_push / try_emplace read the indices: a full ring sends the producer to
\* sleep, after which the C++ one gives the sample up once it is told to stop.
Offer ==
  /\ producer.at = "offer"
  /\ producer' = IF Room THEN [producer EXCEPT !.at = "write"]
                 ELSE IF lang = "Cpp" /\ ~running
                 THEN [at |-> "loop", sample |-> producer.sample + 1]
                 ELSE producer
  /\ UNCHANGED <<lang, slots, head, tail, running, callback, heard>>

\* The sample is built in its slot, and only then is the slot published.
Write ==
  /\ producer.at = "write"
  /\ slots' = [slots EXCEPT ![tail % CAPACITY] = producer.sample]
  /\ producer' = [producer EXCEPT !.at = "publish"]
  /\ UNCHANGED <<lang, head, tail, running, callback, heard>>

Publish ==
  /\ producer.at = "publish"
  /\ tail' = tail + 1
  /\ producer' = [at |-> "loop", sample |-> producer.sample + 1]
  /\ UNCHANGED <<lang, slots, head, running, callback, heard>>

ProducerStep == Loop \/ Offer \/ Write \/ Publish

\* One frame of the callback: an empty ring is silence, never a wait.
Hear(s) == heard' = Append(heard, s)

Pull ==
  /\ callback = "pull"
  /\ IF head = tail
     THEN Hear(Silence) /\ callback' = "count"
     ELSE callback' = "read" /\ UNCHANGED heard
  /\ UNCHANGED <<lang, slots, head, tail, running, producer>>

\* The sample is moved out; the C++ slot is destroyed, the C one keeps its bits.
Read ==
  /\ callback = "read"
  /\ Hear(slots[head % CAPACITY])
  /\ slots' = IF lang = "Cpp" THEN [slots EXCEPT ![head % CAPACITY] = Raw] ELSE slots
  /\ callback' = "release"
  /\ UNCHANGED <<lang, head, tail, running, producer>>

Release ==
  /\ callback = "release"
  /\ head' = head + 1
  /\ callback' = "count"
  /\ UNCHANGED <<lang, slots, tail, running, producer, heard>>

\* main pulls whole blocks until two seconds are through, then joins; the C++
\* main clears the flag first.
Count ==
  /\ callback = "count"
  /\ LET done == Len(heard) % BLOCK = 0 /\ Len(heard) >= SAMPLES
     IN /\ callback' = IF done THEN "join" ELSE "pull"
        /\ running' = (running /\ ~done)
  /\ UNCHANGED <<lang, slots, head, tail, producer, heard>>

Join ==
  /\ callback = "join" /\ producer.at = "ended"
  /\ callback' = "ended"
  /\ UNCHANGED <<lang, slots, head, tail, running, producer, heard>>

CallbackStep == Pull \/ Read \/ Release \/ Count \/ Join

Next == ProducerStep \/ CallbackStep
Spec == Init /\ [][Next]_vars /\ WF_vars(ProducerStep) /\ WF_vars(CallbackStep)

-----------------------------------------------------------------------------
\* What is heard is the sound from its first sample, with silence put in but
\* nothing lost, repeated or read from a slot that holds no sample: a frame that is
\* not silence is the sample whose number is that of the samples heard before it.
HeardInOrder ==
  \A i \in 1 .. Len(heard) :
    heard[i] # Silence => heard[i] = Cardinality({j \in 1 .. i - 1 : heard[j] # Silence})

\* The C++ slots: an object lives in exactly the slots between head and tail,
\* but for the one a thread is building or has just destroyed.
ObjectsLive ==
  lang = "Cpp" =>
    {i \in 0 .. CAPACITY - 1 : slots[i] # Raw}
      = {i % CAPACITY : i \in (IF callback = "release" THEN head + 1 ELSE head)
                               .. (IF producer.at = "publish" THEN tail ELSE tail - 1)}

\* The C producer sleeps on a full ring nobody pulls from any more: the driver
\* heard so much silence that the rest of the sound does not fit the ring.
Starved ==
  /\ lang = "C" /\ callback = "join"
  /\ producer.at = "offer" /\ ~Room

\* Both threads end, unless the C producer is starved.
Ended == callback = "ended" \/ Starved
=============================================================================
